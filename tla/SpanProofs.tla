----------------------------- MODULE SpanProofs -----------------------------
(***************************************************************************)
(* The span of every node of the tree of a text selects the tokens that    *)
(* are parsed to it, for every text.  A parse of tokens in their place is  *)
(* compared with one of a piece of the text, by what moves between them.   *)
(***************************************************************************)
EXTENDS CompilerProofs

-----------------------------------------------------------------------------
(* Trees moved back, as if the tokens before them were not there           *)

\* A node as it would be if the first d tokens were not there.
MovedNode(node, d) == [node EXCEPT !.span = <<node.span[1] - d, node.span[2] - d>>]

\* A tree, moved back.
Moved(e, d) == [k \in DOMAIN e |-> MovedNode(e[k], d)]

\* A tree moved is a sequence of its nodes, moved.
LEMMA MovedNodes ==
  ASSUME NEW e \in Seq(Nodes), NEW d \in Nat
  PROVE  /\ Moved(e, d) = [k \in 1 .. Len(e) |-> MovedNode(e[k], d)]
         /\ Len(Moved(e, d)) = Len(e) /\ DOMAIN Moved(e, d) = 1 .. Len(e)
         /\ \A k \in 1 .. Len(e) : Moved(e, d)[k] = MovedNode(e[k], d)
         /\ Moved(e, d) = Shifted(e, 0 - d)
<1>1. Len(e) \in Nat /\ DOMAIN e = 1 .. Len(e) /\ \A k \in 1 .. Len(e) : e[k] \in Nodes
  OBVIOUS
<1>2. Moved(e, d) = [k \in 1 .. Len(e) |-> MovedNode(e[k], d)]
  BY <1>1 DEF Moved
<1>3. Len(Moved(e, d)) = Len(e) /\ DOMAIN Moved(e, d) = 1 .. Len(e)
  BY <1>1, <1>2
<1>4. \A k \in 1 .. Len(e) : Moved(e, d)[k] = MovedNode(e[k], d)
  BY <1>2
<1>5. \A k \in 1 .. Len(e) :
        MovedNode(e[k], d)
          = [e[k] EXCEPT !.span = <<e[k].span[1] + (0 - d), e[k].span[2] + (0 - d)>>]
  <2> TAKE k \in 1 .. Len(e)
  <2>1. e[k].span[1] \in Nat /\ e[k].span[2] \in Nat
    BY <1>1 DEF Nodes, Spans
  <2>2. e[k].span[1] + (0 - d) = e[k].span[1] - d /\ e[k].span[2] + (0 - d) = e[k].span[2] - d
    BY <2>1
  <2> QED
    BY <2>2 DEF MovedNode
<1>6. Moved(e, d) = Shifted(e, 0 - d)
  BY <1>1, <1>5 DEF Moved, Shifted
<1> QED
  BY <1>2, <1>3, <1>4, <1>6

\* What moving leaves alone.
LEMMA MovedParts ==
  ASSUME NEW node \in Nodes, NEW d \in Nat
  PROVE  /\ MovedNode(node, d).op = node.op /\ MovedNode(node, d).lexeme = node.lexeme
         /\ MovedNode(node, d).size = node.size
         /\ MovedNode(node, d).span = <<node.span[1] - d, node.span[2] - d>>
         /\ MovedNode(node, d).span[1] = node.span[1] - d
         /\ MovedNode(node, d).span[2] = node.span[2] - d
BY DEF MovedNode, Nodes

\* A new node, moved.
LEMMA MovedNew ==
  ASSUME NEW op, NEW lexeme, NEW size, NEW from \in Nat, NEW to \in Nat, NEW d \in Nat
  PROVE  MovedNode(Node(op, lexeme, size, from, to), d) = Node(op, lexeme, size, from - d, to - d)
<1> DEFINE node == Node(op, lexeme, size, from, to)
<1>1. node = [op |-> op, lexeme |-> lexeme, size |-> size, span |-> <<from, to>>]
      /\ node.span[1] = from /\ node.span[2] = to
  BY DEF Node
<1>2. MovedNode(node, d) = [op |-> op, lexeme |-> lexeme, size |-> size, span |-> <<from - d, to - d>>]
  BY <1>1 DEF MovedNode
<1> QED
  BY <1>2 DEF Node

\* A leaf, moved.
LEMMA MovedLeaf ==
  ASSUME NEW op, NEW lexeme, NEW i \in Nat, NEW d \in Nat
  PROVE  Moved(Leaf(op, lexeme, i), d) = Leaf(op, lexeme, i - d)
<1> DEFINE node == Node(op, lexeme, 1, i, i)
           moved == Node(op, lexeme, 1, i - d, i - d)
<1>1. MovedNode(node, d) = moved
  BY MovedNew
<1> HIDE DEF node, moved
<1>2. Moved(<<node>>, d) = <<moved>>
  BY <1>1 DEF Moved
<1> QED
  BY <1>2 DEF Leaf, node, moved

\* A tree and a node, moved one by one.
LEMMA MovedAppend ==
  ASSUME NEW e \in Seq(Nodes), NEW node \in Nodes, NEW d \in Nat
  PROVE  Moved(Append(e, node), d) = Append(Moved(e, d), MovedNode(node, d))
<1> DEFINE n == Len(e)
           S == {MovedNode(x, d) : x \in Nodes}
           f == Moved(e, d)
           last == MovedNode(node, d)
           a == Append(e, node)
           b == Append(f, last)
<1>1. n \in Nat /\ DOMAIN e = 1 .. n /\ \A k \in 1 .. n : e[k] \in Nodes
  OBVIOUS
<1>2. /\ a = [k \in 1 .. n + 1 |-> a[k]]
      /\ \A k \in 1 .. n : a[k] = e[k]
      /\ a[n + 1] = node
  BY AppendedAt
<1>3. f = [k \in 1 .. n |-> MovedNode(e[k], d)] /\ Len(f) = n
      /\ \A k \in 1 .. n : f[k] = MovedNode(e[k], d)
  BY MovedNodes
<1>4. f \in Seq(S) /\ last \in S
  <2>1. f \in [1 .. n -> S] /\ last \in S
    BY <1>1, <1>3
  <2> HIDE DEF S, f, last
  <2> QED
    BY <1>1, <2>1
<1> HIDE DEF S, f, last
<1>5. /\ b = [k \in 1 .. n + 1 |-> b[k]]
      /\ \A k \in 1 .. n : b[k] = f[k]
      /\ b[n + 1] = last
  BY <1>3, <1>4, AppendedAt
<1> HIDE DEF a, b
<1>6. Moved(a, d) = [k \in 1 .. n + 1 |-> MovedNode(a[k], d)]
  <2>1. DOMAIN a = 1 .. n + 1
    BY <1>2
  <2> QED
    BY <2>1 DEF Moved
<1>7. ASSUME NEW k \in 1 .. n + 1 PROVE MovedNode(a[k], d) = b[k]
  <2>1. k \in 1 .. n \/ k = n + 1
    BY <1>1
  <2> QED
    BY <1>2, <1>3, <1>5, <2>1 DEF last
<1>8. Moved(a, d) = b
  BY <1>5, <1>6, <1>7
<1> QED
  BY <1>8 DEF a, b, f, last

\* Two trees, moved one by one.
LEMMA MovedJoined ==
  ASSUME NEW l \in Seq(Nodes), NEW r \in Seq(Nodes), NEW d \in Nat
  PROVE  Moved(l \o r, d) = Moved(l, d) \o Moved(r, d)
<1> DEFINE m == Len(l)
           n == Len(r)
           S == {MovedNode(x, d) : x \in Nodes}
           f == Moved(l, d)
           g == Moved(r, d)
           a == l \o r
           b == f \o g
<1>1. /\ m \in Nat /\ n \in Nat /\ \A k \in 1 .. m : l[k] \in Nodes
      /\ \A k \in 1 .. n : r[k] \in Nodes
  OBVIOUS
<1>2. /\ a \in Seq(Nodes) /\ Len(a) = m + n
      /\ \A k \in 1 .. m : a[k] = l[k]
      /\ \A k \in 1 .. n : a[m + k] = r[k]
  BY JoinedAt
<1>3. /\ Len(f) = m /\ f = [k \in 1 .. m |-> MovedNode(l[k], d)]
      /\ Len(g) = n /\ g = [k \in 1 .. n |-> MovedNode(r[k], d)]
      /\ \A k \in 1 .. m : f[k] = MovedNode(l[k], d)
      /\ \A k \in 1 .. n : g[k] = MovedNode(r[k], d)
  BY MovedNodes
<1>4. f \in Seq(S) /\ g \in Seq(S)
  <2>1. f \in [1 .. m -> S] /\ g \in [1 .. n -> S]
    BY <1>1, <1>3
  <2>2. \A k \in Nat : \A h \in [1 .. k -> S] : h \in Seq(S)
    OBVIOUS
  <2> HIDE DEF S, f, g, m, n
  <2> QED
    BY <1>1, <2>1, <2>2
<1> HIDE DEF S, f, g
<1>5. /\ b \in Seq(S) /\ Len(b) = m + n
      /\ \A k \in 1 .. m : b[k] = f[k]
      /\ \A k \in 1 .. n : b[m + k] = g[k]
  <2>1. /\ b \in Seq(S) /\ Len(b) = Len(f) + Len(g)
        /\ \A k \in 1 .. Len(f) : b[k] = f[k]
        /\ \A k \in 1 .. Len(g) : b[Len(f) + k] = g[k]
    BY <1>4, JoinedAt
  <2> HIDE DEF b
  <2> QED
    BY <1>3, <2>1
<1> HIDE DEF a, b, m, n
<1>6. Moved(a, d) = [k \in 1 .. m + n |-> MovedNode(a[k], d)]
  BY <1>2, MovedNodes
<1>7. b = [k \in 1 .. m + n |-> b[k]]
  BY <1>5
<1>8. ASSUME NEW k \in 1 .. m + n PROVE MovedNode(a[k], d) = b[k]
  <2>1. k \in 1 .. m \/ (k - m \in 1 .. n /\ k = m + (k - m))
    BY <1>1
  <2>2. CASE k \in 1 .. m
    BY <1>2, <1>3, <1>5, <2>2
  <2>3. CASE k - m \in 1 .. n /\ k = m + (k - m)
    <3> DEFINE h == k - m
    <3>1. h \in 1 .. n /\ k = m + h
      BY <2>3
    <3> HIDE DEF h
    <3>2. a[k] = r[h] /\ b[k] = g[h] /\ g[h] = MovedNode(r[h], d)
      BY <1>2, <1>3, <1>5, <3>1
    <3> QED
      BY <3>2
  <2> QED
    BY <2>1, <2>2, <2>3
<1>9. Moved(a, d) = b
  BY <1>6, <1>7, <1>8
<1> QED
  BY <1>9 DEF a, b, f, g

\* A unary node, moved with its operand.
LEMMA MovedUnary ==
  ASSUME NEW e \in Trees, NEW op \in Unaries \cup {"sqrt"}, NEW from \in Nat, NEW to \in Nat,
         NEW d \in Nat
  PROVE  Moved(Unary(op, e, from, to), d) = Unary(op, Moved(e, d), from - d, to - d)
<1> DEFINE node == Node(op, << >>, Len(e) + 1, from, to)
<1>1. e \in Seq(Nodes) /\ Len(e) \in Nat
  BY TreeFacts
<1>2. node \in Nodes
  <2>1. << >> \in Seq(STRING) /\ Len(e) + 1 \in Places /\ <<from, to>> \in Spans /\ op \in Operations
    BY <1>1 DEF Places, Spans, Operations
  <2> QED
    BY <2>1 DEF Node, Nodes
<1>3. MovedNode(node, d) = Node(op, << >>, Len(e) + 1, from - d, to - d)
  BY MovedNew
<1>4. Len(Moved(e, d)) = Len(e)
  BY <1>1, MovedNodes
<1> HIDE DEF node
<1>5. Moved(Append(e, node), d) = Append(Moved(e, d), MovedNode(node, d))
  BY <1>1, <1>2, MovedAppend
<1> QED
  BY <1>3, <1>4, <1>5 DEF Unary, node

\* A binary node, moved with its operands.
LEMMA MovedBinary ==
  ASSUME NEW l \in Trees, NEW r \in Trees, NEW op \in Binaries, NEW from \in Nat, NEW to \in Nat,
         NEW d \in Nat
  PROVE  Moved(Binary(op, l, r, from, to), d)
           = Binary(op, Moved(l, d), Moved(r, d), from - d, to - d)
<1> DEFINE size == Len(l) + Len(r) + 1
           node == Node(op, << >>, size, from, to)
<1>1. l \in Seq(Nodes) /\ Len(l) \in Nat /\ r \in Seq(Nodes) /\ Len(r) \in Nat
      /\ l \o r \in Seq(Nodes)
  BY TreeFacts, JoinedAt
<1>2. node \in Nodes
  <2>1. << >> \in Seq(STRING) /\ size \in Places /\ <<from, to>> \in Spans /\ op \in Operations
    BY <1>1 DEF Places, Spans, Operations
  <2> QED
    BY <2>1 DEF Node, Nodes
<1>3. MovedNode(node, d) = Node(op, << >>, size, from - d, to - d)
  BY MovedNew
<1>4. Len(Moved(l, d)) = Len(l) /\ Len(Moved(r, d)) = Len(r)
  BY <1>1, MovedNodes
<1> HIDE DEF node
<1>5. Moved(Append(l \o r, node), d) = Append(Moved(l \o r, d), MovedNode(node, d))
  BY <1>1, <1>2, MovedAppend
<1>6. Moved(l \o r, d) = Moved(l, d) \o Moved(r, d)
  BY <1>1, MovedJoined
<1> QED
  BY <1>3, <1>4, <1>5, <1>6 DEF Binary, node

\* A group, moved.
LEMMA MovedRegroup ==
  ASSUME NEW e \in Trees, NEW from \in Nat, NEW to \in Nat, NEW d \in Nat
  PROVE  Moved(Regroup(e, from, to), d) = Regroup(Moved(e, d), from - d, to - d)
<1> DEFINE n == Len(e)
           f == Moved(e, d)
           a == [e EXCEPT ![n].span = <<from, to>>]
           b == [f EXCEPT ![n].span = <<from - d, to - d>>]
<1>1. e \in Seq(Nodes) /\ n \in Nat /\ n > 0 /\ DOMAIN e = 1 .. n /\ \A k \in 1 .. n : e[k] \in Nodes
  BY TreeFacts
<1>2. /\ f = [k \in 1 .. n |-> MovedNode(e[k], d)] /\ Len(f) = n /\ DOMAIN f = 1 .. n
      /\ \A k \in 1 .. n : f[k] = MovedNode(e[k], d)
  BY <1>1, MovedNodes
<1> HIDE DEF f
<1>3. a = [k \in 1 .. n |-> IF k = n THEN [e[n] EXCEPT !.span = <<from, to>>] ELSE e[k]]
  BY <1>1
<1>4. b = [k \in 1 .. n |-> IF k = n THEN [f[n] EXCEPT !.span = <<from - d, to - d>>] ELSE f[k]]
  BY <1>2
<1>5. Moved(a, d) = [k \in 1 .. n |-> MovedNode(a[k], d)]
  <2>1. DOMAIN a = 1 .. n
    BY <1>1
  <2> HIDE DEF a
  <2> QED
    BY <2>1 DEF Moved
<1>6. MovedNode([e[n] EXCEPT !.span = <<from, to>>], d)
        = [MovedNode(e[n], d) EXCEPT !.span = <<from - d, to - d>>]
  <2>1. e[n] \in Nodes
    BY <1>1
  <2> QED
    BY <2>1 DEF MovedNode, Nodes
<1>7. ASSUME NEW k \in 1 .. n PROVE MovedNode(a[k], d) = b[k]
  <2>1. CASE k = n
    <3>1. a[k] = [e[n] EXCEPT !.span = <<from, to>>]
      BY <1>3, <2>1
    <3>2. b[k] = [f[n] EXCEPT !.span = <<from - d, to - d>>]
      BY <1>4, <2>1
    <3>3. f[n] = MovedNode(e[n], d)
      BY <1>2, <2>1
    <3> QED
      BY <1>6, <3>1, <3>2, <3>3
  <2>2. CASE k # n
    <3>1. a[k] = e[k]
      BY <1>3, <2>2
    <3>2. b[k] = f[k]
      BY <1>4, <2>2
    <3> QED
      BY <1>2, <3>1, <3>2
  <2> QED
    BY <2>1, <2>2
<1>8. b = [k \in 1 .. n |-> b[k]]
  BY <1>4
<1> HIDE DEF a, b
<1>9. Moved(a, d) = b
  BY <1>5, <1>7, <1>8
<1> QED
  BY <1>2, <1>9 DEF Regroup, a, b, f

\* The span of a tree, moved.
LEMMA MovedSpan ==
  ASSUME NEW e \in Trees, NEW d \in Nat
  PROVE  Span(Moved(e, d))[1] = Span(e)[1] - d /\ Span(Moved(e, d))[2] = Span(e)[2] - d
<1>1. e \in Seq(Nodes) /\ Len(e) \in Nat /\ Len(e) \in 1 .. Len(e) /\ e[Len(e)] \in Nodes
  BY TreeFacts
<1>2. Len(Moved(e, d)) = Len(e) /\ Moved(e, d)[Len(e)] = MovedNode(e[Len(e)], d)
  BY <1>1, MovedNodes
<1> QED
  BY <1>1, <1>2, MovedParts DEF Span

\* A sum or a product, moved with its operands.
LEMMA MovedJoint ==
  ASSUME NEW l \in Trees, NEW r \in Trees, NEW op \in Binaries, NEW d \in Nat
  PROVE  Moved(Joined(op, l, r), d) = Joined(op, Moved(l, d), Moved(r, d))
<1>1. Span(l)[1] \in Nat /\ Span(r)[2] \in Nat
  BY SpanType
<1>2. Span(Moved(l, d))[1] = Span(l)[1] - d /\ Span(Moved(r, d))[2] = Span(r)[2] - d
  BY MovedSpan
<1> QED
  BY <1>1, <1>2, MovedBinary DEF Joined

-----------------------------------------------------------------------------
(* A piece of a stream, with EOF behind it, is parsed as in its place      *)

\* The tokens of ts behind the first d of them and up to q, and EOF.
IsCut(ts, us, d, q) ==
  /\ IsStream(ts) /\ IsStream(us)
  /\ d \in Nat /\ q \in Nat /\ d < q /\ q + 1 \in DOMAIN ts
  /\ Len(us) = q - d + 1
  /\ \A k \in d + 1 .. q : us[k - d] = ts[k]

\* A success that ends in the piece or right behind it is one in the piece alone.
Carries(r, s, d, q) ==
  r.ok /\ r.next <= q + 1 => s = Parsed(Moved(r.value, d), r.next - d)

\* The same of what stands in braces, wherever they open.
AllCarry(inner, within, d, q) ==
  \A j \in d + 1 .. q : Carries(inner[j], within[j - d], d, q)

\* The tokens of a piece.
LEMMA CutTokens ==
  ASSUME NEW ts, NEW us, NEW d, NEW q, IsCut(ts, us, d, q), NEW i \in d + 1 .. q + 1
  PROVE  /\ d \in Nat /\ q \in Nat /\ i \in Nat /\ i \in DOMAIN ts
         /\ i - d \in DOMAIN us /\ i - d \in Nat /\ i - d > 0 /\ (i + 1) - d = (i - d) + 1
         /\ i <= q => us[i - d] = ts[i] /\ i \in d + 1 .. q /\ i + 1 \in d + 1 .. q + 1
         /\ i = q + 1 => us[i - d].type = "EOF"
<1>1. /\ d \in Nat /\ q \in Nat /\ d < q /\ q + 1 \in DOMAIN ts /\ Len(us) = q - d + 1
      /\ DOMAIN ts = 1 .. Len(ts) /\ Len(ts) \in Nat /\ DOMAIN us = 1 .. Len(us)
      /\ us[Len(us)].type = "EOF"
      /\ \A k \in d + 1 .. q : us[k - d] = ts[k]
  BY DEF IsCut, IsStream
<1>2. i \in Nat /\ i \in DOMAIN ts /\ i - d \in DOMAIN us /\ i - d \in Nat /\ i - d > 0
      /\ (i + 1) - d = (i - d) + 1
  BY <1>1
<1>3. i <= q => i \in d + 1 .. q /\ i + 1 \in d + 1 .. q + 1
  BY <1>1
<1>4. i = q + 1 => i - d = Len(us)
  BY <1>1
<1> QED
  BY <1>1, <1>2, <1>3, <1>4

\* Where a token is of a type, it is consumed.
LEMMA ConsumeHere ==
  ASSUME NEW ts, IsStream(ts), NEW i \in DOMAIN ts, NEW a, ts[i].type = a
  PROVE  /\ Consume(ts, i, <<a>>) = Parsed(i, i + 1) /\ Consume(ts, i, <<a>>).ok
         /\ Consume(ts, i, <<a>>).value = i /\ Consume(ts, i, <<a>>).next = i + 1
<1>1. i \in Nat /\ Len(ts) \in Nat /\ i <= Len(ts)
  BY TokenAfter DEF IsStream
<1> DEFINE types == <<a>>
           wrong == {k \in DOMAIN types : i + k - 1 > Len(ts) \/ ts[i + k - 1].type # types[k]}
<1>2. Len(types) = 1 /\ DOMAIN types = {1} /\ types[1] = a
  OBVIOUS
<1>3. i + 1 - 1 = i /\ ~(i + 1 - 1 > Len(ts))
  BY <1>1
<1>4. wrong = {}
  <2> SUFFICES ASSUME NEW k \in wrong PROVE FALSE
    OBVIOUS
  <2>1. k = 1
    BY <1>2
  <2> HIDE DEF types
  <2> QED
    BY <1>2, <1>3, <2>1
<1>5. Consume(ts, i, types) = Parsed(i + Len(types) - 1, i + Len(types))
  BY <1>4 DEF Consume
<1> HIDE DEF types, wrong
<1>6. Consume(ts, i, types) = Parsed(i, i + 1)
  BY <1>2, <1>3, <1>5
<1>7. Parsed(i, i + 1).ok /\ Parsed(i, i + 1).value = i /\ Parsed(i, i + 1).next = i + 1
  BY DEF Parsed
<1> QED
  BY <1>6, <1>7 DEF types

\* Only there is it consumed.
LEMMA ConsumeOnly ==
  ASSUME NEW ts, IsStream(ts), NEW i \in DOMAIN ts, NEW a, a # "EOF", Consume(ts, i, <<a>>).ok
  PROVE  ts[i].type = a /\ Consume(ts, i, <<a>>) = Parsed(i, i + 1) /\ i + 1 \in DOMAIN ts
<1>1. ts[i].type = a
  BY ConsumeOne
<1>2. Consume(ts, i, <<a>>) = Parsed(i, i + 1)
  BY <1>1, ConsumeHere
<1>3. i + 1 \in DOMAIN ts
  BY <1>1, TokenAfter
<1> QED
  BY <1>1, <1>2, <1>3

\* What is parsed takes tokens, up to the one before the next.
LEMMA ParsedOn ==
  ASSUME NEW ts, NEW i, NEW level, NEW r \in ParsedTrees(ts, i, level), r.ok
  PROVE  /\ r.value \in Trees /\ i \in Nat /\ r.next \in Nat /\ r.next > i /\ r.next \in DOMAIN ts
         /\ Span(r.value)[1] = i /\ Span(r.value)[2] \in Nat /\ r.next = Span(r.value)[2] + 1
         /\ Span(r.value)[2] = r.next - 1
<1>1. r.value \in Trees /\ r.next \in DOMAIN ts /\ Stands(ts, r.value, i, r.next, level)
  BY TreeCases
<1> DEFINE last == Span(r.value)[2]
<1>2. Span(r.value)[1] = i /\ r.next = last + 1 /\ i \in Nat /\ last \in Nat /\ i <= last
  BY <1>1 DEF Stands, Balanced
<1> HIDE DEF last
<1>3. r.next \in Nat /\ r.next > i /\ last = r.next - 1
  BY <1>2
<1> QED
  BY <1>1, <1>2, <1>3 DEF last

\* A success carries if the piece has the same one, moved.
LEMMA CarriesIf ==
  ASSUME NEW e, NEW next, NEW s, NEW d, NEW q,
         next <= q + 1 => s = Parsed(Moved(e, d), next - d)
  PROVE  Carries(Parsed(e, next), s, d, q)
BY DEF Carries, Parsed

\* What _parse_signed_number_node returns, with and without a sign.
LEMMA ExponentIs ==
  ASSUME NEW ts, IsStream(ts), NEW i \in DOMAIN ts
  PROVE  /\ ts[i].type \in {"PLUS", "MINUS"} =>
              /\ i + 1 \in DOMAIN ts
              /\ ts[i + 1].type = "NUMBER" =>
                   ParseExponent(ts, i)
                     = Parsed(Unary(SignOf(ts[i]), Leaf("number", ts[i + 1].lexeme, i + 1), i, i + 1),
                              i + 2)
              /\ ts[i + 1].type # "NUMBER" => ~ParseExponent(ts, i).ok
         /\ ts[i].type \notin {"PLUS", "MINUS"} =>
              /\ ts[i].type = "NUMBER" =>
                   ParseExponent(ts, i) = Parsed(Leaf("number", ts[i].lexeme, i), i + 1)
              /\ ts[i].type # "NUMBER" => ~ParseExponent(ts, i).ok
<1>1. CASE ts[i].type \in {"PLUS", "MINUS"}
  <2> DEFINE c == Consume(ts, i + 1, <<"NUMBER">>)
  <2>1. ParseExponent(ts, i)
          = IF c.ok
            THEN Parsed(Unary(SignOf(ts[i]), Leaf("number", ts[c.value].lexeme, c.value), i, c.value),
                        c.next)
            ELSE c
    BY <1>1 DEF ParseExponent, Then
  <2>2. i + 1 \in DOMAIN ts /\ i + 1 + 1 = i + 2
    BY <1>1, TokenAfter
  <2>3. ASSUME ts[i + 1].type = "NUMBER" PROVE c.ok /\ c.value = i + 1 /\ c.next = i + 2
    BY <2>2, <2>3, ConsumeHere
  <2>4. ASSUME ts[i + 1].type # "NUMBER" PROVE ~c.ok
    BY <2>2, <2>4, ConsumeOnly
  <2> HIDE DEF c
  <2> QED
    BY <1>1, <2>1, <2>2, <2>3, <2>4
<1>2. CASE ts[i].type \notin {"PLUS", "MINUS"}
  <2> DEFINE c == Consume(ts, i, <<"NUMBER">>)
  <2>1. ParseExponent(ts, i)
          = IF c.ok THEN Parsed(Leaf("number", ts[i].lexeme, i), c.next) ELSE c
    BY <1>2 DEF ParseExponent, Then
  <2>3. ASSUME ts[i].type = "NUMBER" PROVE c.ok /\ c.next = i + 1
    BY <2>3, ConsumeHere
  <2>4. ASSUME ts[i].type # "NUMBER" PROVE ~c.ok
    BY <2>4, ConsumeOnly
  <2> HIDE DEF c
  <2> QED
    BY <1>2, <2>1, <2>3, <2>4
<1> QED
  BY <1>1, <1>2

\* _parse_signed_number_node in a piece.
LEMMA CutExponent ==
  ASSUME NEW ts, NEW us, NEW d, NEW q, IsCut(ts, us, d, q), NEW i \in d + 1 .. q
  PROVE  Carries(ParseExponent(ts, i), ParseExponent(us, i - d), d, q)
<1> DEFINE p == i - d
<1>1. i \in d + 1 .. q + 1 /\ i + 1 \in d + 1 .. q + 1 /\ i <= q
  BY DEF IsCut
<1>2. /\ d \in Nat /\ q \in Nat /\ i \in Nat /\ i \in DOMAIN ts
      /\ p \in DOMAIN us /\ p \in Nat /\ (i + 1) - d = p + 1 /\ us[p] = ts[i]
  BY <1>1, CutTokens
<1>3. /\ i + 1 \in Nat /\ (i + 2) - d = p + 2
      /\ i + 1 <= q => us[p + 1] = ts[i + 1]
  BY <1>1, <1>2, CutTokens
<1>4. IsStream(ts) /\ IsStream(us)
  BY DEF IsCut
<1>5. CASE ts[i].type \in {"PLUS", "MINUS"}
  <2> DEFINE n == Leaf("number", ts[i + 1].lexeme, i + 1)
             op == SignOf(ts[i])
             e == Unary(op, n, i, i + 1)
             next == i + 2
  <2>1. CASE ts[i + 1].type # "NUMBER"
    <3>1. ~ParseExponent(ts, i).ok
      BY <1>2, <1>4, <1>5, <2>1, ExponentIs
    <3> QED
      BY <3>1 DEF Carries
  <2>2. CASE ts[i + 1].type = "NUMBER"
    <3>1. ParseExponent(ts, i) = Parsed(e, next) /\ i + 1 \in DOMAIN ts
      BY <1>2, <1>4, <1>5, <2>2, ExponentIs
    <3>2. n \in Trees /\ op \in Unaries \cup {"sqrt"}
      BY <1>4, <2>2, <3>1, NumberLeaf DEF SignOf, Unaries
    <3>3. Moved(n, d) = Leaf("number", ts[i + 1].lexeme, p + 1)
      BY <1>2, <1>3, MovedLeaf
    <3>4. Moved(e, d) = Unary(op, Moved(n, d), p, p + 1)
      <4>1. Moved(e, d) = Unary(op, Moved(n, d), i - d, (i + 1) - d)
        <5>1. i \in Nat /\ i + 1 \in Nat /\ d \in Nat
          BY <1>2, <1>3
        <5> HIDE DEF n, op, p
        <5> QED
          BY <3>2, <5>1, MovedUnary
      <4> QED
        BY <1>2, <4>1
    <3>5. ASSUME next <= q + 1
          PROVE  ParseExponent(us, p) = Parsed(Moved(e, d), next - d)
      <4>1. us[p + 1] = ts[i + 1]
        BY <1>2, <1>3, <3>5
      <4>2. ParseExponent(us, p)
              = Parsed(Unary(op, Leaf("number", ts[i + 1].lexeme, p + 1), p, p + 1), p + 2)
        BY <1>2, <1>4, <1>5, <2>2, <4>1, ExponentIs
      <4> HIDE DEF e, n, op
      <4> QED
        BY <1>2, <1>3, <3>3, <3>4, <4>2
    <3> HIDE DEF e, next
    <3> QED
      BY <3>1, <3>5, CarriesIf, Zenon
  <2> QED
    BY <2>1, <2>2
<1>6. CASE ts[i].type \notin {"PLUS", "MINUS"}
  <2> DEFINE e == Leaf("number", ts[i].lexeme, i)
             next == i + 1
  <2>1. CASE ts[i].type # "NUMBER"
    <3>1. ~ParseExponent(ts, i).ok
      BY <1>2, <1>4, <1>6, <2>1, ExponentIs
    <3> QED
      BY <3>1 DEF Carries
  <2>2. CASE ts[i].type = "NUMBER"
    <3>1. ParseExponent(ts, i) = Parsed(e, next)
      BY <1>2, <1>4, <1>6, <2>2, ExponentIs
    <3>2. ParseExponent(us, p) = Parsed(Leaf("number", ts[i].lexeme, p), p + 1)
      BY <1>2, <1>4, <1>6, <2>2, ExponentIs
    <3>3. Moved(e, d) = Leaf("number", ts[i].lexeme, p)
      BY <1>2, MovedLeaf
    <3>4. ParseExponent(us, p) = Parsed(Moved(e, d), next - d)
      BY <1>2, <3>2, <3>3
    <3> HIDE DEF e, next
    <3> QED
      BY <3>1, <3>4, CarriesIf, Zenon
  <2> QED
    BY <2>1, <2>2
<1> QED
  BY <1>5, <1>6

\* What stands in braces starts behind one and ends before the other.
LEMMA BracedIs ==
  ASSUME NEW ts, IsStream(ts), NEW i \in DOMAIN ts, NEW inner \in Inner(ts),
         Braced(ts, i, inner).ok
  PROVE  LET e == inner[i + 1]
             r == Braced(ts, i, inner)
         IN /\ ts[i].type = "LBRACE" /\ i + 1 \in DOMAIN ts /\ e \in ParsedTrees(ts, i + 1, 1)
            /\ e.ok /\ e.next \in DOMAIN ts /\ ts[e.next].type = "RBRACE"
            /\ e.value \in Trees /\ e.next \in Nat /\ e.next > i + 1
            /\ r.value.e = e.value /\ r.value.close = e.next /\ r.next = e.next + 1
            /\ r.next \in DOMAIN ts
<1> DEFINE open == Consume(ts, i, <<"LBRACE">>)
           e == inner[i + 1]
           f == inner[open.next]
           close == Consume(ts, f.next, <<"RBRACE">>)
           braced == [e |-> f.value, close |-> close.value]
           r == Braced(ts, i, inner)
<1>1. r = IF open.ok THEN IF f.ok THEN IF close.ok THEN Parsed(braced, close.next) ELSE close ELSE f
          ELSE open
  BY DEF Braced, Then
<1>2. open.ok /\ f.ok /\ close.ok /\ r = Parsed(braced, close.next)
  BY <1>1
<1>3. ts[i].type = "LBRACE" /\ open.next = i + 1 /\ i + 1 \in DOMAIN ts
  BY <1>2, ConsumeOnly, ConsumeHere
<1>4. f = e
  BY <1>3
<1>5. e \in ParsedTrees(ts, i + 1, 1)
  BY <1>3 DEF Inner
<1> HIDE DEF open
<1>6. e.ok /\ e.value \in Trees /\ e.next \in Nat /\ e.next > i + 1 /\ e.next \in DOMAIN ts
  BY <1>2, <1>4, <1>5, ParsedOn
<1> HIDE DEF e, f
<1>7. ts[e.next].type = "RBRACE" /\ close.value = e.next /\ close.next = e.next + 1
      /\ e.next + 1 \in DOMAIN ts
  BY <1>2, <1>4, <1>6, ConsumeOnly, ConsumeHere
<1> HIDE DEF close
<1>8. braced.e = e.value /\ braced.close = e.next
  BY <1>4, <1>7
<1> HIDE DEF braced
<1>9. r.value = braced /\ r.next = e.next + 1
  BY <1>2, <1>7 DEF Parsed
<1> HIDE DEF r
<1> QED
  BY <1>3, <1>5, <1>6, <1>7, <1>8, <1>9 DEF e, r

\* An expression between braces is one in braces.
LEMMA BracedOf ==
  ASSUME NEW ts, IsStream(ts), NEW i \in DOMAIN ts, NEW inner, ts[i].type = "LBRACE",
         NEW e, NEW next \in DOMAIN ts, inner[i + 1] = Parsed(e, next), ts[next].type = "RBRACE"
  PROVE  Braced(ts, i, inner) = Parsed([e |-> e, close |-> next], next + 1)
<1> DEFINE open == Consume(ts, i, <<"LBRACE">>)
           f == inner[open.next]
           close == Consume(ts, f.next, <<"RBRACE">>)
           braced == [e |-> f.value, close |-> close.value]
<1>1. Braced(ts, i, inner) =
        IF open.ok THEN IF f.ok THEN IF close.ok THEN Parsed(braced, close.next) ELSE close ELSE f
        ELSE open
  BY DEF Braced, Then
<1>2. open.ok /\ open.next = i + 1
  BY ConsumeHere
<1>3. f.ok /\ f.value = e /\ f.next = next
  BY <1>2 DEF Parsed
<1> HIDE DEF open, f
<1>4. close.ok /\ close.value = next /\ close.next = next + 1
  BY <1>3, ConsumeHere
<1> HIDE DEF close
<1> QED
  BY <1>1, <1>2, <1>3, <1>4

\* Braces in a piece.
LEMMA CutBraced ==
  ASSUME NEW ts, NEW us, NEW d, NEW q, IsCut(ts, us, d, q), NEW i \in d + 1 .. q,
         NEW inner \in Inner(ts), NEW within, AllCarry(inner, within, d, q),
         Braced(ts, i, inner).ok, Braced(ts, i, inner).next <= q + 1
  PROVE  LET r == Braced(ts, i, inner) IN
         /\ Braced(us, i - d, within)
              = Parsed([e |-> Moved(r.value.e, d), close |-> r.value.close - d], r.next - d)
         /\ r.value.e \in Trees /\ r.value.close \in Nat /\ r.next \in Nat /\ r.next > i
<1> DEFINE e == inner[i + 1]
           r == Braced(ts, i, inner)
           close == e.next
<1>1. IsStream(ts) /\ IsStream(us)
  BY DEF IsCut
<1>2. /\ d \in Nat /\ q \in Nat /\ i \in Nat /\ i \in DOMAIN ts
      /\ i - d \in DOMAIN us /\ (i + 1) - d = (i - d) + 1 /\ us[i - d] = ts[i]
  <2>1. i \in d + 1 .. q + 1 /\ i <= q
    BY DEF IsCut
  <2> QED
    BY <2>1, CutTokens
<1>3. /\ ts[i].type = "LBRACE" /\ e.ok /\ ts[close].type = "RBRACE"
      /\ e.value \in Trees /\ close \in Nat /\ close > i + 1
      /\ r.value.e = e.value /\ r.value.close = close /\ r.next = close + 1
  BY <1>1, <1>2, BracedIs
<1> HIDE DEF r
<1>4. close <= q /\ close \in d + 1 .. q + 1 /\ i + 1 \in d + 1 .. q /\ close <= q + 1
  <2>1. r.next <= q + 1
    BY DEF r
  <2> HIDE DEF e
  <2> QED
    BY <1>2, <1>3, <2>1
<1>5. within[(i + 1) - d] = Parsed(Moved(e.value, d), close - d)
  BY <1>3, <1>4 DEF AllCarry, Carries
<1> HIDE DEF e
<1>6. close - d \in DOMAIN us /\ us[close - d] = ts[close] /\ (close + 1) - d = (close - d) + 1
  BY <1>4, CutTokens
<1>7. Braced(us, i - d, within)
        = Parsed([e |-> Moved(e.value, d), close |-> close - d], (close - d) + 1)
  BY <1>1, <1>2, <1>3, <1>5, <1>6, BracedOf
<1>8. r.value.e \in Trees /\ r.value.close \in Nat /\ r.next \in Nat /\ r.next > i
  BY <1>2, <1>3
<1>9. Braced(us, i - d, within)
        = Parsed([e |-> Moved(r.value.e, d), close |-> r.value.close - d], r.next - d)
  BY <1>3, <1>6, <1>7
<1> QED
  BY <1>8, <1>9 DEF r

\* _parse_fraction, _parse_sqrt and _parse_group in a piece.
LEMMA CutBracedAtom ==
  ASSUME NEW ts, NEW us, NEW d, NEW q, IsCut(ts, us, d, q), NEW i \in d + 1 .. q,
         NEW inner \in Inner(ts), NEW within, AllCarry(inner, within, d, q),
         ts[i].type \in {"FRAC", "SQRT", "LBRACE"}
  PROVE  Carries(ParseBracedAtom(ts, i, inner), ParseBracedAtom(us, i - d, within), d, q)
<1> DEFINE p == i - d
           b(j) == Braced(ts, j, inner)
           c(j) == Braced(us, j, within)
           Moves(r) == Parsed([e |-> Moved(r.value.e, d), close |-> r.value.close - d], r.next - d)
<1>1. IsStream(ts)
  BY DEF IsCut
<1>2. /\ d \in Nat /\ q \in Nat /\ i \in Nat /\ i <= q /\ i \in DOMAIN ts
      /\ us[p] = ts[i] /\ (i + 1) - d = p + 1
  <2>1. i \in d + 1 .. q + 1 /\ i <= q
    BY DEF IsCut
  <2> QED
    BY <2>1, CutTokens
<1>3. ASSUME NEW j \in d + 1 .. q, b(j).ok, b(j).next <= q + 1
      PROVE  /\ c(j - d) = Moves(b(j)) /\ b(j).value.e \in Trees /\ b(j).value.close \in Nat
             /\ b(j).next \in Nat /\ b(j).next > j
  BY <1>3, CutBraced
<1>4. ASSUME NEW j \in DOMAIN ts, b(j).ok PROVE b(j).next \in Nat /\ b(j).next > j /\ b(j).next \in DOMAIN ts
  <2>1. j \in Nat /\ b(j).next = inner[j + 1].next + 1 /\ inner[j + 1].next > j + 1
        /\ inner[j + 1].next \in Nat /\ b(j).next \in DOMAIN ts
    BY <1>1, <1>4, BracedIs, TokenAfter
  <2> QED
    BY <2>1
<1>5. CASE ts[i].type = "FRAC"
  <2> DEFINE num == b(i + 1)
             den == b(num.next)
             e == Binary("frac", num.value.e, den.value.e, i, den.value.close)
             left == c(p + 1)
             right == c(left.next)
             f == Binary("frac", left.value.e, right.value.e, p, right.value.close)
  <2>1. ParseBracedAtom(ts, i, inner) =
          IF num.ok THEN IF den.ok THEN Parsed(e, den.next) ELSE den ELSE num
    BY <1>5 DEF ParseBracedAtom, Then
  <2>2. ParseBracedAtom(us, p, within) =
          IF left.ok THEN IF right.ok THEN Parsed(f, right.next) ELSE right ELSE left
    BY <1>2, <1>5 DEF ParseBracedAtom, Then
  <2> HIDE DEF b, c, p
  <2>3. ASSUME num.ok, den.ok, den.next <= q + 1
        PROVE  ParseBracedAtom(us, p, within) = Parsed(Moved(e, d), den.next - d)
    <3>1. i + 1 \in DOMAIN ts
      BY <1>1, <1>2, <1>5, TokenAfter
    <3>2. num.next \in Nat /\ num.next > i + 1 /\ num.next \in DOMAIN ts
      BY <1>4, <2>3, <3>1
    <3>3. den.next \in Nat /\ den.next > num.next
      BY <1>4, <2>3, <3>2
    <3>4. i + 1 \in d + 1 .. q /\ num.next \in d + 1 .. q /\ num.next <= q + 1
      <4> HIDE DEF num, den
      <4> QED
        BY <1>2, <2>3, <3>2, <3>3
    <3>5. left = Moves(num) /\ num.value.e \in Trees
      BY <1>2, <1>3, <2>3, <3>4
    <3>6. c(num.next - d) = Moves(den) /\ den.value.e \in Trees /\ den.value.close \in Nat
      BY <1>3, <2>3, <3>4
    <3> HIDE DEF num, left
    <3>7. left.ok /\ left.value.e = Moved(num.value.e, d) /\ left.next = num.next - d
      BY <3>5 DEF Parsed
    <3>8. right = Moves(den)
      BY <3>6, <3>7
    <3> HIDE DEF den, right
    <3>9. /\ right.ok /\ right.value.e = Moved(den.value.e, d)
          /\ right.value.close = den.value.close - d /\ right.next = den.next - d
      BY <3>8 DEF Parsed
    <3>10. Moved(e, d) = f
      <4>1. "frac" \in Binaries
        BY DEF Binaries
      <4>2. Moved(e, d) = Binary("frac", Moved(num.value.e, d), Moved(den.value.e, d),
                                 i - d, den.value.close - d)
        <5>1. /\ num.value.e \in Trees /\ den.value.e \in Trees /\ den.value.close \in Nat
              /\ i \in Nat /\ d \in Nat
          BY <1>2, <3>5, <3>6
        <5> QED
          BY <4>1, <5>1, MovedBinary
      <4> QED
        BY <3>7, <3>9, <4>2 DEF p
    <3> HIDE DEF e, f
    <3> QED
      BY <2>2, <3>7, <3>9, <3>10
  <2> HIDE DEF num, den, e
  <2>4. CASE num.ok /\ den.ok
    <3>1. ParseBracedAtom(ts, i, inner) = Parsed(e, den.next)
      BY <2>1, <2>4
    <3> QED
      BY <2>3, <2>4, <3>1, CarriesIf, Zenon DEF p
  <2>5. CASE ~(num.ok /\ den.ok)
    BY <2>1, <2>5 DEF Carries
  <2> QED
    BY <2>4, <2>5
<1>6. CASE ts[i].type = "SQRT"
  <2> DEFINE arg == b(i + 1)
             e == Unary("sqrt", arg.value.e, i, arg.value.close)
             at == c(p + 1)
             f == Unary("sqrt", at.value.e, p, at.value.close)
  <2>1. ParseBracedAtom(ts, i, inner) = IF arg.ok THEN Parsed(e, arg.next) ELSE arg
    BY <1>6 DEF ParseBracedAtom, Then
  <2>2. ParseBracedAtom(us, p, within) = IF at.ok THEN Parsed(f, at.next) ELSE at
    BY <1>2, <1>6 DEF ParseBracedAtom, Then
  <2> HIDE DEF b, c, p
  <2>3. ASSUME arg.ok, arg.next <= q + 1
        PROVE  ParseBracedAtom(us, p, within) = Parsed(Moved(e, d), arg.next - d)
    <3>1. i + 1 \in DOMAIN ts
      BY <1>1, <1>2, <1>6, TokenAfter
    <3>2. arg.next \in Nat /\ arg.next > i + 1
      BY <1>4, <2>3, <3>1
    <3>3. i + 1 \in d + 1 .. q
      <4> HIDE DEF arg
      <4> QED
        BY <1>2, <2>3, <3>2
    <3>4. at = Moves(arg) /\ arg.value.e \in Trees /\ arg.value.close \in Nat
      BY <1>2, <1>3, <2>3, <3>3
    <3> HIDE DEF arg, at
    <3>5. /\ at.ok /\ at.value.e = Moved(arg.value.e, d)
          /\ at.value.close = arg.value.close - d /\ at.next = arg.next - d
      BY <3>4 DEF Parsed
    <3>6. Moved(e, d) = f
      <4>1. Moved(e, d) = Unary("sqrt", Moved(arg.value.e, d), i - d, arg.value.close - d)
        <5> DEFINE o == arg.value.e
                   to == arg.value.close
                   op == "sqrt"
        <5>1. /\ o \in Trees /\ to \in Nat /\ i \in Nat /\ d \in Nat
              /\ op \in Unaries \cup {"sqrt"}
          BY <1>2, <3>4
        <5> HIDE DEF o, to, op
        <5>2. Moved(Unary(op, o, i, to), d) = Unary(op, Moved(o, d), i - d, to - d)
          BY <5>1, MovedUnary
        <5> QED
          BY <5>2 DEF o, to, op
      <4> QED
        BY <3>5, <4>1 DEF p
    <3> HIDE DEF e, f
    <3> QED
      BY <2>2, <3>5, <3>6
  <2> HIDE DEF arg, e
  <2>4. CASE arg.ok
    <3>1. ParseBracedAtom(ts, i, inner) = Parsed(e, arg.next)
      BY <2>1, <2>4
    <3> QED
      BY <2>3, <2>4, <3>1, CarriesIf, Zenon DEF p
  <2>5. CASE ~arg.ok
    BY <2>1, <2>5 DEF Carries
  <2> QED
    BY <2>4, <2>5
<1>7. CASE ts[i].type = "LBRACE"
  <2> DEFINE group == b(i)
             e == Regroup(group.value.e, i, group.value.close)
             at == c(p)
             f == Regroup(at.value.e, p, at.value.close)
  <2>1. ParseBracedAtom(ts, i, inner) = IF group.ok THEN Parsed(e, group.next) ELSE group
    BY <1>7 DEF ParseBracedAtom, Then
  <2>2. ParseBracedAtom(us, p, within) = IF at.ok THEN Parsed(f, at.next) ELSE at
    BY <1>2, <1>7 DEF ParseBracedAtom, Then
  <2> HIDE DEF b, c
  <2>3. ASSUME group.ok, group.next <= q + 1
        PROVE  ParseBracedAtom(us, p, within) = Parsed(Moved(e, d), group.next - d)
    <3>1. at = Moves(group) /\ group.value.e \in Trees /\ group.value.close \in Nat
      BY <1>2, <1>3, <2>3
    <3> HIDE DEF group, at
    <3>2. /\ at.ok /\ at.value.e = Moved(group.value.e, d)
          /\ at.value.close = group.value.close - d /\ at.next = group.next - d
      BY <3>1 DEF Parsed
    <3>3. Moved(e, d) = f
      <4>1. Moved(e, d) = Regroup(Moved(group.value.e, d), i - d, group.value.close - d)
        BY <1>2, <3>1, MovedRegroup
      <4> QED
        BY <3>2, <4>1
    <3> HIDE DEF e, f, p
    <3> QED
      BY <2>2, <3>2, <3>3
  <2> HIDE DEF group, e, p
  <2>4. CASE group.ok
    <3>1. ParseBracedAtom(ts, i, inner) = Parsed(e, group.next)
      BY <2>1, <2>4
    <3> QED
      BY <2>3, <2>4, <3>1, CarriesIf, Zenon DEF p
  <2>5. CASE ~group.ok
    BY <2>1, <2>5 DEF Carries
  <2> QED
    BY <2>4, <2>5
<1> QED
  BY <1>5, <1>6, <1>7

\* _parse_atom in a piece.
LEMMA CutAtom ==
  ASSUME NEW ts, NEW us, NEW d, NEW q, IsCut(ts, us, d, q), NEW i \in d + 1 .. q,
         NEW inner \in Inner(ts), NEW within, AllCarry(inner, within, d, q)
  PROVE  Carries(ParseAtom(ts, i, inner), ParseAtom(us, i - d, within), d, q)
<1> DEFINE p == i - d
<1>1. d \in Nat /\ i \in Nat /\ us[p] = ts[i] /\ (i + 1) - d = p + 1
  <2>1. i \in d + 1 .. q + 1 /\ i <= q
    BY DEF IsCut
  <2> QED
    BY <2>1, CutTokens
<1>2. ASSUME NEW op, ParseAtom(ts, i, inner) = Parsed(Leaf(op, ts[i].lexeme, i), i + 1),
             ParseAtom(us, p, within) = Parsed(Leaf(op, us[p].lexeme, p), p + 1)
      PROVE  Carries(ParseAtom(ts, i, inner), ParseAtom(us, p, within), d, q)
  <2> DEFINE e == Leaf(op, ts[i].lexeme, i)
             next == i + 1
  <2>1. Moved(e, d) = Leaf(op, us[p].lexeme, p)
    BY <1>1, MovedLeaf
  <2>2. ParseAtom(us, p, within) = Parsed(Moved(e, d), next - d)
    BY <1>1, <1>2, <2>1
  <2>3. ParseAtom(ts, i, inner) = Parsed(e, next)
    BY <1>2
  <2> HIDE DEF e, next, p
  <2> QED
    BY <2>2, <2>3, CarriesIf, Zenon
<1>3. CASE ts[i].type = "VARIABLE"
  <2>1. ParseAtom(ts, i, inner) = Parsed(Leaf("variable", ts[i].lexeme, i), i + 1)
    BY <1>3 DEF ParseAtom
  <2>2. ParseAtom(us, p, within) = Parsed(Leaf("variable", us[p].lexeme, p), p + 1)
    BY <1>1, <1>3 DEF ParseAtom
  <2> QED
    BY <1>2, <2>1, <2>2
<1>4. CASE ts[i].type = "NUMBER"
  <2>1. ParseAtom(ts, i, inner) = Parsed(Leaf("number", ts[i].lexeme, i), i + 1)
    BY <1>4 DEF ParseAtom
  <2>2. ParseAtom(us, p, within) = Parsed(Leaf("number", us[p].lexeme, p), p + 1)
    BY <1>1, <1>4 DEF ParseAtom
  <2> QED
    BY <1>2, <2>1, <2>2
<1>5. CASE ts[i].type \in {"FRAC", "SQRT", "LBRACE"}
  <2>1. ParseAtom(ts, i, inner) = ParseBracedAtom(ts, i, inner)
        /\ ParseAtom(us, p, within) = ParseBracedAtom(us, p, within)
    BY <1>1, <1>5 DEF ParseAtom
  <2>2. Carries(ParseBracedAtom(ts, i, inner), ParseBracedAtom(us, i - d, within), d, q)
    BY <1>5, CutBracedAtom
  <2> QED
    BY <2>1, <2>2
<1>6. CASE ts[i].type \notin {"VARIABLE", "NUMBER", "FRAC", "SQRT", "LBRACE"}
  <2>1. ParseAtom(ts, i, inner) = Failed("SYN041", i)
    BY <1>6 DEF ParseAtom
  <2> QED
    BY <2>1 DEF Carries, Failed
<1> QED
  BY <1>3, <1>4, <1>5, <1>6

\* _parse_power in a piece.
LEMMA CutPower ==
  ASSUME NEW ts, NEW us, NEW d, NEW q, IsCut(ts, us, d, q), NEW i \in d + 1 .. q,
         NEW inner \in Inner(ts), NEW within, AllCarry(inner, within, d, q)
  PROVE  Carries(ParsePower(ts, i, inner), ParsePower(us, i - d, within), d, q)
<1> DEFINE p == i - d
           base == ParseAtom(ts, i, inner)
           exponent == ParseExponent(ts, base.next + 1)
           e == Binary("power", base.value, exponent.value, i, Span(exponent.value)[2])
           base2 == ParseAtom(us, p, within)
           exponent2 == ParseExponent(us, base2.next + 1)
           f == Binary("power", base2.value, exponent2.value, p, Span(exponent2.value)[2])
<1>1. ParsePower(ts, i, inner) =
        IF base.ok
        THEN IF ts[base.next].type = "POWER"
             THEN IF exponent.ok THEN Parsed(e, exponent.next) ELSE exponent
             ELSE Parsed(base.value, base.next)
        ELSE base
  BY DEF ParsePower, Then
<1>2. ParsePower(us, p, within) =
        IF base2.ok
        THEN IF us[base2.next].type = "POWER"
             THEN IF exponent2.ok THEN Parsed(f, exponent2.next) ELSE exponent2
             ELSE Parsed(base2.value, base2.next)
        ELSE base2
  BY DEF ParsePower, Then
<1>3. IsStream(ts) /\ d \in Nat /\ q \in Nat /\ i \in Nat /\ i > d /\ i \in DOMAIN ts
  <2>1. i \in d + 1 .. q + 1 /\ i > d
    BY DEF IsCut
  <2> QED
    BY <2>1, CutTokens DEF IsCut
<1>4. base.ok => /\ base.value \in Trees /\ base.next \in Nat /\ base.next > i
                 /\ base.next \in DOMAIN ts
  <2>1. base \in ParsedTrees(ts, i, 5)
    BY <1>3, AtomType
  <2> HIDE DEF base
  <2> QED
    BY <2>1, ParsedOn
<1>5. base.ok /\ base.next <= q + 1 => base2 = Parsed(Moved(base.value, d), base.next - d)
  BY CutAtom DEF Carries
<1>6. base.ok /\ ts[base.next].type = "POWER" /\ exponent.ok =>
        /\ exponent.value \in Trees /\ exponent.next \in Nat /\ exponent.next > base.next + 1
        /\ Span(exponent.value)[2] \in Nat
  <2> HAVE base.ok /\ ts[base.next].type = "POWER" /\ exponent.ok
  <2> HIDE DEF base
  <2>1. base.next + 1 \in DOMAIN ts
    BY <1>3, <1>4, TokenAfter
  <2>2. exponent \in ParsedTrees(ts, base.next + 1, 3)
    BY <1>3, <2>1, ExponentType
  <2> HIDE DEF exponent
  <2> QED
    BY <2>2, ParsedOn
<1>7. base.next + 1 \in d + 1 .. q =>
        Carries(exponent, ParseExponent(us, (base.next + 1) - d), d, q)
  BY CutExponent
<1> HIDE DEF base, base2
<1>8. ASSUME base.ok, base.next <= q + 1
      PROVE  base2.ok /\ base2.value = Moved(base.value, d) /\ base2.next = base.next - d
  BY <1>5, <1>8 DEF Parsed
<1>9. ASSUME base.ok, base.next <= q + 1
      PROVE  /\ base.next <= q => us[base.next - d] = ts[base.next]
             /\ base.next = q + 1 => us[base.next - d].type = "EOF"
  <2>1. base.next \in d + 1 .. q + 1
    BY <1>3, <1>4, <1>9
  <2> QED
    BY <2>1, CutTokens
<1>10. CASE base.ok /\ ts[base.next].type = "POWER" /\ exponent.ok
  <2>1. ParsePower(ts, i, inner) = Parsed(e, exponent.next)
    BY <1>1, <1>10
  <2>2. ASSUME exponent.next <= q + 1
        PROVE  ParsePower(us, p, within) = Parsed(Moved(e, d), exponent.next - d)
    <3>1. exponent.next \in Nat /\ exponent.next > base.next + 1 /\ exponent.value \in Trees
          /\ Span(exponent.value)[2] \in Nat
      BY <1>6, <1>10
    <3>2. base.next <= q /\ base.next <= q + 1 /\ base.next + 1 \in d + 1 .. q
          /\ (base.next + 1) - d = (base.next - d) + 1
      <4> HIDE DEF exponent
      <4> QED
        BY <1>3, <1>4, <1>10, <2>2, <3>1
    <3>3. base2.ok /\ base2.value = Moved(base.value, d) /\ base2.next = base.next - d
      BY <1>8, <1>10, <3>2
    <3>4. us[base2.next].type = "POWER"
      BY <1>9, <1>10, <3>2, <3>3
    <3>5. ParseExponent(us, (base.next + 1) - d) = exponent2
      BY <3>2, <3>3
    <3>6. exponent2 = Parsed(Moved(exponent.value, d), exponent.next - d)
      <4> HIDE DEF exponent, exponent2
      <4> QED
        BY <1>7, <1>10, <2>2, <3>2, <3>5 DEF Carries
    <3> HIDE DEF exponent, exponent2
    <3>7. /\ exponent2.ok /\ exponent2.value = Moved(exponent.value, d)
          /\ exponent2.next = exponent.next - d
      BY <3>6 DEF Parsed
    <3>8. Span(exponent2.value)[2] = Span(exponent.value)[2] - d
      BY <1>3, <3>1, <3>7, MovedSpan
    <3>9. Moved(e, d) = f
      <4>1. "power" \in Binaries /\ base.value \in Trees
        BY <1>4, <1>10 DEF Binaries
      <4>2. Moved(e, d) = Binary("power", Moved(base.value, d), Moved(exponent.value, d),
                                 i - d, Span(exponent.value)[2] - d)
        BY <1>3, <3>1, <4>1, MovedBinary
      <4> QED
        BY <3>3, <3>7, <3>8, <4>2
    <3> HIDE DEF e, f, p
    <3> QED
      BY <1>2, <3>3, <3>4, <3>7, <3>9
  <2> HIDE DEF e, exponent, p
  <2> QED
    BY <2>1, <2>2, CarriesIf, Zenon DEF p
<1>11. CASE base.ok /\ ts[base.next].type # "POWER"
  <2>1. ParsePower(ts, i, inner) = Parsed(base.value, base.next)
    BY <1>1, <1>11
  <2>2. ASSUME base.next <= q + 1
        PROVE  ParsePower(us, p, within) = Parsed(Moved(base.value, d), base.next - d)
    <3>1. base2.ok /\ base2.value = Moved(base.value, d) /\ base2.next = base.next - d
      BY <1>8, <1>11, <2>2
    <3>2. base.next <= q \/ base.next = q + 1
      BY <1>3, <1>4, <1>11, <2>2
    <3>3. us[base2.next].type # "POWER"
      BY <1>9, <1>11, <2>2, <3>1, <3>2
    <3> HIDE DEF exponent2, f, p
    <3> QED
      BY <1>2, <3>1, <3>3
  <2> HIDE DEF p
  <2> QED
    BY <2>1, <2>2, CarriesIf, Zenon DEF p
<1>12. CASE ~base.ok \/ (ts[base.next].type = "POWER" /\ ~exponent.ok)
  <2> HIDE DEF exponent, e
  <2> QED
    BY <1>1, <1>12 DEF Carries
<1> QED
  BY <1>10, <1>11, <1>12

\* _parse_unary in a piece.
LEMMA CutUnary ==
  ASSUME NEW ts, NEW us, NEW d, NEW q, IsCut(ts, us, d, q), NEW i \in d + 1 .. q,
         NEW inner \in Inner(ts), NEW within, AllCarry(inner, within, d, q)
  PROVE  Carries(ParseUnary(ts, i, inner), ParseUnary(us, i - d, within), d, q)
<1> DEFINE p == i - d
<1>1. /\ IsStream(ts) /\ d \in Nat /\ q \in Nat /\ i \in Nat /\ i > d /\ i \in DOMAIN ts
      /\ us[p] = ts[i] /\ (i + 1) - d = p + 1
  <2>1. i \in d + 1 .. q + 1 /\ i > d /\ i <= q
    BY DEF IsCut
  <2>2. IsStream(ts)
    BY DEF IsCut
  <2> QED
    BY <2>1, <2>2, CutTokens
<1>2. CASE ts[i].type \in {"PLUS", "MINUS"}
  <2> DEFINE operand == ParsePower(ts, i + 1, inner)
             e == Unary(SignOf(ts[i]), operand.value, i, Span(operand.value)[2])
             operand2 == ParsePower(us, p + 1, within)
             f == Unary(SignOf(us[p]), operand2.value, p, Span(operand2.value)[2])
  <2>1. ParseUnary(ts, i, inner) = IF operand.ok THEN Parsed(e, operand.next) ELSE operand
    BY <1>2 DEF ParseUnary, Then
  <2>2. ParseUnary(us, p, within) = IF operand2.ok THEN Parsed(f, operand2.next) ELSE operand2
    BY <1>1, <1>2 DEF ParseUnary, Then
  <2>3. operand.ok => /\ operand.value \in Trees /\ operand.next \in Nat /\ operand.next > i + 1
                      /\ Span(operand.value)[2] \in Nat
    <3>1. i + 1 \in DOMAIN ts
      BY <1>1, <1>2, TokenAfter
    <3>2. operand \in ParsedTrees(ts, i + 1, 4)
      BY <1>1, <3>1, PowerType
    <3> HIDE DEF operand
    <3> QED
      BY <3>2, ParsedOn
  <2>4. i + 1 \in d + 1 .. q => Carries(operand, ParsePower(us, (i + 1) - d, within), d, q)
    BY CutPower
  <2>5. ASSUME operand.ok, operand.next <= q + 1
        PROVE  ParseUnary(us, p, within) = Parsed(Moved(e, d), operand.next - d)
    <3>1. i + 1 \in d + 1 .. q
      <4> HIDE DEF operand
      <4> QED
        BY <1>1, <2>3, <2>5
    <3>2. operand2 = Parsed(Moved(operand.value, d), operand.next - d)
      <4>1. operand2 = ParsePower(us, (i + 1) - d, within)
        BY <1>1
      <4> HIDE DEF operand, operand2
      <4> QED
        BY <2>4, <2>5, <3>1, <4>1 DEF Carries
    <3> HIDE DEF operand, operand2
    <3>3. /\ operand2.ok /\ operand2.value = Moved(operand.value, d)
          /\ operand2.next = operand.next - d
      BY <3>2 DEF Parsed
    <3>4. Span(operand2.value)[2] = Span(operand.value)[2] - d
      BY <1>1, <2>3, <2>5, <3>3, MovedSpan
    <3>5. Moved(e, d) = f
      <4>1. SignOf(ts[i]) \in Unaries \cup {"sqrt"} /\ operand.value \in Trees
            /\ Span(operand.value)[2] \in Nat
        BY <2>3, <2>5 DEF SignOf, Unaries
      <4>2. Moved(e, d) = Unary(SignOf(ts[i]), Moved(operand.value, d),
                                i - d, Span(operand.value)[2] - d)
        <5> DEFINE op == SignOf(ts[i])
        <5>1. i \in Nat /\ d \in Nat /\ op \in Unaries \cup {"sqrt"} /\ operand.value \in Trees
              /\ Span(operand.value)[2] \in Nat
          BY <1>1, <4>1
        <5> HIDE DEF op
        <5> QED
          BY <5>1, MovedUnary DEF op
      <4> QED
        BY <1>1, <3>3, <3>4, <4>2
    <3> HIDE DEF e, f, p
    <3> QED
      BY <2>2, <3>3, <3>5
  <2> HIDE DEF operand, e, p
  <2>6. CASE operand.ok
    <3>1. ParseUnary(ts, i, inner) = Parsed(e, operand.next)
      BY <2>1, <2>6
    <3> QED
      BY <2>5, <2>6, <3>1, CarriesIf, Zenon DEF p
  <2>7. CASE ~operand.ok
    BY <2>1, <2>7 DEF Carries
  <2> QED
    BY <2>6, <2>7
<1>3. CASE ts[i].type \notin {"PLUS", "MINUS"}
  <2>1. ParseUnary(ts, i, inner) = ParsePower(ts, i, inner)
        /\ ParseUnary(us, p, within) = ParsePower(us, p, within)
    BY <1>1, <1>3 DEF ParseUnary
  <2> QED
    BY <2>1, CutPower
<1> QED
  BY <1>2, <1>3

\* The states of a loop over trees of which each round takes a token or more.
Rounds(after, ts, i, level, result, types, round) ==
  LET V == ParsedTrees(ts, i, level) IN
  /\ result \in V /\ round \in [V -> V]
  /\ \A r \in V : GoesOn(ts, types, r) /\ round[r].ok => round[r].next > r.next
  /\ after \in [0 .. Len(ts) -> V] /\ Loop(after, ts, result, types, round)

\* One round more.
LEMMA RoundAfter ==
  ASSUME NEW ts, NEW i, NEW level, NEW result, NEW types, NEW round, NEW after,
         Rounds(after, ts, i, level, result, types, round), Len(ts) \in Nat
  PROVE  /\ after[0] = result
         /\ \A n \in 0 .. Len(ts) : after[n] \in ParsedTrees(ts, i, level)
         /\ \A n \in 1 .. Len(ts) :
              /\ n - 1 \in 0 .. Len(ts) /\ after[n - 1] \in ParsedTrees(ts, i, level)
              /\ GoesOn(ts, types, after[n - 1]) => after[n] = round[after[n - 1]]
              /\ ~GoesOn(ts, types, after[n - 1]) => after[n] = after[n - 1]
<1> DEFINE N == Len(ts)
           V == ParsedTrees(ts, i, level)
<1>1. N \in Nat /\ after \in [0 .. N -> V] /\ Loop(after, ts, result, types, round)
  BY DEF Rounds
<1>2. \A n \in 0 .. N :
        after[n] = IF n = 0 THEN result
                   ELSE IF GoesOn(ts, types, after[n - 1]) THEN round[after[n - 1]] ELSE after[n - 1]
  BY <1>1 DEF Loop
<1> HIDE DEF N, V
<1>3. 0 \in 0 .. N /\ \A n \in 1 .. N : n \in 0 .. N /\ n # 0 /\ n - 1 \in 0 .. N
  BY <1>1
<1>4. after[0] = result
  BY <1>2, <1>3
<1>5. \A n \in 0 .. N : after[n] \in V
  BY <1>1
<1>6. \A n \in 1 .. N :
        /\ GoesOn(ts, types, after[n - 1]) => after[n] = round[after[n - 1]]
        /\ ~GoesOn(ts, types, after[n - 1]) => after[n] = after[n - 1]
  BY <1>2, <1>3
<1> QED
  BY <1>3, <1>4, <1>5, <1>6 DEF N, V

\* A loop ends before there are no more rounds, and then stays as it is.
LEMMA RoundsEnd ==
  ASSUME NEW ts, IsStream(ts), NEW i, NEW level, NEW result, NEW types, NEW round, NEW after,
         Rounds(after, ts, i, level, result, types, round)
  PROVE  /\ ~GoesOn(ts, types, after[Len(ts)])
         /\ \A m \in 0 .. Len(ts) :
              ~GoesOn(ts, types, after[m]) => after[Len(ts)] = after[m]
<1> DEFINE N == Len(ts)
           V == ParsedTrees(ts, i, level)
           goesOn(r) == GoesOn(ts, types, r)
<1>1. N \in Nat /\ DOMAIN ts = 1 .. N
  BY DEF IsStream
<1>2. /\ \A n \in 0 .. N : after[n] \in V
      /\ \A n \in 1 .. N :
           /\ n - 1 \in 0 .. N /\ after[n - 1] \in V
           /\ goesOn(after[n - 1]) => after[n] = round[after[n - 1]]
           /\ ~goesOn(after[n - 1]) => after[n] = after[n - 1]
  BY <1>1, RoundAfter
<1>3. \A r \in V : goesOn(r) => /\ r.ok /\ r.next \in Nat /\ r.next > 0 /\ r.next <= N
                                /\ round[r].ok => round[r].next > r.next
  <2> SUFFICES ASSUME NEW r \in V, goesOn(r)
               PROVE  /\ r.ok /\ r.next \in Nat /\ r.next > 0 /\ r.next <= N
                      /\ round[r].ok => round[r].next > r.next
    OBVIOUS
  <2>1. r.ok /\ (round[r].ok => round[r].next > r.next)
    BY DEF GoesOn, Rounds
  <2>2. r.next \in DOMAIN ts
    BY <2>1, ParsedOn
  <2> QED
    BY <1>1, <2>1, <2>2
<1>4. \A r \in V : goesOn(r) => r.ok
  BY <1>3
<1> HIDE DEF N, V, goesOn
<1>5. \A n \in 0 .. N : goesOn(after[n]) => after[n].next >= n + 1
  <2> DEFINE H == {n \in 0 .. N : goesOn(after[n]) => after[n].next >= n + 1}
  <2>1. ASSUME NEW n \in 0 .. N, \A j \in 0 .. n - 1 : j \in H PROVE n \in H
    <3> SUFFICES ASSUME goesOn(after[n]) PROVE after[n].next >= n + 1
      OBVIOUS
    <3>1. CASE n = 0
      BY <1>2, <1>3, <3>1
    <3>2. CASE n # 0
      <4>1. n \in 1 .. N /\ n - 1 \in 0 .. n - 1
        BY <1>1, <3>2
      <4>2. goesOn(after[n - 1]) /\ after[n] = round[after[n - 1]] /\ after[n - 1] \in V
        BY <1>2, <4>1
      <4>3. after[n - 1].next >= n - 1 + 1
        BY <2>1, <4>1, <4>2
      <4>4. after[n].ok /\ after[n].next \in Nat /\ after[n - 1].next \in Nat
            /\ after[n].next > after[n - 1].next
        BY <1>2, <1>3, <4>2
      <4> QED
        BY <1>1, <4>3, <4>4
    <3> QED
      BY <3>1, <3>2
  <2>2. \A n \in 0 .. N : (\A j \in 0 .. n - 1 : j \in H) => n \in H
    BY <2>1
  <2> HIDE DEF H
  <2>3. \A n \in 0 .. N : n \in H
    BY <1>1, <2>2, SmallerFirst
  <2> QED
    BY <2>3 DEF H
<1>6. ~goesOn(after[N])
  <2> SUFFICES ASSUME goesOn(after[N]) PROVE FALSE
    OBVIOUS
  <2>1. N \in 0 .. N
    BY <1>1
  <2>2. after[N].next >= N + 1 /\ after[N].next \in Nat /\ after[N].next <= N
    BY <1>2, <1>3, <1>5, <2>1
  <2> QED
    BY <1>1, <2>2
<1>7. ASSUME NEW m \in 0 .. N, ~goesOn(after[m]) PROVE after[N] = after[m]
  <2> DEFINE H == {n \in 0 .. N : n >= m => after[n] = after[m]}
  <2>1. ASSUME NEW n \in 0 .. N, \A j \in 0 .. n - 1 : j \in H PROVE n \in H
    <3> SUFFICES ASSUME n >= m, n # m PROVE after[n] = after[m]
      OBVIOUS
    <3>1. n \in 1 .. N /\ n - 1 \in 0 .. n - 1 /\ n - 1 >= m
      BY <1>1
    <3>2. after[n - 1] = after[m]
      BY <2>1, <3>1
    <3> QED
      BY <1>2, <1>7, <3>1, <3>2
  <2>2. \A n \in 0 .. N : (\A j \in 0 .. n - 1 : j \in H) => n \in H
    BY <2>1
  <2> HIDE DEF H
  <2>3. \A n \in 0 .. N : n \in H
    BY <1>1, <2>2, SmallerFirst
  <2>4. N \in 0 .. N /\ N >= m
    BY <1>1
  <2> QED
    BY <2>3, <2>4 DEF H
<1> QED
  BY <1>6, <1>7 DEF N, goesOn

\* What a loop has done when it ends.
LEMMA RoundsResult ==
  ASSUME NEW ts, IsStream(ts), NEW i, NEW level, NEW result, NEW types, NEW round, NEW after,
         Rounds(after, ts, i, level, result, types, round)
  PROVE  after[CHOOSE n \in 0 .. Len(ts) : n = Len(ts) \/ ~GoesOn(ts, types, after[n])]
           = after[Len(ts)]
<1> DEFINE N == Len(ts)
           last == CHOOSE n \in 0 .. N : n = N \/ ~GoesOn(ts, types, after[n])
<1>1. N \in 0 .. N
  BY DEF IsStream
<1>2. last \in 0 .. N /\ (last = N \/ ~GoesOn(ts, types, after[last]))
  BY <1>1
<1> HIDE DEF last
<1>3. after[last] = after[N]
  BY <1>2, RoundsEnd
<1> QED
  BY <1>3 DEF last

\* A loop in a piece, from its start to where it is done or the piece ends.
LEMMA CutRounds ==
  ASSUME NEW ts, NEW us, NEW d, NEW q, IsCut(ts, us, d, q), NEW i \in d + 1 .. q, NEW level,
         NEW types, "EOF" \notin types,
         NEW result, NEW round, NEW after, Rounds(after, ts, i, level, result, types, round),
         NEW result2, NEW round2, NEW below,
         Rounds(below, us, i - d, level, result2, types, round2),
         Carries(result, result2, d, q),
         \A r \in ParsedTrees(ts, i, level) : \A s \in ParsedTrees(us, i - d, level) :
           /\ GoesOn(ts, types, r) /\ r.next <= q /\ s = Parsed(Moved(r.value, d), r.next - d)
           /\ GoesOn(us, types, s)
           => Carries(round[r], round2[s], d, q),
         NEW n \in 0 .. Len(ts), after[n].ok, after[n].next <= q + 1,
         after[n].next = q + 1 \/ ts[after[n].next].type \notin types
  PROVE  below[Len(us)] = Parsed(Moved(after[n].value, d), after[n].next - d)
<1> DEFINE N == Len(ts)
           M == Len(us)
           p == i - d
           V == ParsedTrees(ts, i, level)
           W == ParsedTrees(us, p, level)
           goesOn(r) == GoesOn(ts, types, r)
           moved(r) == Parsed(Moved(r.value, d), r.next - d)
           meets(k) == after[k].ok /\ after[k].next <= q + 1 =>
                         \E m \in 0 .. M : m <= after[k].next - (i + 1) /\ below[m] = moved(after[k])
<1>1. /\ IsStream(ts) /\ IsStream(us) /\ d \in Nat /\ q \in Nat /\ i \in Nat /\ i > d /\ i <= q
      /\ N \in Nat /\ M \in Nat /\ M = q - d + 1
  BY DEF IsCut, IsStream
<1>2. /\ after[0] = result
      /\ \A k \in 0 .. N : after[k] \in V
      /\ \A k \in 1 .. N :
           /\ k - 1 \in 0 .. N /\ after[k - 1] \in V
           /\ goesOn(after[k - 1]) => after[k] = round[after[k - 1]]
           /\ ~goesOn(after[k - 1]) => after[k] = after[k - 1]
  BY <1>1, RoundAfter
<1>3. /\ below[0] = result2
      /\ \A k \in 0 .. M : below[k] \in W
      /\ \A k \in 1 .. M : GoesOn(us, types, below[k - 1]) => below[k] = round2[below[k - 1]]
  BY <1>1, RoundAfter
<1>4. \A r \in V : r.ok => r.next \in Nat /\ r.next > i
  BY ParsedOn
<1>5. \A r \in V : goesOn(r) => r.ok /\ (round[r].ok => round[r].next > r.next)
  BY DEF GoesOn, Rounds
<1>6. \A r : moved(r).ok /\ moved(r).next = r.next - d
  BY DEF Parsed
<1>7. \A j \in d + 1 .. q + 1 :
        /\ j <= q => us[j - d] = ts[j]
        /\ j = q + 1 => us[j - d].type = "EOF"
  BY CutTokens
<1>8. \A r \in V : r.ok /\ r.next <= q + 1 =>
        r.next \in d + 1 .. q + 1 /\ (r.next <= q \/ r.next = q + 1)
  <2> SUFFICES ASSUME NEW r \in V, r.ok, r.next <= q + 1
               PROVE  r.next \in d + 1 .. q + 1 /\ (r.next <= q \/ r.next = q + 1)
    OBVIOUS
  <2>1. r.next \in Nat /\ r.next > i
    BY <1>4
  <2> HIDE DEF V
  <2> QED
    BY <1>1, <2>1
<1>9. \A r \in V : r.ok /\ r.next <= q + 1 =>
        (GoesOn(us, types, moved(r)) <=> goesOn(r) /\ r.next <= q)
  <2> SUFFICES ASSUME NEW r \in V, r.ok, r.next <= q + 1
               PROVE  GoesOn(us, types, moved(r)) <=> goesOn(r) /\ r.next <= q
    OBVIOUS
  <2>1. GoesOn(us, types, moved(r)) <=> us[r.next - d].type \in types
    BY <1>6 DEF GoesOn
  <2>2. goesOn(r) <=> ts[r.next].type \in types
    BY DEF GoesOn
  <2>3. r.next \in d + 1 .. q + 1 /\ (r.next <= q \/ r.next = q + 1)
    BY <1>8
  <2>4. CASE r.next <= q
    <3> DEFINE at == r.next
    <3>1. at \in d + 1 .. q + 1 /\ at <= q
      BY <2>3, <2>4
    <3> HIDE DEF at
    <3>2. us[at - d] = ts[at]
      BY <1>7, <3>1
    <3> QED
      BY <2>1, <2>2, <2>4, <3>2 DEF at
  <2>5. CASE r.next = q + 1
    <3>1. us[r.next - d].type = "EOF" /\ ~(r.next <= q)
      BY <1>1, <1>7, <2>3, <2>5
    <3> QED
      BY <2>1, <3>1
  <2> QED
    BY <2>3, <2>4, <2>5
<1>10. \A r \in V : \A s \in W :
         goesOn(r) /\ r.next <= q /\ s = moved(r) /\ GoesOn(us, types, s)
           => Carries(round[r], round2[s], d, q)
  OBVIOUS
<1> HIDE DEF N, M, V, W, goesOn, moved
<1>11. ASSUME NEW k \in 0 .. N, \A j \in 0 .. k - 1 : meets(j) PROVE meets(k)
  <2> SUFFICES ASSUME after[k].ok, after[k].next <= q + 1
               PROVE  \E m \in 0 .. M : m <= after[k].next - (i + 1) /\ below[m] = moved(after[k])
    OBVIOUS
  <2>1. after[k] \in V /\ after[k].next \in Nat /\ after[k].next > i
    BY <1>2, <1>4
  <2>2. CASE k = 0
    <3>1. Carries(after[0], below[0], d, q)
      BY <1>2, <1>3
    <3>2. below[0] = moved(after[0])
      BY <2>2, <3>1 DEF Carries, moved
    <3>3. 0 \in 0 .. M /\ 0 <= after[k].next - (i + 1)
      BY <1>1, <2>1
    <3> QED
      BY <2>2, <3>2, <3>3
  <2>3. CASE k # 0
    <3>1. k \in 1 .. N /\ k - 1 \in 0 .. k - 1
      BY <1>1, <2>3
    <3>2. meets(k - 1)
      BY <1>11, <3>1
    <3> DEFINE r == after[k - 1]
    <3>3. r \in V
      BY <1>2, <3>1
    <3>4. CASE ~goesOn(r)
      <4>1. after[k] = r
        BY <1>2, <3>1, <3>4
      <4> QED
        BY <2>1, <3>2, <4>1
    <3>5. CASE goesOn(r)
      <4>1. after[k] = round[r]
        BY <1>2, <3>1, <3>5
      <4>2. r.ok /\ after[k].next > r.next /\ r.next \in Nat
        BY <1>4, <1>5, <3>3, <3>5, <4>1
      <4>3. r.next <= q /\ r.next <= q + 1
        BY <1>1, <2>1, <4>2
      <4>4. PICK m \in 0 .. M : m <= r.next - (i + 1) /\ below[m] = moved(r)
        BY <3>2, <4>2, <4>3
      <4>5. below[m] \in W /\ GoesOn(us, types, below[m])
        BY <1>3, <1>9, <3>3, <3>5, <4>2, <4>3, <4>4
      <4>6. Carries(round[r], round2[below[m]], d, q)
        BY <1>10, <3>3, <3>5, <4>3, <4>4, <4>5
      <4>7. m + 1 \in 1 .. M /\ m + 1 \in 0 .. M /\ m + 1 - 1 = m
            /\ m + 1 <= after[k].next - (i + 1)
        <5> DEFINE x == r.next
                   y == after[k].next
        <5>1. x \in Nat /\ y \in Nat /\ y > x /\ x <= q /\ m \in Nat /\ m <= x - (i + 1)
          BY <1>1, <2>1, <4>2, <4>3, <4>4
        <5> HIDE DEF x, y
        <5> QED
          BY <1>1, <5>1 DEF y
      <4>8. below[m + 1] = round2[below[m]]
        BY <1>3, <4>5, <4>7
      <4>9. below[m + 1] = moved(after[k])
        BY <4>1, <4>6, <4>8 DEF Carries, moved
      <4> QED
        BY <4>7, <4>9
    <3> QED
      BY <3>4, <3>5
  <2> QED
    BY <2>2, <2>3
<1>12. \A k \in 0 .. N : meets(k)
  <2> DEFINE H == {k \in 0 .. N : meets(k)}
  <2> HIDE DEF meets
  <2>1. ASSUME NEW k \in 0 .. N, \A j \in 0 .. k - 1 : j \in H PROVE k \in H
    BY <1>11, <2>1
  <2>2. \A k \in 0 .. N : (\A j \in 0 .. k - 1 : j \in H) => k \in H
    BY <2>1
  <2> HIDE DEF H
  <2>3. \A k \in 0 .. N : k \in H
    BY <1>1, <2>2, SmallerFirst
  <2> QED
    BY <2>3 DEF H
<1>13. n \in 0 .. N /\ after[n] \in V
  BY <1>2 DEF N
<1>14. PICK m \in 0 .. M : below[m] = moved(after[n])
  BY <1>12, <1>13
<1>15. ~GoesOn(us, types, below[m])
  <2>1. after[n].next = q + 1 => ~(after[n].next <= q)
    BY <1>1
  <2>2. ~(goesOn(after[n]) /\ after[n].next <= q)
    BY <2>1 DEF goesOn, GoesOn
  <2> QED
    BY <1>9, <1>13, <1>14, <2>2
<1>16. below[M] = below[m]
  BY <1>1, <1>15, RoundsEnd DEF M
<1> QED
  BY <1>14, <1>16 DEF M, moved

\* One round of the loop of _parse_product in a piece.
LEMMA CutFactor ==
  ASSUME NEW ts, NEW us, NEW d, NEW q, IsCut(ts, us, d, q), NEW j \in d + 1 .. q,
         NEW left \in Trees, NEW inner \in Inner(ts), NEW within, AllCarry(inner, within, d, q),
         ts[j].type \in FactorTypes
  PROVE  /\ NextFactor(ts, left, j, inner).ok =>
              NextFactor(ts, left, j, inner).next \in Nat /\ NextFactor(ts, left, j, inner).next > j
         /\ Carries(NextFactor(ts, left, j, inner), NextFactor(us, Moved(left, d), j - d, within), d, q)
<1> DEFINE p == j - d
           explicit == ts[j].type \in {"MULT", "DIV"}
           op == IF explicit THEN ProductOf(ts[j].type) ELSE "juxt"
           right == IF explicit THEN ParseUnary(ts, j + 1, inner) ELSE ParsePower(ts, j, inner)
           right2 == IF explicit THEN ParseUnary(us, p + 1, within) ELSE ParsePower(us, p, within)
           e == Joined(op, left, right.value)
           f == Joined(op, Moved(left, d), right2.value)
<1>1. /\ IsStream(ts) /\ d \in Nat /\ q \in Nat /\ j \in Nat /\ j > d /\ j \in DOMAIN ts
      /\ us[p] = ts[j] /\ (j + 1) - d = p + 1
  <2>1. j \in d + 1 .. q + 1 /\ j > d /\ j <= q
    BY DEF IsCut
  <2>2. IsStream(ts)
    BY DEF IsCut
  <2> QED
    BY <2>1, <2>2, CutTokens
<1>2. NextFactor(ts, left, j, inner) = IF right.ok THEN Parsed(e, right.next) ELSE right
  BY DEF NextFactor, Then
<1>3. NextFactor(us, Moved(left, d), p, within)
        = IF right2.ok THEN Parsed(f, right2.next) ELSE right2
  BY <1>1 DEF NextFactor, Then
<1>4. op \in Binaries
  BY DEF ProductOf, Binaries, Products
<1>5. /\ right.ok => right.value \in Trees /\ right.next \in Nat /\ right.next > j
      /\ right.ok /\ right.next <= q + 1 =>
           right2 = Parsed(Moved(right.value, d), right.next - d)
  <2>1. CASE explicit
    <3> DEFINE r == ParseUnary(ts, j + 1, inner)
    <3>1. j + 1 \in DOMAIN ts
      BY <1>1, <2>1, TokenAfter
    <3>2. r \in ParsedTrees(ts, j + 1, 3)
      BY <1>1, <3>1, UnaryType
    <3>3. right = r /\ right2 = ParseUnary(us, (j + 1) - d, within)
      BY <1>1, <2>1
    <3>4. j + 1 \in d + 1 .. q => Carries(r, ParseUnary(us, (j + 1) - d, within), d, q)
      BY CutUnary
    <3> HIDE DEF r, right, right2
    <3>5. r.ok => r.value \in Trees /\ r.next \in Nat /\ r.next > j + 1
      BY <3>2, ParsedOn
    <3>6. r.ok /\ r.next <= q + 1 => j + 1 \in d + 1 .. q
      BY <1>1, <3>5
    <3>7. r.ok => r.next > j
      BY <1>1, <3>5
    <3> QED
      BY <3>3, <3>4, <3>5, <3>6, <3>7 DEF Carries
  <2>2. CASE ~explicit
    <3> DEFINE r == ParsePower(ts, j, inner)
    <3>1. r \in ParsedTrees(ts, j, 4)
      BY <1>1, PowerType
    <3>2. right = r /\ right2 = ParsePower(us, p, within)
      BY <2>2
    <3>3. Carries(r, ParsePower(us, p, within), d, q)
      BY CutPower
    <3> HIDE DEF r, right, right2
    <3>4. r.ok => r.value \in Trees /\ r.next \in Nat /\ r.next > j
      BY <3>1, ParsedOn
    <3> QED
      BY <3>2, <3>3, <3>4 DEF Carries
  <2> QED
    BY <2>1, <2>2
<1> HIDE DEF op, right, right2, explicit
<1>6. CASE right.ok
  <2>1. NextFactor(ts, left, j, inner) = Parsed(e, right.next)
    BY <1>2, <1>6
  <2>2. ASSUME right.next <= q + 1
        PROVE  NextFactor(us, Moved(left, d), p, within) = Parsed(Moved(e, d), right.next - d)
    <3>1. right2.ok /\ right2.value = Moved(right.value, d) /\ right2.next = right.next - d
      BY <1>5, <1>6, <2>2 DEF Parsed
    <3>2. Moved(e, d) = f
      BY <1>1, <1>4, <1>5, <1>6, <3>1, MovedJoint
    <3> HIDE DEF e, f, p
    <3> QED
      BY <1>3, <3>1, <3>2
  <2> HIDE DEF e, p
  <2>3. Carries(NextFactor(ts, left, j, inner), NextFactor(us, Moved(left, d), p, within), d, q)
    BY <2>1, <2>2, CarriesIf, Zenon
  <2>4. NextFactor(ts, left, j, inner).next = right.next
    BY <2>1 DEF Parsed
  <2> QED
    BY <1>5, <1>6, <2>3, <2>4 DEF p
<1>7. CASE ~right.ok
  BY <1>2, <1>7 DEF Carries
<1> QED
  BY <1>6, <1>7

\* Rounds of a loop over any stream are rounds of one over its trees.
LEMMA RoundsAre ==
  ASSUME NEW ts, IsStream(ts), NEW i, NEW level, NEW types,
         NEW result \in ParsedTrees(ts, i, level),
         NEW round \in [ParsedTrees(ts, i, level) -> ParsedTrees(ts, i, level)],
         \A r \in ParsedTrees(ts, i, level) :
           GoesOn(ts, types, r) /\ round[r].ok => round[r].next > r.next,
         NEW after, Loop(after, ts, result, types, round)
  PROVE  Rounds(after, ts, i, level, result, types, round)
<1> DEFINE N == Len(ts)
           V == ParsedTrees(ts, i, level)
           value(n) == IF n = 0 THEN result
                       ELSE IF GoesOn(ts, types, after[n - 1]) THEN round[after[n - 1]]
                       ELSE after[n - 1]
<1>1. N \in Nat /\ after = [n \in 0 .. N |-> value(n)]
  BY DEF IsStream, Loop
<1> HIDE DEF N, V
<1>2. Keeps(after, N, V)
  <2> SUFFICES ASSUME NEW n \in 0 .. N, n # 0 => after[n - 1] \in V PROVE after[n] \in V
    BY DEF Keeps
  <2>1. after[n] = value(n)
    BY <1>1
  <2>2. result \in V /\ round \in [V -> V]
    BY DEF V
  <2> QED
    BY <2>1, <2>2
<1> HIDE DEF value
<1>3. \A n \in 0 .. N : after[n] \in V
  BY <1>1, <1>2, LoopStays
<1>4. after \in [0 .. N -> V]
  BY <1>1, <1>3
<1> QED
  BY <1>4 DEF Rounds, N, V

\* The rounds of the loop of _parse_product.
FactorRound(ts, i, inner) ==
  [r \in ParsedTrees(ts, i, 2) |->
     IF GoesOn(ts, FactorTypes, r) THEN NextFactor(ts, r.value, r.next, inner) ELSE r]

\* A factor more is a token more at least.
LEMMA FactorRounds ==
  ASSUME NEW ts, IsStream(ts), NEW i, NEW inner \in Inner(ts)
  PROVE  /\ FactorRound(ts, i, inner) \in [ParsedTrees(ts, i, 2) -> ParsedTrees(ts, i, 2)]
         /\ \A r \in ParsedTrees(ts, i, 2) : GoesOn(ts, FactorTypes, r) =>
              /\ FactorRound(ts, i, inner)[r] = NextFactor(ts, r.value, r.next, inner)
              /\ FactorRound(ts, i, inner)[r].ok => FactorRound(ts, i, inner)[r].next > r.next
<1> DEFINE V == ParsedTrees(ts, i, 2)
           goesOn(r) == GoesOn(ts, FactorTypes, r)
           factor(r) == NextFactor(ts, r.value, r.next, inner)
<1>1. ASSUME NEW r \in V, goesOn(r) PROVE factor(r) \in V
  <2>1. r.value \in Trees /\ r.next \in DOMAIN ts /\ Stands(ts, r.value, i, r.next, 2)
        /\ ts[r.next].type \in FactorTypes
    BY <1>1, TreeCases DEF GoesOn
  <2> QED
    BY <2>1, FactorType
<1>2. ASSUME NEW r \in V, goesOn(r), factor(r).ok PROVE factor(r).next > r.next
  <2> DEFINE j == r.next
             explicit == ts[j].type \in {"MULT", "DIV"}
             m == IF explicit THEN j + 1 ELSE j
             right == IF explicit THEN ParseUnary(ts, m, inner) ELSE ParsePower(ts, m, inner)
  <2>1. /\ factor(r).ok => right.ok
        /\ right.ok => factor(r).next = right.next
    BY DEF NextFactor, Then, Parsed
  <2>2. j \in DOMAIN ts /\ j \in Nat
    BY <1>2, ParsedOn DEF GoesOn
  <2>3. m \in DOMAIN ts /\ m >= j
    BY <2>2, TokenAfter
  <2>4. right \in ParsedTrees(ts, m, 3) \/ right \in ParsedTrees(ts, m, 4)
    BY <2>3, UnaryType, PowerType
  <2> HIDE DEF right, m
  <2>5. right.ok
    BY <1>2, <2>1
  <2>6. right.next > m /\ right.next \in Nat /\ m \in Nat
    BY <2>4, <2>5, ParsedOn
  <2> HIDE DEF j
  <2>7. right.next > j
    BY <2>2, <2>3, <2>6
  <2> QED
    BY <2>1, <2>5, <2>7 DEF j
<1> HIDE DEF V, goesOn, factor
<1> DEFINE round == [r \in V |-> IF goesOn(r) THEN factor(r) ELSE r]
<1>3. round \in [V -> V]
  BY <1>1
<1>4. \A r \in V : goesOn(r) => round[r] = factor(r)
  OBVIOUS
<1>5. round = FactorRound(ts, i, inner)
  BY DEF FactorRound, V, goesOn, factor
<1> HIDE DEF round
<1>6. \A r \in V : goesOn(r) => round[r] = factor(r) /\ (round[r].ok => round[r].next > r.next)
  BY <1>2, <1>4
<1> QED
  BY <1>3, <1>5, <1>6 DEF V, goesOn, factor

\* _parse_product, round by round.
LEMMA ProductRounds ==
  ASSUME NEW ts, IsStream(ts), NEW i \in DOMAIN ts, NEW inner \in Inner(ts)
  PROVE  \E after :
           /\ Rounds(after, ts, i, 2, ParseUnary(ts, i, inner), FactorTypes, FactorRound(ts, i, inner))
           /\ ParseProduct(ts, i, inner) = after[Len(ts)]
<1> DEFINE V == ParsedTrees(ts, i, 2)
           N == Len(ts)
           goesOn(r) == GoesOn(ts, FactorTypes, r)
           result == ParseUnary(ts, i, inner)
           round == FactorRound(ts, i, inner)
           Round(left, j) == NextFactor(ts, left, j, inner)
           Body(a) == [n \in 0 .. N |->
                         IF n = 0 THEN result
                         ELSE IF goesOn(a[n - 1])
                         THEN Round(a[n - 1].value, a[n - 1].next) ELSE a[n - 1]]
           after == CHOOSE a : a = Body(a)
<1>1. ParseProduct(ts, i, inner) = after[CHOOSE n \in 0 .. N : n = N \/ ~goesOn(after[n])]
  BY DEF ParseProduct, While, Then, GoesOn, FactorTypes
<1>2. N \in Nat
  BY DEF IsStream
<1>3. result \in V
  BY UnaryType, TreeLower
<1>4. /\ round \in [V -> V]
      /\ \A r \in V : goesOn(r) =>
           round[r] = Round(r.value, r.next) /\ (round[r].ok => round[r].next > r.next)
  BY FactorRounds
<1> HIDE DEF V, N, goesOn, result, round, Round
<1>5. PICK f \in [0 .. N -> V] : Loop(f, ts, result, FactorTypes, round)
  BY <1>3, <1>4, LoopExists DEF N
<1>6. /\ \A n \in 0 .. N : n # 0 => f[n - 1] \in V
      /\ f = [n \in 0 .. N |-> IF n = 0 THEN result
                               ELSE IF goesOn(f[n - 1]) THEN round[f[n - 1]] ELSE f[n - 1]]
  <2>1. \A n \in 0 .. N : n # 0 => n - 1 \in 0 .. N
    BY <1>2
  <2>2. \A n \in 0 .. N : n # 0 => f[n - 1] \in V
    BY <1>5, <2>1
  <2>3. f = [n \in 0 .. N |-> IF n = 0 THEN result
                              ELSE IF goesOn(f[n - 1]) THEN round[f[n - 1]] ELSE f[n - 1]]
    BY <1>5 DEF Loop, N, goesOn
  <2> QED
    BY <2>2, <2>3
<1>7. f = Body(f)
  BY <1>4, <1>6
<1>8. after = Body(after)
  <2> HIDE DEF Body
  <2> QED
    BY <1>7
<1> HIDE DEF after
<1>9. Keeps(after, N, V)
  <2> SUFFICES ASSUME NEW n \in 0 .. N, n # 0 => after[n - 1] \in V PROVE after[n] \in V
    BY DEF Keeps
  <2>1. after[n] = IF n = 0 THEN result
                   ELSE IF goesOn(after[n - 1])
                   THEN Round(after[n - 1].value, after[n - 1].next) ELSE after[n - 1]
    BY <1>8
  <2>2. n # 0 /\ goesOn(after[n - 1]) => round[after[n - 1]] \in V
    BY <1>4
  <2> QED
    BY <1>3, <1>4, <2>1, <2>2
<1>10. \A n \in 0 .. N : after[n] \in V
  BY <1>2, <1>9, LoopStays
<1>11. Loop(after, ts, result, FactorTypes, round)
  <2>1. \A n \in 0 .. N : n # 0 => n - 1 \in 0 .. N
    BY <1>2
  <2>2. \A n \in 0 .. N : n # 0 => after[n - 1] \in V
    BY <1>10, <2>1
  <2>3. after = [n \in 0 .. N |-> IF n = 0 THEN result
                                  ELSE IF goesOn(after[n - 1]) THEN round[after[n - 1]]
                                  ELSE after[n - 1]]
    BY <1>4, <1>8, <2>2
  <2> QED
    BY <2>3 DEF Loop, N, goesOn
<1>12. Rounds(after, ts, i, 2, result, FactorTypes, round)
  BY <1>3, <1>4, <1>11, RoundsAre DEF V, goesOn
<1>13. ParseProduct(ts, i, inner) = after[Len(ts)]
  BY <1>1, <1>12, RoundsResult DEF N, goesOn
<1> QED
  BY <1>12, <1>13 DEF result, round

\* _parse_product in a piece, as far as it goes there.
LEMMA CutFactors ==
  ASSUME NEW ts, NEW us, NEW d, NEW q, IsCut(ts, us, d, q), NEW i \in d + 1 .. q,
         NEW inner \in Inner(ts), NEW within \in Inner(us), AllCarry(inner, within, d, q),
         NEW after,
         Rounds(after, ts, i, 2, ParseUnary(ts, i, inner), FactorTypes, FactorRound(ts, i, inner)),
         NEW n \in 0 .. Len(ts), after[n].ok, after[n].next <= q + 1,
         after[n].next = q + 1 \/ ts[after[n].next].type \notin FactorTypes
  PROVE  ParseProduct(us, i - d, within) = Parsed(Moved(after[n].value, d), after[n].next - d)
<1> DEFINE p == i - d
           V == ParsedTrees(ts, i, 2)
           W == ParsedTrees(us, p, 2)
           round == FactorRound(ts, i, inner)
           round2 == FactorRound(us, p, within)
           result == ParseUnary(ts, i, inner)
           result2 == ParseUnary(us, p, within)
<1>1. IsStream(ts) /\ IsStream(us) /\ p \in DOMAIN us /\ d \in Nat /\ q \in Nat /\ i \in Nat /\ i > d
  <2>1. i \in d + 1 .. q + 1 /\ i > d
    BY DEF IsCut
  <2>2. IsStream(ts) /\ IsStream(us)
    BY DEF IsCut
  <2> QED
    BY <2>1, <2>2, CutTokens
<1>2. PICK below : /\ Rounds(below, us, p, 2, result2, FactorTypes, round2)
                   /\ ParseProduct(us, p, within) = below[Len(us)]
  BY <1>1, ProductRounds
<1>3. Carries(result, result2, d, q)
  BY CutUnary
<1>4. "EOF" \notin FactorTypes
  BY DEF FactorTypes, ImplicitFactorStarters
<1>5. ASSUME NEW r \in V, NEW s \in W, GoesOn(ts, FactorTypes, r), r.next <= q,
             s = Parsed(Moved(r.value, d), r.next - d), GoesOn(us, FactorTypes, s)
      PROVE  Carries(round[r], round2[s], d, q)
  <2>1. round[r] = NextFactor(ts, r.value, r.next, inner)
    BY <1>1, <1>5, FactorRounds
  <2>2. round2[s] = NextFactor(us, s.value, s.next, within)
    BY <1>1, <1>5, FactorRounds
  <2>3. s.value = Moved(r.value, d) /\ s.next = r.next - d
    BY <1>5 DEF Parsed
  <2>4. r.ok /\ ts[r.next].type \in FactorTypes
    BY <1>5 DEF GoesOn
  <2>5. r.value \in Trees /\ r.next \in Nat /\ r.next > i
    BY <2>4, ParsedOn
  <2>6. r.next \in d + 1 .. q
    <3> DEFINE j == r.next
    <3>1. j \in Nat /\ j > i /\ j <= q
      BY <1>5, <2>5
    <3> HIDE DEF j
    <3> QED
      BY <1>1, <3>1 DEF j
  <2>7. Carries(NextFactor(ts, r.value, r.next, inner),
                NextFactor(us, Moved(r.value, d), r.next - d, within), d, q)
    BY <2>4, <2>5, <2>6, CutFactor
  <2> HIDE DEF round, round2
  <2> QED
    BY <2>1, <2>2, <2>3, <2>7
<1>6. Rounds(after, ts, i, 2, result, FactorTypes, round)
  OBVIOUS
<1> HIDE DEF round, round2, result, result2
<1>7. below[Len(us)] = Parsed(Moved(after[n].value, d), after[n].next - d)
  BY <1>2, <1>3, <1>4, <1>5, <1>6, CutRounds
<1> QED
  BY <1>2, <1>7

\* _parse_product in a piece.
LEMMA CutProduct ==
  ASSUME NEW ts, NEW us, NEW d, NEW q, IsCut(ts, us, d, q), NEW i \in d + 1 .. q,
         NEW inner \in Inner(ts), NEW within \in Inner(us), AllCarry(inner, within, d, q)
  PROVE  Carries(ParseProduct(ts, i, inner), ParseProduct(us, i - d, within), d, q)
<1>1. IsStream(ts) /\ i \in DOMAIN ts
  <2>1. i \in d + 1 .. q + 1
    BY DEF IsCut
  <2>2. IsStream(ts)
    BY DEF IsCut
  <2> QED
    BY <2>1, <2>2, CutTokens
<1>2. PICK after :
        /\ Rounds(after, ts, i, 2, ParseUnary(ts, i, inner), FactorTypes, FactorRound(ts, i, inner))
        /\ ParseProduct(ts, i, inner) = after[Len(ts)]
  BY <1>1, ProductRounds
<1> DEFINE n == Len(ts)
           r == after[n]
<1>3. ~GoesOn(ts, FactorTypes, r) /\ n \in 0 .. n
  <2>1. ~GoesOn(ts, FactorTypes, r)
    BY <1>1, <1>2, RoundsEnd
  <2>2. n \in Nat
    BY <1>1 DEF IsStream
  <2> HIDE DEF n
  <2> QED
    BY <2>1, <2>2
<1>4. ASSUME r.ok, r.next <= q + 1
      PROVE  ParseProduct(us, i - d, within) = Parsed(Moved(r.value, d), r.next - d)
  <2>1. ts[r.next].type \notin FactorTypes
    BY <1>3, <1>4 DEF GoesOn
  <2> QED
    BY <1>2, <1>3, <1>4, <2>1, CutFactors
<1> HIDE DEF r
<1> QED
  BY <1>2, <1>4 DEF Carries, r

\* Once round the loop of _parse_sum, at what has been parsed of it.
NextTerm(ts, left, j, inner) ==
  LET right == ParseProduct(ts, j + 1, inner) IN
  IF right.ok THEN Parsed(Joined(SumOf(ts[j].type), left, right.value), right.next) ELSE right

\* The operator of a sum.
LEMMA SumOperator ==
  ASSUME NEW type \in SumTypes
  PROVE  /\ SumOf(type) \in Sums \cup Products /\ SumOf(type) \in Binaries
         /\ Level(SumOf(type)) = 1 /\ SumOf(type) # "juxt"
         /\ OperatorTypes[SumOf(type)] = <<type>> /\ type \notin {"LBRACE", "RBRACE"}
<1> DEFINE op == SumOf(type)
<1>1. /\ type = "PLUS" => op = "add"
      /\ type = "MINUS" => op = "subtract"
      /\ type = "PM" => op = "pm"
  BY DEF SumOf
<1>2. type = "PLUS" \/ type = "MINUS" \/ type = "PM"
  BY DEF SumTypes
<1>3. {"add", "subtract", "pm"} \subseteq Binaries
  BY DEF Binaries, Sums
<1> HIDE DEF op
<1>4. /\ op \in Sums \cup Products /\ op \in Binaries /\ Level(op) = 1 /\ op # "juxt"
      /\ OperatorTypes[op] = <<type>> /\ type \notin {"LBRACE", "RBRACE"}
  BY <1>1, <1>2, <1>3, OperatorLevels
<1> QED
  BY <1>4 DEF op

\* One round of the loop of _parse_sum.
LEMMA TermType ==
  ASSUME NEW ts, IsStream(ts), NEW left \in Trees, NEW i, NEW j \in DOMAIN ts,
         Stands(ts, left, i, j, 1), NEW inner \in Inner(ts), ts[j].type \in SumTypes
  PROVE  /\ NextTerm(ts, left, j, inner) \in ParsedTrees(ts, i, 1)
         /\ NextTerm(ts, left, j, inner).ok => NextTerm(ts, left, j, inner).next > j
<1> DEFINE op == SumOf(ts[j].type)
           m == j + 1
           right == ParseProduct(ts, m, inner)
           e == Joined(op, left, right.value)
           V == ParsedTrees(ts, i, 1)
<1>1. NextTerm(ts, left, j, inner) = IF right.ok THEN Parsed(e, right.next) ELSE right
  BY DEF NextTerm
<1>2. m \in DOMAIN ts /\ Follows(m, j) /\ j \in Nat /\ m \in Nat /\ m > j
  BY TokenAfter DEF SumTypes, Follows
<1>3. right \in ParsedTrees(ts, m, 2)
  BY <1>2, ProductType
<1>4. /\ op \in Sums \cup Products /\ Level(op) = 1 /\ op # "juxt"
      /\ OperatorTypes[op] = <<ts[j].type>> /\ ts[j].type \notin {"LBRACE", "RBRACE"}
      /\ 2 = IF op = "juxt" THEN 4 ELSE Level(op) + 1
  BY SumOperator
<1> HIDE DEF op, m, right, V
<1>5. ASSUME right.ok PROVE Parsed(e, right.next) \in V /\ right.next > j
  <2>1. /\ right.value \in Trees /\ right.next \in DOMAIN ts
        /\ Stands(ts, right.value, m, right.next, 2) /\ right.next \in Nat /\ right.next > m
    BY <1>3, <1>5, TreeCases, ParsedOn
  <2>2. Stands(ts, left, i, j, Level(op))
    BY <1>4
  <2>3. e \in Trees /\ Stands(ts, e, i, right.next, Level(op))
    BY <1>2, <1>4, <2>1, <2>2, JoinedStands
  <2>4. right.next > j
    BY <1>2, <2>1
  <2> HIDE DEF e
  <2> QED
    BY <1>4, <2>1, <2>3, <2>4, TreeParsed DEF V
<1>6. ~right.ok => right \in V
  BY <1>3, TreeCases, TreeFails DEF V
<1>7. Parsed(e, right.next).next = right.next
  BY DEF Parsed
<1> HIDE DEF e
<1> QED
  BY <1>1, <1>5, <1>6, <1>7 DEF V

\* The rounds of the loop of _parse_sum.
TermRound(ts, i, inner) ==
  [r \in ParsedTrees(ts, i, 1) |->
     IF GoesOn(ts, SumTypes, r) THEN NextTerm(ts, r.value, r.next, inner) ELSE r]

\* A term more is a token more at least.
LEMMA TermRounds ==
  ASSUME NEW ts, IsStream(ts), NEW i, NEW inner \in Inner(ts)
  PROVE  /\ TermRound(ts, i, inner) \in [ParsedTrees(ts, i, 1) -> ParsedTrees(ts, i, 1)]
         /\ \A r \in ParsedTrees(ts, i, 1) : GoesOn(ts, SumTypes, r) =>
              /\ TermRound(ts, i, inner)[r] = NextTerm(ts, r.value, r.next, inner)
              /\ TermRound(ts, i, inner)[r].ok => TermRound(ts, i, inner)[r].next > r.next
<1> DEFINE V == ParsedTrees(ts, i, 1)
           goesOn(r) == GoesOn(ts, SumTypes, r)
           term(r) == NextTerm(ts, r.value, r.next, inner)
<1>1. ASSUME NEW r \in V, goesOn(r) PROVE term(r) \in V /\ (term(r).ok => term(r).next > r.next)
  <2>1. r.value \in Trees /\ r.next \in DOMAIN ts /\ Stands(ts, r.value, i, r.next, 1)
        /\ ts[r.next].type \in SumTypes
    BY <1>1, TreeCases DEF GoesOn
  <2> QED
    BY <2>1, TermType
<1> HIDE DEF V, goesOn, term
<1> DEFINE round == [r \in V |-> IF goesOn(r) THEN term(r) ELSE r]
<1>2. round \in [V -> V]
  BY <1>1
<1>3. \A r \in V : goesOn(r) => round[r] = term(r)
  OBVIOUS
<1>4. round = TermRound(ts, i, inner)
  BY DEF TermRound, V, goesOn, term
<1> HIDE DEF round
<1>5. \A r \in V : goesOn(r) => round[r] = term(r) /\ (round[r].ok => round[r].next > r.next)
  BY <1>1, <1>3
<1> QED
  BY <1>2, <1>4, <1>5 DEF V, goesOn, term

\* _parse_sum, round by round.
LEMMA SumRounds ==
  ASSUME NEW ts, IsStream(ts), NEW i \in DOMAIN ts, NEW inner \in Inner(ts)
  PROVE  \E after :
           /\ Rounds(after, ts, i, 1, ParseProduct(ts, i, inner), SumTypes, TermRound(ts, i, inner))
           /\ ParseSum(ts, i, inner) = after[Len(ts)]
<1> DEFINE V == ParsedTrees(ts, i, 1)
           N == Len(ts)
           goesOn(r) == GoesOn(ts, SumTypes, r)
           result == ParseProduct(ts, i, inner)
           round == TermRound(ts, i, inner)
           Round(left, j) == NextTerm(ts, left, j, inner)
           Body(a) == [n \in 0 .. N |->
                         IF n = 0 THEN result
                         ELSE IF goesOn(a[n - 1])
                         THEN Round(a[n - 1].value, a[n - 1].next) ELSE a[n - 1]]
           after == CHOOSE a : a = Body(a)
<1>1. ParseSum(ts, i, inner) = after[CHOOSE n \in 0 .. N : n = N \/ ~goesOn(after[n])]
  BY DEF ParseSum, While, Then, GoesOn, SumTypes, NextTerm
<1>2. N \in Nat
  BY DEF IsStream
<1>3. result \in V
  BY ProductType, TreeLower
<1>4. /\ round \in [V -> V]
      /\ \A r \in V : goesOn(r) =>
           round[r] = Round(r.value, r.next) /\ (round[r].ok => round[r].next > r.next)
  BY TermRounds
<1> HIDE DEF V, N, goesOn, result, round, Round
<1>5. PICK f \in [0 .. N -> V] : Loop(f, ts, result, SumTypes, round)
  BY <1>3, <1>4, LoopExists DEF N
<1>6. /\ \A n \in 0 .. N : n # 0 => f[n - 1] \in V
      /\ f = [n \in 0 .. N |-> IF n = 0 THEN result
                               ELSE IF goesOn(f[n - 1]) THEN round[f[n - 1]] ELSE f[n - 1]]
  <2>1. \A n \in 0 .. N : n # 0 => n - 1 \in 0 .. N
    BY <1>2
  <2>2. \A n \in 0 .. N : n # 0 => f[n - 1] \in V
    BY <1>5, <2>1
  <2>3. f = [n \in 0 .. N |-> IF n = 0 THEN result
                              ELSE IF goesOn(f[n - 1]) THEN round[f[n - 1]] ELSE f[n - 1]]
    BY <1>5 DEF Loop, N, goesOn
  <2> QED
    BY <2>2, <2>3
<1>7. f = Body(f)
  BY <1>4, <1>6
<1>8. after = Body(after)
  <2> HIDE DEF Body
  <2> QED
    BY <1>7
<1> HIDE DEF after
<1>9. Keeps(after, N, V)
  <2> SUFFICES ASSUME NEW n \in 0 .. N, n # 0 => after[n - 1] \in V PROVE after[n] \in V
    BY DEF Keeps
  <2>1. after[n] = IF n = 0 THEN result
                   ELSE IF goesOn(after[n - 1])
                   THEN Round(after[n - 1].value, after[n - 1].next) ELSE after[n - 1]
    BY <1>8
  <2>2. n # 0 /\ goesOn(after[n - 1]) => round[after[n - 1]] \in V
    BY <1>4
  <2> QED
    BY <1>3, <1>4, <2>1, <2>2
<1>10. \A n \in 0 .. N : after[n] \in V
  BY <1>2, <1>9, LoopStays
<1>11. Loop(after, ts, result, SumTypes, round)
  <2>1. \A n \in 0 .. N : n # 0 => n - 1 \in 0 .. N
    BY <1>2
  <2>2. \A n \in 0 .. N : n # 0 => after[n - 1] \in V
    BY <1>10, <2>1
  <2>3. after = [n \in 0 .. N |-> IF n = 0 THEN result
                                  ELSE IF goesOn(after[n - 1]) THEN round[after[n - 1]]
                                  ELSE after[n - 1]]
    BY <1>4, <1>8, <2>2
  <2> QED
    BY <2>3 DEF Loop, N, goesOn
<1>12. Rounds(after, ts, i, 1, result, SumTypes, round)
  BY <1>3, <1>4, <1>11, RoundsAre DEF V, goesOn
<1>13. ParseSum(ts, i, inner) = after[Len(ts)]
  BY <1>1, <1>12, RoundsResult DEF N, goesOn
<1> QED
  BY <1>12, <1>13 DEF result, round

\* One round of the loop of _parse_sum in a piece.
LEMMA CutTerm ==
  ASSUME NEW ts, NEW us, NEW d, NEW q, IsCut(ts, us, d, q), NEW j \in d + 1 .. q,
         NEW left \in Trees, NEW inner \in Inner(ts), NEW within \in Inner(us),
         AllCarry(inner, within, d, q), ts[j].type \in SumTypes
  PROVE  Carries(NextTerm(ts, left, j, inner), NextTerm(us, Moved(left, d), j - d, within), d, q)
<1> DEFINE p == j - d
           op == SumOf(ts[j].type)
           right == ParseProduct(ts, j + 1, inner)
           right2 == ParseProduct(us, p + 1, within)
           e == Joined(op, left, right.value)
           f == Joined(op, Moved(left, d), right2.value)
<1>1. /\ IsStream(ts) /\ d \in Nat /\ q \in Nat /\ j \in Nat /\ j > d /\ j \in DOMAIN ts
      /\ us[p] = ts[j] /\ (j + 1) - d = p + 1
  <2>1. j \in d + 1 .. q + 1 /\ j > d /\ j <= q
    BY DEF IsCut
  <2>2. IsStream(ts)
    BY DEF IsCut
  <2> QED
    BY <2>1, <2>2, CutTokens
<1>2. NextTerm(ts, left, j, inner) = IF right.ok THEN Parsed(e, right.next) ELSE right
  BY DEF NextTerm
<1>3. NextTerm(us, Moved(left, d), p, within) = IF right2.ok THEN Parsed(f, right2.next) ELSE right2
  BY <1>1 DEF NextTerm
<1>4. op \in Binaries
  BY SumOperator
<1>5. /\ right.ok => right.value \in Trees
      /\ right.ok /\ right.next <= q + 1 =>
           right2 = Parsed(Moved(right.value, d), right.next - d)
  <2>1. j + 1 \in DOMAIN ts
    BY <1>1, TokenAfter DEF SumTypes
  <2>2. right \in ParsedTrees(ts, j + 1, 2)
    BY <1>1, <2>1, ProductType
  <2>3. right2 = ParseProduct(us, (j + 1) - d, within)
    BY <1>1
  <2>4. j + 1 \in d + 1 .. q => Carries(right, ParseProduct(us, (j + 1) - d, within), d, q)
    BY CutProduct
  <2> HIDE DEF right, right2
  <2>5. right.ok => right.value \in Trees /\ right.next \in Nat /\ right.next > j + 1
    BY <2>2, ParsedOn
  <2>6. right.ok /\ right.next <= q + 1 => j + 1 \in d + 1 .. q
    BY <1>1, <2>5
  <2> QED
    BY <2>3, <2>4, <2>5, <2>6 DEF Carries
<1> HIDE DEF op, right, right2
<1>6. CASE right.ok
  <2>1. NextTerm(ts, left, j, inner) = Parsed(e, right.next)
    BY <1>2, <1>6
  <2>2. ASSUME right.next <= q + 1
        PROVE  NextTerm(us, Moved(left, d), p, within) = Parsed(Moved(e, d), right.next - d)
    <3>1. right2.ok /\ right2.value = Moved(right.value, d) /\ right2.next = right.next - d
      BY <1>5, <1>6, <2>2 DEF Parsed
    <3>2. Moved(e, d) = f
      BY <1>1, <1>4, <1>5, <1>6, <3>1, MovedJoint
    <3> HIDE DEF e, f, p
    <3> QED
      BY <1>3, <3>1, <3>2
  <2> HIDE DEF e, p
  <2> QED
    BY <2>1, <2>2, CarriesIf, Zenon DEF p
<1>7. CASE ~right.ok
  BY <1>2, <1>7 DEF Carries
<1> QED
  BY <1>6, <1>7

\* _parse_sum in a piece, as far as it goes there.
LEMMA CutTerms ==
  ASSUME NEW ts, NEW us, NEW d, NEW q, IsCut(ts, us, d, q), NEW i \in d + 1 .. q,
         NEW inner \in Inner(ts), NEW within \in Inner(us), AllCarry(inner, within, d, q),
         NEW after,
         Rounds(after, ts, i, 1, ParseProduct(ts, i, inner), SumTypes, TermRound(ts, i, inner)),
         NEW n \in 0 .. Len(ts), after[n].ok, after[n].next <= q + 1,
         after[n].next = q + 1 \/ ts[after[n].next].type \notin SumTypes
  PROVE  ParseSum(us, i - d, within) = Parsed(Moved(after[n].value, d), after[n].next - d)
<1> DEFINE p == i - d
           V == ParsedTrees(ts, i, 1)
           W == ParsedTrees(us, p, 1)
           round == TermRound(ts, i, inner)
           round2 == TermRound(us, p, within)
           result == ParseProduct(ts, i, inner)
           result2 == ParseProduct(us, p, within)
<1>1. IsStream(ts) /\ IsStream(us) /\ p \in DOMAIN us /\ d \in Nat /\ q \in Nat /\ i \in Nat /\ i > d
  <2>1. i \in d + 1 .. q + 1 /\ i > d
    BY DEF IsCut
  <2>2. IsStream(ts) /\ IsStream(us)
    BY DEF IsCut
  <2> QED
    BY <2>1, <2>2, CutTokens
<1>2. PICK below : /\ Rounds(below, us, p, 1, result2, SumTypes, round2)
                   /\ ParseSum(us, p, within) = below[Len(us)]
  BY <1>1, SumRounds
<1>3. Carries(result, result2, d, q)
  BY CutProduct
<1>4. "EOF" \notin SumTypes
  BY DEF SumTypes
<1>5. ASSUME NEW r \in V, NEW s \in W, GoesOn(ts, SumTypes, r), r.next <= q,
             s = Parsed(Moved(r.value, d), r.next - d), GoesOn(us, SumTypes, s)
      PROVE  Carries(round[r], round2[s], d, q)
  <2>1. round[r] = NextTerm(ts, r.value, r.next, inner)
    BY <1>1, <1>5, TermRounds
  <2>2. round2[s] = NextTerm(us, s.value, s.next, within)
    BY <1>1, <1>5, TermRounds
  <2>3. s.value = Moved(r.value, d) /\ s.next = r.next - d
    BY <1>5 DEF Parsed
  <2>4. r.ok /\ ts[r.next].type \in SumTypes
    BY <1>5 DEF GoesOn
  <2>5. r.value \in Trees /\ r.next \in Nat /\ r.next > i
    BY <2>4, ParsedOn
  <2>6. r.next \in d + 1 .. q
    <3> DEFINE j == r.next
    <3>1. j \in Nat /\ j > i /\ j <= q
      BY <1>5, <2>5
    <3> HIDE DEF j
    <3> QED
      BY <1>1, <3>1 DEF j
  <2>7. Carries(NextTerm(ts, r.value, r.next, inner),
                NextTerm(us, Moved(r.value, d), r.next - d, within), d, q)
    BY <2>4, <2>5, <2>6, CutTerm
  <2> HIDE DEF round, round2
  <2> QED
    BY <2>1, <2>2, <2>3, <2>7
<1>6. Rounds(after, ts, i, 1, result, SumTypes, round)
  OBVIOUS
<1> HIDE DEF round, round2, result, result2
<1>7. below[Len(us)] = Parsed(Moved(after[n].value, d), after[n].next - d)
  BY <1>2, <1>3, <1>4, <1>5, <1>6, CutRounds
<1> QED
  BY <1>2, <1>7

\* _parse_sum in a piece.
LEMMA CutSum ==
  ASSUME NEW ts, NEW us, NEW d, NEW q, IsCut(ts, us, d, q), NEW i \in d + 1 .. q,
         NEW inner \in Inner(ts), NEW within \in Inner(us), AllCarry(inner, within, d, q)
  PROVE  Carries(ParseSum(ts, i, inner), ParseSum(us, i - d, within), d, q)
<1>1. IsStream(ts) /\ i \in DOMAIN ts
  <2>1. i \in d + 1 .. q + 1
    BY DEF IsCut
  <2>2. IsStream(ts)
    BY DEF IsCut
  <2> QED
    BY <2>1, <2>2, CutTokens
<1>2. PICK after :
        /\ Rounds(after, ts, i, 1, ParseProduct(ts, i, inner), SumTypes, TermRound(ts, i, inner))
        /\ ParseSum(ts, i, inner) = after[Len(ts)]
  BY <1>1, SumRounds
<1> DEFINE n == Len(ts)
           r == after[n]
<1>3. ~GoesOn(ts, SumTypes, r) /\ n \in 0 .. n
  <2>1. ~GoesOn(ts, SumTypes, r)
    BY <1>1, <1>2, RoundsEnd
  <2>2. n \in Nat
    BY <1>1 DEF IsStream
  <2> HIDE DEF n
  <2> QED
    BY <2>1, <2>2
<1>4. ASSUME r.ok, r.next <= q + 1
      PROVE  ParseSum(us, i - d, within) = Parsed(Moved(r.value, d), r.next - d)
  <2>1. ts[r.next].type \notin SumTypes
    BY <1>3, <1>4 DEF GoesOn
  <2> QED
    BY <1>2, <1>3, <1>4, <2>1, CutTerms
<1> HIDE DEF r
<1> QED
  BY <1>2, <1>4 DEF Carries, r

-----------------------------------------------------------------------------
(* What stands in braces, at every depth                                   *)

\* _parse_expression, with the expressions in braces no deeper than n.
Depths == RecursionLimit \div FramesPerExpression
IsExpressed(ts, f) ==
  /\ f \in [0 .. Depths -> Inner(ts)]
  /\ f[0] = [j \in DOMAIN ts |-> Failed("RecursionError", j)]
  /\ \A n \in 1 .. Depths : f[n] = [j \in DOMAIN ts |-> ParseSum(ts, j, f[n - 1])]
Expressed(ts) == CHOOSE f : IsExpressed(ts, f) /\ \A i \in DOMAIN ts : ParseExpression(ts, i) = f[Depths][i]

\* _parse_expression is such a function.
LEMMA ExpressionsAre ==
  ASSUME NEW ts, IsStream(ts)
  PROVE  /\ Depths \in Nat /\ IsExpressed(ts, Expressed(ts))
         /\ \A i \in DOMAIN ts : ParseExpression(ts, i) = Expressed(ts)[Depths][i]
<1> DEFINE failed == [j \in DOMAIN ts |-> Failed("RecursionError", j)]
           sum(inner) == [j \in DOMAIN ts |-> ParseSum(ts, j, inner)]
           value(n, f) == IF n = 0 THEN failed ELSE sum(f[n - 1])
           expression == CHOOSE f : f = [n \in 0 .. Depths |->
             [j \in DOMAIN ts |-> IF n = 0 THEN Failed("RecursionError", j)
                                  ELSE ParseSum(ts, j, f[n - 1])]]
           step == [n \in 0 .. Depths |-> [f \in [0 .. Depths -> Inner(ts)] |-> value(n, f)]]
<1>1. Depths \in Nat /\ 0 \in Nat
  <2>1. \A m \in Nat, d \in Nat \ {0} : m \div d \in Nat
    OBVIOUS
  <2> QED
    BY <2>1, RecursionAssumption DEF FramesPerExpression, Depths
<1>2. \A i \in DOMAIN ts : ParseExpression(ts, i) = expression[Depths][i]
  BY DEF ParseExpression, Depths
<1>3. failed \in Inner(ts)
  <2>1. \A j \in DOMAIN ts : /\ Failed("RecursionError", j) \in Results(ts, Trees)
                            /\ ~Failed("RecursionError", j).ok
    BY ResultIs, TokenAfter DEF Failures
  <2>2. \A j \in DOMAIN ts : Failed("RecursionError", j) \in ParsedTrees(ts, j, 1)
    BY <2>1, TreeFails
  <2> QED
    BY <2>1, <2>2 DEF Inner
<1>4. \A inner \in Inner(ts) : sum(inner) \in Inner(ts)
  <2> TAKE inner \in Inner(ts)
  <2>1. \A j \in DOMAIN ts : ParseSum(ts, j, inner) \in ParsedTrees(ts, j, 1)
    BY SumType
  <2>2. \A j \in DOMAIN ts : ParseSum(ts, j, inner) \in Results(ts, Trees)
    BY <2>1, TreeCases
  <2> QED
    BY <2>1, <2>2 DEF Inner
<1>5. expression = CHOOSE f : f = [n \in 0 .. Depths |-> value(n, f)]
  <2>1. \A f : [n \in 0 .. Depths |-> value(n, f)]
               = [n \in 0 .. Depths |-> [j \in DOMAIN ts |->
                    IF n = 0 THEN Failed("RecursionError", j) ELSE ParseSum(ts, j, f[n - 1])]]
    OBVIOUS
  <2> QED
    BY <2>1
<1> HIDE DEF failed, sum, expression
<1>6. ASSUME NEW n \in 0 .. Depths, NEW f \in [0 .. Depths -> Inner(ts)] PROVE value(n, f) \in Inner(ts)
  <2>1. n # 0 => n - 1 \in 0 .. Depths
    BY <1>1
  <2> QED
    BY <1>3, <1>4, <2>1
<1>7. ASSUME NEW n \in 0 .. Depths, NEW f \in [0 .. Depths -> Inner(ts)],
             NEW g \in [0 .. Depths -> Inner(ts)], \A j \in 0 .. n - 1 : f[j] = g[j]
      PROVE  value(n, f) = value(n, g)
  <2>1. n # 0 => n - 1 \in 0 .. n - 1
    BY <1>1
  <2>2. n # 0 => f[n - 1] = g[n - 1]
    BY <1>7, <2>1
  <2> QED
    BY <2>2
<1> HIDE DEF value
<1>8. \A n \in 0 .. Depths, f \in [0 .. Depths -> Inner(ts)] : step[n][f] = value(n, f)
  OBVIOUS
<1>9. LooksBack(step, 0, Depths, Inner(ts))
  <2>1. step \in [0 .. Depths -> [[0 .. Depths -> Inner(ts)] -> Inner(ts)]]
    BY <1>6
  <2> HIDE DEF step
  <2>2. ASSUME NEW n \in 0 .. Depths, NEW f \in [0 .. Depths -> Inner(ts)],
               NEW g \in [0 .. Depths -> Inner(ts)], \A j \in 0 .. n - 1 : f[j] = g[j]
        PROVE  step[n][f] = step[n][g]
    <3>1. value(n, f) = value(n, g)
      BY <1>7, <2>2
    <3> QED
      BY <1>8, <3>1
  <2> QED
    BY <2>1, <2>2 DEF LooksBack
<1> HIDE DEF step
<1>10. PICK f : Recursive(f, step, 0, Depths, Inner(ts))
  <2>1. Inner(ts) # {}
    BY <1>3
  <2> QED
    BY <1>1, <1>9, <2>1, RecursionDefines
<1>11. f = [n \in 0 .. Depths |-> value(n, f)]
  BY <1>8, <1>10 DEF Recursive
<1>12. expression = [n \in 0 .. Depths |-> value(n, expression)]
  BY <1>5, <1>11
<1>13. Keeps(expression, Depths, Inner(ts))
  <2> SUFFICES ASSUME NEW n \in 0 .. Depths, n # 0 => expression[n - 1] \in Inner(ts)
               PROVE  expression[n] \in Inner(ts)
    BY DEF Keeps
  <2>1. expression[n] = value(n, expression)
    BY <1>12
  <2> QED
    BY <1>3, <1>4, <2>1 DEF value
<1>14. \A n \in 0 .. Depths : expression[n] \in Inner(ts)
  BY <1>1, <1>13, LoopStays
<1>15. IsExpressed(ts, expression)
  <2>1. expression \in [0 .. Depths -> Inner(ts)]
    BY <1>12, <1>14
  <2>2. \A n \in 0 .. Depths : expression[n] = value(n, expression)
    BY <1>12
  <2>3. 0 \in 0 .. Depths /\ \A n \in 1 .. Depths : n \in 0 .. Depths /\ n # 0
    BY <1>1
  <2>4. expression[0] = failed /\ \A n \in 1 .. Depths : expression[n] = sum(expression[n - 1])
    BY <2>2, <2>3 DEF value
  <2> QED
    BY <2>1, <2>4 DEF IsExpressed, failed, sum
<1>16. /\ IsExpressed(ts, Expressed(ts))
       /\ \A i \in DOMAIN ts : ParseExpression(ts, i) = Expressed(ts)[Depths][i]
  BY <1>2, <1>15 DEF Expressed
<1> QED
  BY <1>1, <1>16

\* One expression in braces after the other.
LEMMA DeeperIs ==
  ASSUME NEW ts, IsStream(ts), NEW n \in 0 .. Depths
  PROVE  /\ Expressed(ts)[n] \in Inner(ts)
         /\ n = 0 => \A j \in DOMAIN ts : ~Expressed(ts)[n][j].ok
         /\ n # 0 => n - 1 \in 0 .. Depths /\ n - 1 \in 0 .. n - 1
                     /\ \A j \in DOMAIN ts : Expressed(ts)[n][j] = ParseSum(ts, j, Expressed(ts)[n - 1])
<1>1. Depths \in Nat /\ IsExpressed(ts, Expressed(ts))
  BY ExpressionsAre
<1> DEFINE f == Expressed(ts)
<1> HIDE DEF f
<1>2. /\ f \in [0 .. Depths -> Inner(ts)]
      /\ f[0] = [j \in DOMAIN ts |-> Failed("RecursionError", j)]
      /\ \A m \in 1 .. Depths : f[m] = [j \in DOMAIN ts |-> ParseSum(ts, j, f[m - 1])]
  BY <1>1 DEF IsExpressed, f
<1>3. n # 0 => n - 1 \in 0 .. Depths /\ n - 1 \in 0 .. n - 1 /\ n \in 1 .. Depths
  BY <1>1
<1>4. f[n] \in Inner(ts)
  BY <1>2
<1>5. n = 0 => \A j \in DOMAIN ts : ~f[n][j].ok
  BY <1>2 DEF Failed
<1>6. n # 0 => \A j \in DOMAIN ts : f[n][j] = ParseSum(ts, j, f[n - 1])
  BY <1>2, <1>3
<1> QED
  BY <1>3, <1>4, <1>5, <1>6 DEF f

\* Expressions in a piece, with no less room for what is in braces.
LEMMA CutExpressions ==
  ASSUME NEW ts, NEW us, NEW d, NEW q, IsCut(ts, us, d, q)
  PROVE  \A n \in 0 .. Depths : \A m \in n .. Depths :
           AllCarry(Expressed(ts)[n], Expressed(us)[m], d, q)
<1> DEFINE f == Expressed(ts)
           g == Expressed(us)
           carry(n) == \A m \in n .. Depths : AllCarry(f[n], g[m], d, q)
           H == {n \in 0 .. Depths : carry(n)}
<1>1. IsStream(ts) /\ IsStream(us) /\ Depths \in Nat
  BY ExpressionsAre DEF IsCut
<1>2. \A j \in d + 1 .. q : j \in DOMAIN ts /\ j - d \in DOMAIN us
  <2> TAKE j \in d + 1 .. q
  <2>1. j \in d + 1 .. q + 1
    BY DEF IsCut
  <2> QED
    BY <2>1, CutTokens
<1>3. /\ \A n \in 0 .. Depths :
           /\ f[n] \in Inner(ts) /\ (n = 0 => \A j \in DOMAIN ts : ~f[n][j].ok)
           /\ n # 0 => /\ n - 1 \in 0 .. Depths /\ n - 1 \in 0 .. n - 1
                       /\ \A j \in DOMAIN ts : f[n][j] = ParseSum(ts, j, f[n - 1])
      /\ \A n \in 0 .. Depths :
           /\ g[n] \in Inner(us)
           /\ n # 0 => \A j \in DOMAIN us : g[n][j] = ParseSum(us, j, g[n - 1])
  BY <1>1, DeeperIs
<1> HIDE DEF f, g
<1>4. ASSUME NEW n \in 0 .. Depths, \A j \in 0 .. n - 1 : carry(j), NEW m \in n .. Depths
      PROVE  AllCarry(f[n], g[m], d, q)
  <2>1. CASE n = 0
    BY <1>2, <1>3, <2>1 DEF AllCarry, Carries
  <2>2. CASE n # 0
    <3>1. n - 1 \in 0 .. n - 1 /\ n - 1 \in 0 .. Depths /\ m \in 0 .. Depths /\ m # 0
          /\ m - 1 \in n - 1 .. Depths /\ m - 1 \in 0 .. Depths
      BY <1>1, <2>2
    <3>2. AllCarry(f[n - 1], g[m - 1], d, q)
      BY <1>4, <3>1
    <3>3. f[n - 1] \in Inner(ts) /\ g[m - 1] \in Inner(us)
      BY <1>3, <3>1
    <3>4. ASSUME NEW j \in d + 1 .. q PROVE Carries(f[n][j], g[m][j - d], d, q)
      <4>1. f[n][j] = ParseSum(ts, j, f[n - 1]) /\ g[m][j - d] = ParseSum(us, j - d, g[m - 1])
        BY <1>2, <1>3, <2>2, <3>1
      <4>2. Carries(ParseSum(ts, j, f[n - 1]), ParseSum(us, j - d, g[m - 1]), d, q)
        BY <3>2, <3>3, CutSum
      <4> QED
        BY <4>1, <4>2
    <3> QED
      BY <3>4 DEF AllCarry
  <2> QED
    BY <2>1, <2>2
<1>5. \A n \in 0 .. Depths : (\A j \in 0 .. n - 1 : j \in H) => n \in H
  BY <1>4
<1> HIDE DEF H
<1>6. \A n \in 0 .. Depths : n \in H
  BY <1>1, <1>5, SmallerFirst
<1> QED
  BY <1>6 DEF H, f, g

-----------------------------------------------------------------------------
(* What is a whole text is so for every function that comes down to it     *)

\* An atom before EOF is a power.
LEMMA AtomAlone ==
  ASSUME NEW us, IsStream(us), NEW i, NEW within, NEW v,
         ParseAtom(us, i, within) = Parsed(v, Len(us))
  PROVE  ParsePower(us, i, within) = Parsed(v, Len(us))
<1> DEFINE base == ParseAtom(us, i, within)
           exponent == ParseExponent(us, base.next + 1)
           e == Binary("power", base.value, exponent.value, i, Span(exponent.value)[2])
<1>1. ParsePower(us, i, within) =
        IF base.ok
        THEN IF us[base.next].type = "POWER"
             THEN IF exponent.ok THEN Parsed(e, exponent.next) ELSE exponent
             ELSE Parsed(base.value, base.next)
        ELSE base
  BY DEF ParsePower, Then
<1>2. base.ok /\ base.value = v /\ base.next = Len(us)
  BY DEF Parsed
<1>3. us[Len(us)].type # "POWER"
  BY DEF IsStream
<1> HIDE DEF base, exponent, e
<1> QED
  BY <1>1, <1>2, <1>3

\* A power before EOF is an operand with a sign or without.
LEMMA PowerAlone ==
  ASSUME NEW us, NEW i, NEW within, NEW v, ParsePower(us, i, within) = Parsed(v, Len(us))
  PROVE  ParseUnary(us, i, within) = Parsed(v, Len(us))
<1>1. CASE us[i].type \in {"PLUS", "MINUS"}
  <2>1. ParseAtom(us, i, within) = Failed("SYN041", i)
    BY <1>1 DEF ParseAtom
  <2>2. ~ParseAtom(us, i, within).ok
    BY <2>1 DEF Failed
  <2>3. ParsePower(us, i, within) = ParseAtom(us, i, within)
    BY <2>2 DEF ParsePower, Then
  <2>4. ParsePower(us, i, within).ok
    BY DEF Parsed
  <2> QED
    BY <2>2, <2>3, <2>4
<1>2. CASE us[i].type \notin {"PLUS", "MINUS"}
  BY <1>2 DEF ParseUnary
<1> QED
  BY <1>1, <1>2

\* An exponent before EOF is one, too.
LEMMA ExponentAlone ==
  ASSUME NEW us, IsStream(us), NEW i \in DOMAIN us, NEW within, NEW v,
         ParseExponent(us, i) = Parsed(v, Len(us))
  PROVE  ParseUnary(us, i, within) = Parsed(v, Len(us))
<1> DEFINE M == Len(us)
<1>1. ParseExponent(us, i).ok /\ ParseExponent(us, i).value = v /\ ParseExponent(us, i).next = M
  BY DEF Parsed
<1>2. CASE us[i].type \in {"PLUS", "MINUS"}
  <2> DEFINE n == Leaf("number", us[i + 1].lexeme, i + 1)
             operand == ParsePower(us, i + 1, within)
             e == Unary(SignOf(us[i]), n, i, i + 1)
  <2>1. i + 1 \in DOMAIN us /\ us[i + 1].type = "NUMBER" /\ ParseExponent(us, i) = Parsed(e, i + 2)
    BY <1>1, <1>2, ExponentIs
  <2> HIDE DEF e
  <2>2. e = v /\ i + 2 = M
    BY <1>1, <2>1 DEF Parsed
  <2>3. ParseAtom(us, i + 1, within) = Parsed(n, i + 1 + 1)
    BY <2>1 DEF ParseAtom
  <2>4. i + 1 + 1 = M /\ i + 1 \in Nat
    BY <2>2, TokenAfter
  <2> HIDE DEF n
  <2>5. operand = Parsed(n, M)
    BY <2>3, <2>4, AtomAlone
  <2> HIDE DEF operand
  <2>6. operand.ok /\ operand.value = n /\ operand.next = M
    BY <2>5 DEF Parsed
  <2>7. Span(n)[2] = i + 1
    BY <2>4 DEF n, Leaf, Node, Span
  <2>8. ParseUnary(us, i, within)
          = IF operand.ok
            THEN Parsed(Unary(SignOf(us[i]), operand.value, i, Span(operand.value)[2]), operand.next)
            ELSE operand
    BY <1>2 DEF ParseUnary, Then, operand
  <2> QED
    BY <2>2, <2>6, <2>7, <2>8 DEF e
<1>3. CASE us[i].type \notin {"PLUS", "MINUS"}
  <2> DEFINE n == Leaf("number", us[i].lexeme, i)
  <2>1. us[i].type = "NUMBER" /\ ParseExponent(us, i) = Parsed(n, i + 1)
    BY <1>1, <1>3, ExponentIs
  <2>2. ParseAtom(us, i, within) = Parsed(n, i + 1)
    BY <2>1 DEF ParseAtom
  <2> HIDE DEF n
  <2>3. ParseAtom(us, i, within) = Parsed(v, M)
    BY <2>1, <2>2
  <2> QED
    BY <2>3, AtomAlone, PowerAlone
<1> QED
  BY <1>2, <1>3

\* An operand before EOF is a product, and a product before EOF is a sum.
LEMMA ProductAlone ==
  ASSUME NEW us, IsStream(us), NEW i \in DOMAIN us, NEW within \in Inner(us), NEW v,
         ParseUnary(us, i, within) = Parsed(v, Len(us))
  PROVE  ParseProduct(us, i, within) = Parsed(v, Len(us))
<1> DEFINE result == ParseUnary(us, i, within)
           round == FactorRound(us, i, within)
<1>1. PICK after : /\ Rounds(after, us, i, 2, result, FactorTypes, round)
                   /\ ParseProduct(us, i, within) = after[Len(us)]
  BY ProductRounds
<1> HIDE DEF round
<1>2. Len(us) \in Nat /\ us[Len(us)].type \notin FactorTypes
  BY DEF IsStream, FactorTypes, ImplicitFactorStarters
<1>3. 0 \in 0 .. Len(us) /\ after[0] = result
  BY <1>1, <1>2, RoundAfter
<1>4. ~GoesOn(us, FactorTypes, after[0])
  BY <1>2, <1>3 DEF GoesOn, Parsed
<1>5. after[Len(us)] = after[0]
  BY <1>1, <1>3, <1>4, RoundsEnd
<1> QED
  BY <1>1, <1>3, <1>5

LEMMA SumAlone ==
  ASSUME NEW us, IsStream(us), NEW i \in DOMAIN us, NEW within \in Inner(us), NEW v,
         ParseProduct(us, i, within) = Parsed(v, Len(us))
  PROVE  ParseSum(us, i, within) = Parsed(v, Len(us))
<1> DEFINE result == ParseProduct(us, i, within)
           round == TermRound(us, i, within)
<1>1. PICK after : /\ Rounds(after, us, i, 1, result, SumTypes, round)
                   /\ ParseSum(us, i, within) = after[Len(us)]
  BY SumRounds
<1> HIDE DEF round
<1>2. Len(us) \in Nat /\ us[Len(us)].type \notin SumTypes
  BY DEF IsStream, SumTypes
<1>3. 0 \in 0 .. Len(us) /\ after[0] = result
  BY <1>1, <1>2, RoundAfter
<1>4. ~GoesOn(us, SumTypes, after[0])
  BY <1>2, <1>3 DEF GoesOn, Parsed
<1>5. after[Len(us)] = after[0]
  BY <1>1, <1>3, <1>4, RoundsEnd
<1> QED
  BY <1>1, <1>3, <1>5

\* What the outermost expression finds in braces.
Inside(ts) == Expressed(ts)[Depths - 1]

\* A text of which all is one of these is parsed to it.
LEMMA TextAlone ==
  ASSUME NEW us, IsStream(us), Depths # 0, NEW v,
         \/ ParseAtom(us, 1, Inside(us)) = Parsed(v, Len(us))
         \/ ParsePower(us, 1, Inside(us)) = Parsed(v, Len(us))
         \/ ParseExponent(us, 1) = Parsed(v, Len(us))
         \/ ParseUnary(us, 1, Inside(us)) = Parsed(v, Len(us))
         \/ ParseProduct(us, 1, Inside(us)) = Parsed(v, Len(us))
         \/ ParseSum(us, 1, Inside(us)) = Parsed(v, Len(us))
  PROVE  ParseExpression(us, 1) = Parsed(v, Len(us))
<1>1. Depths \in Nat /\ ParseExpression(us, 1) = Expressed(us)[Depths][1] /\ 1 \in DOMAIN us
  <2>1. 1 \in DOMAIN us
    BY DEF IsStream
  <2> QED
    BY <2>1, ExpressionsAre
<1>2. Depths \in 0 .. Depths /\ Depths - 1 \in 0 .. Depths
  BY <1>1
<1>3. Inside(us) \in Inner(us)
  BY <1>2, DeeperIs DEF Inside
<1>4. ParseExpression(us, 1) = ParseSum(us, 1, Inside(us))
  BY <1>1, <1>2, DeeperIs DEF Inside
<1> DEFINE w == Inside(us)
<1> HIDE DEF w
<1>5. ParseAtom(us, 1, w) = Parsed(v, Len(us)) => ParsePower(us, 1, w) = Parsed(v, Len(us))
  BY AtomAlone
<1>6. ParsePower(us, 1, w) = Parsed(v, Len(us)) => ParseUnary(us, 1, w) = Parsed(v, Len(us))
  BY PowerAlone
<1>7. ParseExponent(us, 1) = Parsed(v, Len(us)) => ParseUnary(us, 1, w) = Parsed(v, Len(us))
  BY <1>1, ExponentAlone
<1>8. ParseUnary(us, 1, w) = Parsed(v, Len(us)) => ParseProduct(us, 1, w) = Parsed(v, Len(us))
  BY <1>1, <1>3, ProductAlone DEF w
<1>9. ParseProduct(us, 1, w) = Parsed(v, Len(us)) => ParseSum(us, 1, w) = Parsed(v, Len(us))
  BY <1>1, <1>3, SumAlone DEF w
<1> QED
  BY <1>4, <1>5, <1>6, <1>7, <1>8, <1>9 DEF w

-----------------------------------------------------------------------------
(* The text of a node                                                      *)

Eof == [type |-> "EOF", lexeme |-> << >>]
Text(ts, e) == Append(SubSeq(ts, Span(e)[1], Span(e)[2]), Eof)

\* The text that the span of a tree selects is parsed to it, moved.
Selected(ts, e) ==
  ParseExpression(Text(ts, e), 1) = Parsed(Shifted(e, 1 - Span(e)[1]), Len(Text(ts, e)))
AllSelected(ts, e) == \A k \in 1 .. Len(e) : Selected(ts, Below(e, k))

\* The text of what is parsed is a piece.
LEMMA TextIsCut ==
  ASSUME NEW ts, IsStream(ts), Listed(ts, Len(ts)), NEW i \in DOMAIN ts, NEW q \in Nat, i <= q,
         q + 1 \in DOMAIN ts
  PROVE  LET us == Append(SubSeq(ts, i, q), Eof) IN
         /\ IsCut(ts, us, i - 1, q) /\ Len(us) = q + 1 - (i - 1)
         /\ i \in i - 1 + 1 .. q /\ i - (i - 1) = 1
<1> DEFINE n == Len(ts)
           S == {ts[k] : k \in 1 .. n} \cup {Eof}
           s == SubSeq(ts, i, q)
           m == q - i + 1
           us == Append(s, Eof)
<1>1. /\ n \in Nat /\ DOMAIN ts = 1 .. n /\ i \in Nat /\ i > 0 /\ i <= n /\ q \in 1 .. n
      /\ m \in Nat /\ i - 1 \in Nat /\ i - 1 < q /\ m = q - (i - 1)
  BY DEF IsStream
<1>2. ts \in Seq(S) /\ Len(ts) = n
  <2>1. ts = [k \in 1 .. n |-> ts[k]]
    BY DEF Listed
  <2>2. \A k \in 1 .. n : ts[k] \in S
    OBVIOUS
  <2> HIDE DEF S, n
  <2>3. ts \in [1 .. n -> S]
    BY <2>1, <2>2
  <2> QED
    BY <1>1, <2>3 DEF n
<1>3. Eof \in S
  OBVIOUS
<1> HIDE DEF S, n
<1>4. s \in Seq(S) /\ Len(s) = m /\ \A k \in 1 .. m : s[k] = ts[i + k - 1]
  <2>1. i \in 1 .. Len(ts) /\ q \in 1 .. Len(ts)
    BY <1>1, <1>2
  <2>2. SubSeq(ts, i, q) \in Seq(S)
    BY <1>2, <2>1
  <2>3. Len(SubSeq(ts, i, q)) = q - i + 1
    BY <1>1, <1>2, <2>1
  <2>4. \A k \in 1 .. q - i + 1 : SubSeq(ts, i, q)[k] = ts[i + k - 1]
    BY <1>2, <2>1
  <2> QED
    BY <2>2, <2>3, <2>4
<1> HIDE DEF s
<1>5. /\ us = [k \in 1 .. m + 1 |-> us[k]] /\ us[m + 1] = Eof
      /\ \A k \in 1 .. m : us[k] = s[k]
  BY <1>3, <1>4, AppendedAt
<1>6. us \in Seq(S) /\ Len(us) = m + 1
  BY <1>3, <1>4
<1> HIDE DEF us
<1>7. \A k \in 1 .. m : us[k] = ts[i + k - 1] /\ i + k - 1 \in DOMAIN ts
  <2>1. \A k \in 1 .. m : us[k] = ts[i + k - 1]
    BY <1>4, <1>5
  <2>2. \A k \in 1 .. m : i + k - 1 \in 1 .. n
    BY <1>1
  <2> QED
    BY <1>1, <2>1, <2>2
<1>8. Eof.type = "EOF" /\ Eof.type # "NUMBER" /\ Eof.lexeme \in Seq(STRING)
  BY DEF Eof
<1>9. IsStream(us)
  <2>1. DOMAIN us = 1 .. m + 1 /\ m + 1 \in Nat \ {0}
    BY <1>1, <1>5
  <2>2. ASSUME NEW k \in 1 .. m + 1
        PROVE  /\ us[k].lexeme \in Seq(STRING)
               /\ us[k].type = "NUMBER" => us[k].lexeme \in Seq(Figures)
    <3>1. CASE k = m + 1
      BY <1>5, <1>8, <3>1
    <3>2. CASE k # m + 1
      <4>1. k \in 1 .. m
        BY <1>1, <3>2
      <4> DEFINE at == i + k - 1
      <4>2. us[k] = ts[at] /\ at \in DOMAIN ts
        BY <1>7, <4>1
      <4> HIDE DEF at
      <4> QED
        BY <4>2 DEF IsStream
    <3> QED
      BY <3>1, <3>2
  <2>3. us[m + 1].type = "EOF"
    BY <1>5, <1>8
  <2> DEFINE M == m + 1
  <2>4. /\ Len(us) = M /\ M \in Nat \ {0} /\ DOMAIN us = 1 .. M /\ us[M].type = "EOF"
        /\ \A k \in 1 .. M : /\ us[k].lexeme \in Seq(STRING)
                             /\ us[k].type = "NUMBER" => us[k].lexeme \in Seq(Figures)
    BY <1>6, <2>1, <2>2, <2>3
  <2> HIDE DEF M
  <2> QED
    BY <2>4 DEF IsStream
<1>10. ASSUME NEW k \in i - 1 + 1 .. q PROVE us[k - (i - 1)] = ts[k]
  <2> DEFINE h == k - (i - 1)
  <2>0. i \in Nat /\ q \in Nat
    BY <1>1
  <2>1. h \in 1 .. m /\ i + h - 1 = k
    BY <2>0
  <2> HIDE DEF h
  <2> QED
    BY <1>7, <2>1 DEF h
<1>11. Len(us) = q - (i - 1) + 1 /\ Len(us) = q + 1 - (i - 1)
  BY <1>1, <1>6
<1>12. IsCut(ts, us, i - 1, q)
  BY <1>1, <1>9, <1>10, <1>11 DEF IsCut
<1>13. i \in i - 1 + 1 .. q /\ i - (i - 1) = 1
  BY <1>1
<1> QED
  BY <1>11, <1>12, <1>13 DEF us, s

\* What is parsed in its place is parsed alone.
LEMMA SelectedIf ==
  ASSUME NEW ts, IsStream(ts), Listed(ts, Len(ts)), NEW i \in DOMAIN ts, NEW level,
         NEW r \in ParsedTrees(ts, i, level), r.ok, Depths # 0,
         \A us : IsCut(ts, us, i - 1, r.next - 1) =>
           LET v == Moved(r.value, i - 1)
               next == r.next - (i - 1)
           IN \/ ParseAtom(us, 1, Inside(us)) = Parsed(v, next)
              \/ ParsePower(us, 1, Inside(us)) = Parsed(v, next)
              \/ ParseExponent(us, 1) = Parsed(v, next)
              \/ ParseUnary(us, 1, Inside(us)) = Parsed(v, next)
              \/ ParseProduct(us, 1, Inside(us)) = Parsed(v, next)
              \/ ParseSum(us, 1, Inside(us)) = Parsed(v, next)
  PROVE  Selected(ts, r.value)
<1> DEFINE e == r.value
           q == r.next - 1
           d == i - 1
           us == Text(ts, e)
           v == Moved(e, d)
<1>1. /\ e \in Trees /\ i \in Nat /\ r.next \in Nat /\ r.next > i /\ r.next \in DOMAIN ts
      /\ Span(e)[1] = i /\ Span(e)[2] = q /\ i > 0
  BY ParsedOn, TokenAfter
<1>2. q \in Nat /\ i <= q /\ q + 1 = r.next /\ d \in Nat /\ 1 - i = 0 - d
  <2> DEFINE next == r.next
  <2>1. next \in Nat /\ next > i
    BY <1>1
  <2> HIDE DEF next
  <2> QED
    BY <1>1, <2>1 DEF next
<1>3. us = Append(SubSeq(ts, i, q), Eof)
  BY <1>1 DEF Text
<1> HIDE DEF us, q
<1>4. IsCut(ts, us, d, q) /\ Len(us) = q + 1 - d
  BY <1>1, <1>2, <1>3, TextIsCut
<1>5. Len(us) = r.next - d
  BY <1>2, <1>4
<1>6. IsStream(us)
  BY <1>4 DEF IsCut
<1> HIDE DEF v
<1>7. ParseExpression(us, 1) = Parsed(v, Len(us))
  BY <1>4, <1>5, <1>6, TextAlone DEF q, v
<1>8. v = Shifted(e, 0 - d)
  <2>1. e \in Seq(Nodes)
    BY <1>1, TreeFacts
  <2> HIDE DEF e, d
  <2> QED
    BY <1>2, <2>1, MovedNodes DEF v
<1>9. Shifted(e, 1 - Span(e)[1]) = v
  BY <1>1, <1>2, <1>8
<1> QED
  BY <1>7, <1>9 DEF Selected, us

\* A tree is that of its last node.
LEMMA BelowRoot ==
  ASSUME NEW e \in Trees
  PROVE  Len(e) \in 1 .. Len(e) /\ Below(e, Len(e)) = e
<1> DEFINE n == Len(e)
           t == Below(e, n)
<1>1. e \in Seq(Nodes) /\ n \in Nat /\ n > 0 /\ e[n].size = n /\ n \in 1 .. n
  BY TreeFacts
<1>2. CopyOf(t, e, n - n, n) /\ Len(t) = n
  BY <1>1, BelowIs
<1> HIDE DEF t
<1>3. t \in Seq(Nodes) /\ \A j \in 1 .. n : t[j] = e[j]
  BY <1>1, <1>2 DEF CopyOf
<1>4. t = [j \in 1 .. n |-> t[j]] /\ e = [j \in 1 .. n |-> e[j]]
  BY <1>1, <1>2, <1>3
<1>5. t = e
  BY <1>3, <1>4
<1> QED
  BY <1>1, <1>5 DEF t

\* The first m nodes of one tree are those of another behind o of them.
Holds(f, e, o, m) ==
  /\ e \in Trees /\ f \in Trees /\ o \in Nat /\ m \in Nat /\ m <= Len(e) /\ o + m <= Len(f)
  /\ \A j \in 1 .. m : f[o + j] = e[j]

\* The tree of a node is the same in a copy of the nodes up to it.
LEMMA SameBelow ==
  ASSUME NEW e, NEW f, NEW o, NEW m, Holds(f, e, o, m), NEW k \in 1 .. m
  PROVE  Below(f, o + k) = Below(e, k)
<1>0. /\ e \in Trees /\ f \in Trees /\ o \in Nat /\ m \in Nat /\ m <= Len(e) /\ o + m <= Len(f)
      /\ \A j \in 1 .. m : f[o + j] = e[j]
  BY DEF Holds
<1> DEFINE n == e[k].size
           t == Below(e, k)
           u == Below(f, o + k)
<1>1. Len(e) \in Nat /\ Len(f) \in Nat /\ k \in 1 .. Len(e) /\ o + k \in 1 .. Len(f)
  BY <1>0, TreeFacts
<1>2. n \in Nat /\ n > 0 /\ n <= k /\ f[o + k].size = n
  BY <1>0, <1>1, TreeFacts DEF Formed
<1>3. CopyOf(t, e, k - n, k) /\ Len(t) = n
  BY <1>0, <1>1, BelowIs
<1>4. CopyOf(u, f, o + k - n, o + k) /\ Len(u) = n
  <2> DEFINE p == o + k
  <2>1. f \in Trees /\ p \in 1 .. Len(f) /\ f[p].size = n
    BY <1>0, <1>1, <1>2
  <2> HIDE DEF p, n
  <2>2. CopyOf(Below(f, p), f, p - f[p].size, p) /\ Len(Below(f, p)) = f[p].size
    BY <2>1, BelowIs
  <2>3. CopyOf(Below(f, p), f, p - n, p) /\ Len(Below(f, p)) = n
    BY <2>1, <2>2
  <2>0. o \in Nat /\ k \in Nat /\ n \in Nat
    BY <1>0, <1>2
  <2>4. p - n = o + k - n
    BY <2>0 DEF p
  <2> HIDE DEF u
  <2>5. u = Below(f, p)
    BY DEF u, p
  <2>6. CopyOf(u, f, o + k - n, p) /\ Len(u) = n
    BY <2>3, <2>4, <2>5
  <2> QED
    BY <2>6 DEF p
<1> HIDE DEF n, t, u
<1>5. t \in Seq(Nodes) /\ \A j \in 1 .. n : t[j] = e[k - n + j]
  BY <1>3 DEF CopyOf
<1>6. u \in Seq(Nodes) /\ \A j \in 1 .. n : u[j] = f[o + k - n + j]
  BY <1>4 DEF CopyOf
<1>7. ASSUME NEW j \in 1 .. n PROVE u[j] = t[j]
  <2> DEFINE h == k - n + j
  <2>1. h \in 1 .. m /\ o + k - n + j = o + h
    BY <1>0, <1>2
  <2> HIDE DEF h
  <2>2. f[o + h] = e[h]
    BY <1>0, <2>1
  <2> QED
    BY <1>5, <1>6, <2>1, <2>2 DEF h
<1>8. t = [j \in 1 .. n |-> t[j]] /\ u = [j \in 1 .. n |-> u[j]]
  BY <1>3, <1>4, <1>5, <1>6
<1>9. u = t
  BY <1>7, <1>8
<1> QED
  BY <1>9 DEF t, u

\* A node over an operand, and the texts of both.
LEMMA UnarySelected ==
  ASSUME NEW ts, NEW e \in Trees, NEW op \in Unaries \cup {"sqrt"}, NEW from \in Nat, NEW to \in Nat,
         AllSelected(ts, e), Selected(ts, Unary(op, e, from, to))
  PROVE  AllSelected(ts, Unary(op, e, from, to))
<1> DEFINE f == Unary(op, e, from, to)
           n == Len(e)
           node == Node(op, << >>, n + 1, from, to)
<1>1. e \in Seq(Nodes) /\ n \in Nat /\ f \in Trees
  BY TreeFacts, UnaryTree
<1>2. Len(f) = n + 1 /\ \A j \in 1 .. n : f[0 + j] = e[j]
  <2>1. f = Append(e, node)
    BY DEF Unary
  <2> HIDE DEF f, node
  <2>2. Len(f) = n + 1 /\ \A j \in 1 .. n : f[j] = e[j]
    BY <1>1, <2>1
  <2>3. \A j \in 1 .. n : 0 + j = j
    BY <1>1
  <2> QED
    BY <2>2, <2>3
<1>3. Selected(ts, f)
  OBVIOUS
<1> HIDE DEF f
<1>4. ASSUME NEW k \in 1 .. n + 1 PROVE Selected(ts, Below(f, k))
  <2>1. CASE k = n + 1
    BY <1>1, <1>2, <1>3, <2>1, BelowRoot
  <2>2. CASE k # n + 1
    <3>1. k \in 1 .. n /\ 0 + k = k /\ 0 \in Nat /\ n <= Len(e) /\ 0 + n <= Len(f)
      BY <1>1, <1>2, <2>2
    <3>3. Holds(f, e, 0, n)
      BY <1>1, <1>2, <3>1 DEF Holds
    <3>2. Below(f, 0 + k) = Below(e, k)
      BY <3>1, <3>3, SameBelow
    <3> QED
      BY <3>1, <3>2 DEF AllSelected
  <2> QED
    BY <2>1, <2>2
<1>5. AllSelected(ts, f)
  BY <1>2, <1>4 DEF AllSelected
<1> QED
  BY <1>5 DEF f

\* A node over two operands, and the texts of all.
LEMMA BinarySelected ==
  ASSUME NEW ts, NEW l \in Trees, NEW r \in Trees, NEW op \in Binaries, NEW from \in Nat, NEW to \in Nat,
         AllSelected(ts, l), AllSelected(ts, r), Selected(ts, Binary(op, l, r, from, to))
  PROVE  AllSelected(ts, Binary(op, l, r, from, to))
<1> DEFINE f == Binary(op, l, r, from, to)
           m == Len(l)
           n == Len(r)
           node == Node(op, << >>, m + n + 1, from, to)
           both == l \o r
<1>1. l \in Seq(Nodes) /\ r \in Seq(Nodes) /\ m \in Nat /\ n \in Nat /\ f \in Trees
  BY TreeFacts, BinaryTree
<1>2. /\ both \in Seq(Nodes) /\ Len(both) = m + n
      /\ \A j \in 1 .. m : both[j] = l[j]
      /\ \A j \in 1 .. n : both[m + j] = r[j]
  BY <1>1, JoinedAt
<1>3. Len(f) = m + n + 1 /\ \A j \in 1 .. m + n : f[j] = both[j]
  <2>1. f = Append(both, node)
    BY DEF Binary
  <2> DEFINE x == m + n
  <2>2. both \in Seq(Nodes) /\ Len(both) = x /\ x \in Nat
    BY <1>1, <1>2
  <2> HIDE DEF f, node, both, x
  <2>3. Len(f) = x + 1 /\ \A j \in 1 .. x : f[j] = both[j]
    BY <2>1, <2>2
  <2> QED
    BY <2>3 DEF x
<1>4. Selected(ts, f)
  OBVIOUS
<1>8. Len(l) = m /\ Len(r) = n
  OBVIOUS
<1> HIDE DEF f, both, m, n
<1>5. /\ \A j \in 1 .. m : f[0 + j] = l[j]
      /\ \A j \in 1 .. n : f[m + j] = r[j]
  <2>1. \A j \in 1 .. m : 0 + j = j /\ j \in 1 .. m + n
    BY <1>1
  <2>2. \A j \in 1 .. n : m + j \in 1 .. m + n
    BY <1>1
  <2> QED
    BY <1>2, <1>3, <2>1, <2>2
<1>6. ASSUME NEW k \in 1 .. m + n + 1 PROVE Selected(ts, Below(f, k))
  <2>1. CASE k = m + n + 1
    BY <1>1, <1>3, <1>4, <2>1, BelowRoot
  <2>2. CASE k \in 1 .. m
    <3>1. 0 + k = k /\ 0 \in Nat /\ m <= Len(l) /\ 0 + m <= Len(f)
      BY <1>1, <1>3, <1>8, <2>2
    <3>3. Holds(f, l, 0, m)
      BY <1>1, <1>5, <3>1 DEF Holds
    <3>2. Below(f, 0 + k) = Below(l, k)
      BY <2>2, <3>3, SameBelow
    <3> QED
      BY <1>8, <2>2, <3>1, <3>2 DEF AllSelected
  <2>3. CASE k # m + n + 1 /\ k \notin 1 .. m
    <3> DEFINE h == k - m
    <3>0. m \in Nat /\ n \in Nat /\ m + n <= m + n + 1
      BY <1>1
    <3>5. h \in 1 .. n /\ m + h = k
      BY <2>3, <3>0
    <3>1. h \in 1 .. n /\ m + h = k /\ n <= Len(r) /\ m + n <= Len(f)
      BY <1>3, <1>8, <3>0, <3>5
    <3> HIDE DEF h
    <3>3. /\ r \in Trees /\ f \in Trees /\ m \in Nat /\ n \in Nat /\ n <= Len(r) /\ m + n <= Len(f)
          /\ (\A j \in 1 .. n : f[m + j] = r[j]) /\ h \in 1 .. n
      BY <1>1, <1>5, <3>1
    <3>4. Holds(f, r, m, n)
      BY <3>3 DEF Holds
    <3>6. h \in 1 .. n
      BY <3>3
    <3>2. Below(f, m + h) = Below(r, h)
      BY <3>4, <3>6, SameBelow
    <3> QED
      BY <1>8, <3>1, <3>2 DEF AllSelected
  <2> QED
    BY <2>1, <2>2, <2>3
<1>7. AllSelected(ts, f)
  BY <1>3, <1>6 DEF AllSelected
<1> QED
  BY <1>7 DEF f

\* A group, and the texts of what is in it.
LEMMA RegroupSelected ==
  ASSUME NEW ts, NEW e \in Trees, NEW from \in Nat, NEW to \in Nat, AllSelected(ts, e),
         Selected(ts, Regroup(e, from, to))
  PROVE  AllSelected(ts, Regroup(e, from, to))
<1> DEFINE f == Regroup(e, from, to)
           n == Len(e)
<1>1. e \in Seq(Nodes) /\ n \in Nat /\ n > 0 /\ f \in Trees /\ DOMAIN e = 1 .. n
  BY TreeFacts, RegroupTree
<1>2. Len(f) = n /\ \A j \in 1 .. n - 1 : f[0 + j] = e[j]
  <2> DEFINE g == [e[n] EXCEPT !.span = <<from, to>>]
  <2>1. f = [e EXCEPT ![n] = g]
    BY DEF Regroup
  <2> HIDE DEF f, g
  <2>2. \A j \in 1 .. n - 1 : 0 + j = j /\ j \in 1 .. n /\ j # n
    <3> HIDE DEF n
    <3> QED
      BY <1>1
  <2>3. DOMAIN f = 1 .. n /\ \A j \in 1 .. n : j # n => f[j] = e[j]
    BY <1>1, <2>1
  <2>4. \A j \in 1 .. n - 1 : f[0 + j] = e[j]
    BY <2>2, <2>3
  <2>5. f \in Seq(Nodes) /\ Len(f) \in Nat /\ DOMAIN f = 1 .. Len(f)
    BY <1>1, TreeFacts
  <2>6. Len(f) = n
    <3> DEFINE x == Len(f)
    <3> HIDE DEF x, n, f
    <3>1. x \in Nat /\ n \in Nat /\ n > 0 /\ 1 .. x = 1 .. n
      BY <1>1, <2>3, <2>5 DEF x
    <3>2. n \in 1 .. x /\ (x > 0 => x \in 1 .. n)
      BY <3>1
    <3> QED
      BY <3>1, <3>2 DEF x
  <2> QED
    BY <2>4, <2>6
<1>3. Selected(ts, f)
  OBVIOUS
<1> HIDE DEF f
<1>4. ASSUME NEW k \in 1 .. n PROVE Selected(ts, Below(f, k))
  <2>1. CASE k = n
    BY <1>1, <1>2, <1>3, <2>1, BelowRoot
  <2>2. CASE k # n
    <3> DEFINE m == n - 1
    <3>1. k \in 1 .. m /\ 0 + k = k /\ 0 \in Nat /\ m \in Nat /\ m <= n /\ 0 + m <= n
      <4> HIDE DEF n
      <4> QED
        BY <1>1, <2>2
    <3>4. \A j \in 1 .. m : f[0 + j] = e[j]
      BY <1>2
    <3> HIDE DEF m
    <3>3. /\ e \in Trees /\ f \in Trees /\ 0 \in Nat /\ m \in Nat /\ m <= Len(e) /\ 0 + m <= Len(f)
          /\ (\A j \in 1 .. m : f[0 + j] = e[j]) /\ k \in 1 .. m
      BY <1>1, <1>2, <3>1, <3>4
    <3>5. Holds(f, e, 0, m)
      BY <3>3 DEF Holds
    <3>2. Below(f, 0 + k) = Below(e, k)
      BY <3>3, <3>5, SameBelow
    <3> QED
      BY <3>1, <3>2 DEF AllSelected
  <2> QED
    BY <2>1, <2>2
<1>5. AllSelected(ts, f)
  BY <1>2, <1>4 DEF AllSelected
<1> QED
  BY <1>5 DEF f

\* A leaf.
LEMMA LeafSelected ==
  ASSUME NEW ts, NEW op, NEW lexeme, NEW i, Leaf(op, lexeme, i) \in Trees,
         Selected(ts, Leaf(op, lexeme, i))
  PROVE  AllSelected(ts, Leaf(op, lexeme, i))
<1> DEFINE e == Leaf(op, lexeme, i)
<1>1. Len(e) = 1
  BY DEF Leaf
<1>2. e \in Trees /\ Selected(ts, e)
  OBVIOUS
<1> HIDE DEF e
<1>3. Below(e, 1) = e
  BY <1>1, <1>2, BelowRoot
<1>4. \A k \in 1 .. Len(e) : k = 1
  BY <1>1
<1>5. AllSelected(ts, e)
  BY <1>2, <1>3, <1>4 DEF AllSelected
<1> QED
  BY <1>5 DEF e

-----------------------------------------------------------------------------
(* What is parsed is selected by its spans                                 *)

\* What expressions in braces are parsed to: what they are in any piece, and
\* what their spans select.
Ready(ts, inner) ==
  /\ IsStream(ts) /\ Listed(ts, Len(ts)) /\ Depths # 0 /\ inner \in Inner(ts)
  /\ \A us, d, q : IsCut(ts, us, d, q) =>
       Inside(us) \in Inner(us) /\ AllCarry(inner, Inside(us), d, q)
  /\ \A j \in DOMAIN ts : inner[j].ok => AllSelected(ts, inner[j].value)

\* Where the text of what is parsed is, and that it is parsed from its start.
LEMMA WhereCut ==
  ASSUME NEW ts, IsStream(ts), NEW i \in DOMAIN ts, NEW level, NEW r \in ParsedTrees(ts, i, level),
         r.ok
  PROVE  /\ i \in i - 1 + 1 .. r.next - 1 /\ i - (i - 1) = 1
         /\ r.next = r.next - 1 + 1 /\ r.next <= r.next - 1 + 1
<1> DEFINE next == r.next
<1>1. i \in Nat /\ i > 0 /\ next \in Nat /\ next > i
  BY ParsedOn, TokenAfter
<1> HIDE DEF next
<1>2. /\ i \in i - 1 + 1 .. next - 1 /\ i - (i - 1) = 1
      /\ next = next - 1 + 1 /\ next <= next - 1 + 1
  BY <1>1
<1> QED
  BY <1>2 DEF next

\* What a piece carries is parsed alone.
LEMMA RootSelected ==
  ASSUME NEW ts, NEW inner, Ready(ts, inner), NEW i \in DOMAIN ts, NEW level,
         NEW r \in ParsedTrees(ts, i, level), r.ok,
         \A us, d, q : IsCut(ts, us, d, q) /\ i \in d + 1 .. q =>
           \/ Carries(r, ParseAtom(us, i - d, Inside(us)), d, q)
           \/ Carries(r, ParsePower(us, i - d, Inside(us)), d, q)
           \/ Carries(r, ParseExponent(us, i - d), d, q)
           \/ Carries(r, ParseUnary(us, i - d, Inside(us)), d, q)
  PROVE  Selected(ts, r.value)
<1> DEFINE d == i - 1
           q == r.next - 1
           v == Moved(r.value, d)
           next == r.next - d
<1>1. IsStream(ts) /\ Listed(ts, Len(ts)) /\ Depths # 0
  BY DEF Ready
<1>2. i \in d + 1 .. q /\ i - d = 1 /\ r.next <= q + 1
  BY <1>1, WhereCut
<1> HIDE DEF d, q
<1>3. ASSUME NEW us, IsCut(ts, us, d, q)
      PROVE  \/ ParseAtom(us, 1, Inside(us)) = Parsed(v, next)
             \/ ParsePower(us, 1, Inside(us)) = Parsed(v, next)
             \/ ParseExponent(us, 1) = Parsed(v, next)
             \/ ParseUnary(us, 1, Inside(us)) = Parsed(v, next)
  <2>1. \/ Carries(r, ParseAtom(us, i - d, Inside(us)), d, q)
        \/ Carries(r, ParsePower(us, i - d, Inside(us)), d, q)
        \/ Carries(r, ParseExponent(us, i - d), d, q)
        \/ Carries(r, ParseUnary(us, i - d, Inside(us)), d, q)
    BY <1>2, <1>3
  <2>2. \A s : Carries(r, s, d, q) => s = Parsed(v, next)
    BY <1>2 DEF Carries
  <2> HIDE DEF v, next
  <2> QED
    BY <1>2, <2>1, <2>2
<1>4. \A us : IsCut(ts, us, i - 1, r.next - 1) =>
        LET w == Moved(r.value, i - 1)
            k == r.next - (i - 1)
        IN \/ ParseAtom(us, 1, Inside(us)) = Parsed(w, k)
           \/ ParsePower(us, 1, Inside(us)) = Parsed(w, k)
           \/ ParseExponent(us, 1) = Parsed(w, k)
           \/ ParseUnary(us, 1, Inside(us)) = Parsed(w, k)
           \/ ParseProduct(us, 1, Inside(us)) = Parsed(w, k)
           \/ ParseSum(us, 1, Inside(us)) = Parsed(w, k)
  BY <1>3 DEF d, q
<1> QED
  BY <1>1, <1>4, SelectedIf

\* Braces.
LEMMA BracedSelects ==
  ASSUME NEW ts, NEW inner, Ready(ts, inner), NEW i \in DOMAIN ts, Braced(ts, i, inner).ok
  PROVE  LET r == Braced(ts, i, inner) IN
         /\ r.value.e \in Trees /\ AllSelected(ts, r.value.e) /\ r.value.close \in Nat
         /\ r.next \in DOMAIN ts
<1>1. IsStream(ts) /\ inner \in Inner(ts) /\ \A j \in DOMAIN ts : inner[j].ok => AllSelected(ts, inner[j].value)
  BY DEF Ready
<1> DEFINE e == inner[i + 1]
           r == Braced(ts, i, inner)
<1>2. /\ i + 1 \in DOMAIN ts /\ e.ok /\ e.value \in Trees /\ e.next \in Nat
      /\ r.value.e = e.value /\ r.value.close = e.next /\ r.next \in DOMAIN ts
  BY <1>1, BracedIs
<1>3. AllSelected(ts, e.value)
  BY <1>1, <1>2
<1> HIDE DEF e, r
<1>4. /\ r.value.e \in Trees /\ AllSelected(ts, r.value.e) /\ r.value.close \in Nat
      /\ r.next \in DOMAIN ts
  BY <1>2, <1>3
<1> QED
  BY <1>4 DEF r

\* _parse_fraction, _parse_sqrt and _parse_group.
LEMMA BracedAtomSelects ==
  ASSUME NEW ts, NEW inner, Ready(ts, inner), NEW i \in DOMAIN ts,
         ts[i].type \in {"FRAC", "SQRT", "LBRACE"}, ParseBracedAtom(ts, i, inner).ok,
         Selected(ts, ParseBracedAtom(ts, i, inner).value)
  PROVE  AllSelected(ts, ParseBracedAtom(ts, i, inner).value)
<1>1. IsStream(ts)
  BY DEF Ready
<1>2. i \in Nat /\ i + 1 \in DOMAIN ts
  BY <1>1, TokenAfter
<1> DEFINE b(j) == Braced(ts, j, inner)
           r == ParseBracedAtom(ts, i, inner)
<1>3. ASSUME NEW j \in DOMAIN ts, b(j).ok
      PROVE  /\ b(j).value.e \in Trees /\ AllSelected(ts, b(j).value.e) /\ b(j).value.close \in Nat
             /\ b(j).next \in DOMAIN ts
  BY <1>3, BracedSelects
<1>4. r.ok /\ Selected(ts, r.value)
  OBVIOUS
<1>5. CASE ts[i].type = "FRAC"
  <2> DEFINE num == b(i + 1)
             den == b(num.next)
             e == Binary("frac", num.value.e, den.value.e, i, den.value.close)
  <2>1. r = IF num.ok THEN IF den.ok THEN Parsed(e, den.next) ELSE den ELSE num
    BY <1>5 DEF ParseBracedAtom, Then
  <2> HIDE DEF b, r
  <2>2. num.ok /\ den.ok /\ r.value = e
    <3> HIDE DEF num, den, e
    <3> QED
      BY <1>4, <2>1 DEF Parsed
  <2>3. num.value.e \in Trees /\ AllSelected(ts, num.value.e) /\ num.next \in DOMAIN ts
    BY <1>2, <1>3, <2>2
  <2>4. den.value.e \in Trees /\ AllSelected(ts, den.value.e) /\ den.value.close \in Nat
    BY <1>3, <2>2, <2>3
  <2>5. "frac" \in Binaries
    BY DEF Binaries
  <2>6. Selected(ts, e)
    BY <1>4, <2>2
  <2> HIDE DEF num, den
  <2>7. AllSelected(ts, e)
    BY <1>2, <2>3, <2>4, <2>5, <2>6, BinarySelected
  <2> QED
    BY <2>2, <2>7 DEF r
<1>6. CASE ts[i].type = "SQRT"
  <2> DEFINE arg == b(i + 1)
             e == Unary("sqrt", arg.value.e, i, arg.value.close)
  <2>1. r = IF arg.ok THEN Parsed(e, arg.next) ELSE arg
    BY <1>6 DEF ParseBracedAtom, Then
  <2> HIDE DEF b, r
  <2>2. arg.ok /\ r.value = e
    <3> HIDE DEF arg, e
    <3> QED
      BY <1>4, <2>1 DEF Parsed
  <2>3. arg.value.e \in Trees /\ AllSelected(ts, arg.value.e) /\ arg.value.close \in Nat
    BY <1>2, <1>3, <2>2
  <2>4. Selected(ts, e) /\ "sqrt" \in Unaries \cup {"sqrt"}
    BY <1>4, <2>2
  <2> HIDE DEF arg
  <2>5. AllSelected(ts, e)
    BY <1>2, <2>3, <2>4, UnarySelected
  <2> QED
    BY <2>2, <2>5 DEF r
<1>7. CASE ts[i].type = "LBRACE"
  <2> DEFINE group == b(i)
             e == Regroup(group.value.e, i, group.value.close)
  <2>1. r = IF group.ok THEN Parsed(e, group.next) ELSE group
    BY <1>7 DEF ParseBracedAtom, Then
  <2> HIDE DEF b, r
  <2>2. group.ok /\ r.value = e
    <3> HIDE DEF group, e
    <3> QED
      BY <1>4, <2>1 DEF Parsed
  <2>3. group.value.e \in Trees /\ AllSelected(ts, group.value.e) /\ group.value.close \in Nat
    BY <1>3, <2>2
  <2>4. Selected(ts, e)
    BY <1>4, <2>2
  <2> HIDE DEF group
  <2>5. AllSelected(ts, e)
    BY <1>2, <2>3, <2>4, RegroupSelected
  <2> QED
    BY <2>2, <2>5 DEF r
<1> QED
  BY <1>5, <1>6, <1>7

\* _parse_atom.
LEMMA AtomSelects ==
  ASSUME NEW ts, NEW inner, Ready(ts, inner), NEW i \in DOMAIN ts, ParseAtom(ts, i, inner).ok
  PROVE  AllSelected(ts, ParseAtom(ts, i, inner).value)
<1> DEFINE r == ParseAtom(ts, i, inner)
<1>1. IsStream(ts) /\ inner \in Inner(ts)
  BY DEF Ready
<1>2. r \in ParsedTrees(ts, i, 5)
  BY <1>1, AtomType
<1>3. \A us, d, q : IsCut(ts, us, d, q) /\ i \in d + 1 .. q =>
        Carries(r, ParseAtom(us, i - d, Inside(us)), d, q)
  <2> TAKE us, d, q
  <2> HAVE IsCut(ts, us, d, q) /\ i \in d + 1 .. q
  <2>1. AllCarry(inner, Inside(us), d, q)
    BY DEF Ready
  <2> QED
    BY <1>1, <2>1, CutAtom
<1>4. r.ok
  OBVIOUS
<1> HIDE DEF r
<1>5. Selected(ts, r.value) /\ r.value \in Trees
  BY <1>2, <1>3, <1>4, RootSelected, TreeCases
<1>6. ASSUME NEW op, r = Parsed(Leaf(op, ts[i].lexeme, i), i + 1) PROVE AllSelected(ts, r.value)
  <2>1. r.value = Leaf(op, ts[i].lexeme, i)
    BY <1>6 DEF Parsed
  <2> QED
    BY <1>5, <2>1, LeafSelected
<1>7. CASE ts[i].type \in {"FRAC", "SQRT", "LBRACE"}
  <2>1. r = ParseBracedAtom(ts, i, inner)
    BY <1>7 DEF ParseAtom, r
  <2> DEFINE b == ParseBracedAtom(ts, i, inner)
  <2>2. b.ok /\ Selected(ts, b.value)
    BY <1>4, <1>5, <2>1
  <2>3. AllSelected(ts, b.value)
    BY <1>7, <2>2, BracedAtomSelects
  <2> HIDE DEF b
  <2> QED
    BY <2>1, <2>3 DEF b, r
<1>8. CASE ts[i].type \notin {"FRAC", "SQRT", "LBRACE"}
  <2>1. /\ ts[i].type = "VARIABLE" => r = Parsed(Leaf("variable", ts[i].lexeme, i), i + 1)
        /\ ts[i].type = "NUMBER" => r = Parsed(Leaf("number", ts[i].lexeme, i), i + 1)
        /\ ts[i].type \notin {"VARIABLE", "NUMBER"} => r = Failed("SYN041", i)
    BY <1>8 DEF ParseAtom, r
  <2>2. ~Failed("SYN041", i).ok
    BY DEF Failed
  <2>3. CASE ts[i].type = "VARIABLE"
    BY <1>6, <2>1, <2>3 DEF r
  <2>4. CASE ts[i].type = "NUMBER"
    BY <1>6, <2>1, <2>4 DEF r
  <2>5. ts[i].type \in {"VARIABLE", "NUMBER"}
    BY <1>4, <2>1, <2>2
  <2> QED
    BY <2>3, <2>4, <2>5
<1> QED
  BY <1>7, <1>8 DEF r

\* _parse_signed_number_node.
LEMMA ExponentSelects ==
  ASSUME NEW ts, NEW inner, Ready(ts, inner), NEW i \in DOMAIN ts, ParseExponent(ts, i).ok
  PROVE  AllSelected(ts, ParseExponent(ts, i).value)
<1> DEFINE r == ParseExponent(ts, i)
           leaf(j) == Leaf("number", ts[j].lexeme, j)
<1>1. IsStream(ts)
  BY DEF Ready
<1>2. r \in ParsedTrees(ts, i, 3) /\ i \in Nat
  BY <1>1, ExponentType, TokenAfter
<1>3. \A us, d, q : IsCut(ts, us, d, q) /\ i \in d + 1 .. q =>
        Carries(r, ParseExponent(us, i - d), d, q)
  BY CutExponent
<1>4. r.ok
  OBVIOUS
<1>5. ASSUME NEW j \in DOMAIN ts, ts[j].type = "NUMBER"
      PROVE  leaf(j) \in Trees /\ AllSelected(ts, leaf(j))
  <2>1. ParseAtom(ts, j, inner) = Parsed(leaf(j), j + 1)
    BY <1>5 DEF ParseAtom
  <2> HIDE DEF leaf
  <2>2. ParseAtom(ts, j, inner).ok /\ ParseAtom(ts, j, inner).value = leaf(j)
    BY <2>1 DEF Parsed
  <2>3. AllSelected(ts, leaf(j))
    BY <2>2, AtomSelects
  <2> QED
    BY <1>1, <1>5, <2>3, NumberLeaf DEF leaf
<1>6. /\ ts[i].type \in {"PLUS", "MINUS"} =>
           /\ i + 1 \in DOMAIN ts
           /\ ts[i + 1].type = "NUMBER" =>
                r = Parsed(Unary(SignOf(ts[i]), leaf(i + 1), i, i + 1), i + 2)
           /\ ts[i + 1].type # "NUMBER" => ~r.ok
      /\ ts[i].type \notin {"PLUS", "MINUS"} =>
           /\ ts[i].type = "NUMBER" => r = Parsed(leaf(i), i + 1)
           /\ ts[i].type # "NUMBER" => ~r.ok
  BY <1>1, ExponentIs
<1> HIDE DEF r, leaf
<1>7. Selected(ts, r.value)
  BY <1>2, <1>3, <1>4, RootSelected
<1>8. CASE ts[i].type \in {"PLUS", "MINUS"}
  <2> DEFINE e == Unary(SignOf(ts[i]), leaf(i + 1), i, i + 1)
  <2>1. i + 1 \in DOMAIN ts /\ ts[i + 1].type = "NUMBER" /\ r = Parsed(e, i + 2)
    BY <1>4, <1>6, <1>8
  <2>2. leaf(i + 1) \in Trees /\ AllSelected(ts, leaf(i + 1))
    BY <1>5, <2>1
  <2>3. r.value = e
    BY <2>1 DEF Parsed
  <2>4. SignOf(ts[i]) \in Unaries \cup {"sqrt"} /\ i + 1 \in Nat /\ Selected(ts, e)
    BY <1>2, <1>7, <2>3 DEF SignOf, Unaries
  <2>5. AllSelected(ts, e)
    <3> DEFINE op == SignOf(ts[i])
               o == leaf(i + 1)
               to == i + 1
    <3>1. /\ op \in Unaries \cup {"sqrt"} /\ o \in Trees /\ i \in Nat /\ to \in Nat
          /\ AllSelected(ts, o) /\ Selected(ts, Unary(op, o, i, to))
      BY <1>2, <2>2, <2>4
    <3> HIDE DEF op, o, to
    <3>2. AllSelected(ts, Unary(op, o, i, to))
      BY <3>1, UnarySelected
    <3> QED
      BY <3>2 DEF op, o, to
  <2> QED
    BY <2>3, <2>5 DEF r
<1>9. CASE ts[i].type \notin {"PLUS", "MINUS"}
  <2>1. ts[i].type = "NUMBER" /\ r = Parsed(leaf(i), i + 1)
    BY <1>4, <1>6, <1>9
  <2>2. r.value = leaf(i)
    BY <2>1 DEF Parsed
  <2> QED
    BY <1>5, <2>1, <2>2 DEF r
<1> QED
  BY <1>8, <1>9 DEF r

\* _parse_power.
LEMMA PowerSelects ==
  ASSUME NEW ts, NEW inner, Ready(ts, inner), NEW i \in DOMAIN ts, ParsePower(ts, i, inner).ok
  PROVE  AllSelected(ts, ParsePower(ts, i, inner).value)
<1> DEFINE r == ParsePower(ts, i, inner)
           base == ParseAtom(ts, i, inner)
           exponent == ParseExponent(ts, base.next + 1)
           e == Binary("power", base.value, exponent.value, i, Span(exponent.value)[2])
<1>1. IsStream(ts) /\ inner \in Inner(ts)
  BY DEF Ready
<1>2. r \in ParsedTrees(ts, i, 4) /\ i \in Nat
  BY <1>1, PowerType, TokenAfter
<1>3. \A us, d, q : IsCut(ts, us, d, q) /\ i \in d + 1 .. q =>
        Carries(r, ParsePower(us, i - d, Inside(us)), d, q)
  <2> TAKE us, d, q
  <2> HAVE IsCut(ts, us, d, q) /\ i \in d + 1 .. q
  <2>1. AllCarry(inner, Inside(us), d, q)
    BY DEF Ready
  <2> QED
    BY <1>1, <2>1, CutPower
<1>4. r.ok
  OBVIOUS
<1>5. r = IF base.ok
          THEN IF ts[base.next].type = "POWER"
               THEN IF exponent.ok THEN Parsed(e, exponent.next) ELSE exponent
               ELSE Parsed(base.value, base.next)
          ELSE base
  BY DEF ParsePower, Then
<1> HIDE DEF r
<1>6. Selected(ts, r.value)
  BY <1>2, <1>3, <1>4, RootSelected
<1>7. base.ok => base.value \in Trees /\ base.next \in DOMAIN ts /\ AllSelected(ts, base.value)
  <2>1. base \in ParsedTrees(ts, i, 5)
    BY <1>1, AtomType
  <2>2. base.ok => AllSelected(ts, base.value)
    BY AtomSelects
  <2> HIDE DEF base
  <2> QED
    BY <2>1, <2>2, TreeCases
<1> HIDE DEF base
<1>8. base.ok
  <2> HIDE DEF exponent, e
  <2> QED
    BY <1>4, <1>5
<1>9. CASE ts[base.next].type = "POWER"
  <2>1. exponent.ok /\ r = Parsed(e, exponent.next)
    <3> HIDE DEF exponent, e
    <3> QED
      BY <1>4, <1>5, <1>8, <1>9
  <2>2. base.next + 1 \in DOMAIN ts
    BY <1>1, <1>7, <1>8, <1>9, TokenAfter
  <2>3. exponent \in ParsedTrees(ts, base.next + 1, 3)
    BY <1>1, <2>2, ExponentType
  <2>4. AllSelected(ts, exponent.value)
    BY <2>1, <2>2, ExponentSelects
  <2> HIDE DEF exponent
  <2>5. exponent.value \in Trees /\ Span(exponent.value)[2] \in Nat
    BY <2>1, <2>3, ParsedOn
  <2>6. r.value = e /\ "power" \in Binaries
    BY <2>1 DEF Parsed, Binaries
  <2>7. AllSelected(ts, e)
    <3> DEFINE l == base.value
               o == exponent.value
               to == Span(o)[2]
    <3>1. /\ "power" \in Binaries /\ l \in Trees /\ o \in Trees /\ i \in Nat /\ to \in Nat
          /\ AllSelected(ts, l) /\ AllSelected(ts, o) /\ Selected(ts, Binary("power", l, o, i, to))
      BY <1>2, <1>6, <1>7, <1>8, <2>4, <2>5, <2>6
    <3> HIDE DEF l, o, to
    <3>2. AllSelected(ts, Binary("power", l, o, i, to))
      BY <3>1, BinarySelected
    <3> QED
      BY <3>2 DEF l, o, to
  <2> QED
    BY <2>6, <2>7 DEF r
<1>10. CASE ts[base.next].type # "POWER"
  <2>1. r = Parsed(base.value, base.next)
    <3> HIDE DEF exponent, e
    <3> QED
      BY <1>5, <1>8, <1>10
  <2>2. r.value = base.value
    BY <2>1 DEF Parsed
  <2> QED
    BY <1>7, <1>8, <2>2 DEF r
<1> QED
  BY <1>9, <1>10

\* _parse_unary.
LEMMA UnarySelects ==
  ASSUME NEW ts, NEW inner, Ready(ts, inner), NEW i \in DOMAIN ts, ParseUnary(ts, i, inner).ok
  PROVE  AllSelected(ts, ParseUnary(ts, i, inner).value)
<1> DEFINE r == ParseUnary(ts, i, inner)
           operand == ParsePower(ts, i + 1, inner)
           e == Unary(SignOf(ts[i]), operand.value, i, Span(operand.value)[2])
<1>1. IsStream(ts) /\ inner \in Inner(ts)
  BY DEF Ready
<1>2. r \in ParsedTrees(ts, i, 3) /\ i \in Nat
  BY <1>1, UnaryType, TokenAfter
<1>3. \A us, d, q : IsCut(ts, us, d, q) /\ i \in d + 1 .. q =>
        Carries(r, ParseUnary(us, i - d, Inside(us)), d, q)
  <2> TAKE us, d, q
  <2> HAVE IsCut(ts, us, d, q) /\ i \in d + 1 .. q
  <2>1. AllCarry(inner, Inside(us), d, q)
    BY DEF Ready
  <2> QED
    BY <1>1, <2>1, CutUnary
<1>4. r.ok
  OBVIOUS
<1>5. /\ ts[i].type \in {"PLUS", "MINUS"} =>
           r = IF operand.ok THEN Parsed(e, operand.next) ELSE operand
      /\ ts[i].type \notin {"PLUS", "MINUS"} => r = ParsePower(ts, i, inner)
  BY DEF ParseUnary, Then
<1> HIDE DEF r
<1>6. Selected(ts, r.value)
  BY <1>2, <1>3, <1>4, RootSelected
<1>7. CASE ts[i].type \in {"PLUS", "MINUS"}
  <2>1. operand.ok /\ r = Parsed(e, operand.next)
    <3> HIDE DEF operand, e
    <3> QED
      BY <1>4, <1>5, <1>7
  <2>2. i + 1 \in DOMAIN ts
    BY <1>1, <1>7, TokenAfter
  <2>3. operand \in ParsedTrees(ts, i + 1, 4)
    BY <1>1, <2>2, PowerType
  <2>4. AllSelected(ts, operand.value)
    BY <2>1, <2>2, PowerSelects
  <2> HIDE DEF operand
  <2>5. operand.value \in Trees /\ Span(operand.value)[2] \in Nat
    BY <2>1, <2>3, ParsedOn
  <2>6. r.value = e /\ SignOf(ts[i]) \in Unaries \cup {"sqrt"}
    BY <2>1 DEF Parsed, SignOf, Unaries
  <2>7. AllSelected(ts, e)
    <3> DEFINE op == SignOf(ts[i])
               o == operand.value
               to == Span(o)[2]
    <3>1. /\ op \in Unaries \cup {"sqrt"} /\ o \in Trees /\ i \in Nat /\ to \in Nat
          /\ AllSelected(ts, o) /\ Selected(ts, Unary(op, o, i, to))
      BY <1>2, <1>6, <2>4, <2>5, <2>6
    <3> HIDE DEF op, o, to
    <3>2. AllSelected(ts, Unary(op, o, i, to))
      BY <3>1, UnarySelected
    <3> QED
      BY <3>2 DEF op, o, to
  <2> QED
    BY <2>6, <2>7 DEF r
<1>8. CASE ts[i].type \notin {"PLUS", "MINUS"}
  <2>1. r = ParsePower(ts, i, inner)
    BY <1>5, <1>8
  <2>2. ParsePower(ts, i, inner).ok
    BY <1>4, <2>1
  <2>3. AllSelected(ts, ParsePower(ts, i, inner).value)
    BY <2>2, PowerSelects
  <2> QED
    BY <2>1, <2>3 DEF r
<1> QED
  BY <1>7, <1>8

\* One round of the loop of _parse_product.
LEMMA FactorSelects ==
  ASSUME NEW ts, NEW inner, Ready(ts, inner), NEW j \in DOMAIN ts, NEW left \in Trees,
         AllSelected(ts, left), ts[j].type \in FactorTypes, NextFactor(ts, left, j, inner).ok,
         Selected(ts, NextFactor(ts, left, j, inner).value)
  PROVE  AllSelected(ts, NextFactor(ts, left, j, inner).value)
<1> DEFINE explicit == ts[j].type \in {"MULT", "DIV"}
           op == IF explicit THEN ProductOf(ts[j].type) ELSE "juxt"
           right == IF explicit THEN ParseUnary(ts, j + 1, inner) ELSE ParsePower(ts, j, inner)
           e == Joined(op, left, right.value)
           r == NextFactor(ts, left, j, inner)
<1>1. IsStream(ts) /\ inner \in Inner(ts)
  BY DEF Ready
<1>2. r = IF right.ok THEN Parsed(e, right.next) ELSE right
  BY DEF NextFactor, Then
<1>3. op \in Binaries
  BY DEF ProductOf, Binaries, Products
<1>4. right.ok => right.value \in Trees /\ AllSelected(ts, right.value)
  <2>1. CASE explicit
    <3>1. j + 1 \in DOMAIN ts
      BY <1>1, <2>1, TokenAfter
    <3>2. right = ParseUnary(ts, j + 1, inner)
      BY <2>1
    <3>3. right \in ParsedTrees(ts, j + 1, 3)
      BY <1>1, <3>1, <3>2, UnaryType
    <3>4. right.ok => AllSelected(ts, right.value)
      BY <3>1, <3>2, UnarySelects
    <3> HIDE DEF right
    <3> QED
      BY <3>3, <3>4, TreeCases
  <2>2. CASE ~explicit
    <3>2. right = ParsePower(ts, j, inner)
      BY <2>2
    <3>3. right \in ParsedTrees(ts, j, 4)
      BY <1>1, <3>2, PowerType
    <3>4. right.ok => AllSelected(ts, right.value)
      BY <3>2, PowerSelects
    <3> HIDE DEF right
    <3> QED
      BY <3>3, <3>4, TreeCases
  <2> QED
    BY <2>1, <2>2
<1>5. r.ok /\ Selected(ts, r.value)
  OBVIOUS
<1> HIDE DEF r, op, right
<1>6. right.ok /\ r.value = e
  <2> HIDE DEF e
  <2> QED
    BY <1>2, <1>5 DEF Parsed
<1>7. e = Binary(op, left, right.value, Span(left)[1], Span(right.value)[2])
  BY DEF Joined
<1>8. Span(left)[1] \in Nat /\ Span(right.value)[2] \in Nat
  BY <1>4, <1>6, SpanType
<1>9. AllSelected(ts, e)
  <2> DEFINE o == right.value
             from == Span(left)[1]
             to == Span(o)[2]
  <2>1. /\ op \in Binaries /\ o \in Trees /\ from \in Nat /\ to \in Nat
        /\ AllSelected(ts, o) /\ Selected(ts, Binary(op, left, o, from, to))
    BY <1>3, <1>4, <1>5, <1>6, <1>7, <1>8
  <2> HIDE DEF o, from, to
  <2>2. AllSelected(ts, Binary(op, left, o, from, to))
    BY <2>1, BinarySelected
  <2> QED
    BY <1>7, <2>2 DEF o, from, to
<1> QED
  BY <1>6, <1>9 DEF r

\* The rounds of the loop of _parse_product.
LEMMA FactorsSelect ==
  ASSUME NEW ts, NEW inner, Ready(ts, inner), NEW i \in DOMAIN ts, NEW after,
         Rounds(after, ts, i, 2, ParseUnary(ts, i, inner), FactorTypes, FactorRound(ts, i, inner))
  PROVE  \A n \in 0 .. Len(ts) : after[n].ok => AllSelected(ts, after[n].value)
<1> DEFINE N == Len(ts)
           V == ParsedTrees(ts, i, 2)
           S == {r \in V : r.ok => AllSelected(ts, r.value)}
           first == ParseUnary(ts, i, inner)
           round == FactorRound(ts, i, inner)
           goesOn(r) == GoesOn(ts, FactorTypes, r)
<1>0. Rounds(after, ts, i, 2, first, FactorTypes, round)
  OBVIOUS
<1>1. /\ IsStream(ts) /\ inner \in Inner(ts) /\ N \in Nat /\ Depths # 0
      /\ Listed(ts, Len(ts))
  BY DEF Ready, IsStream
<1>2. /\ after[0] = first /\ \A n \in 0 .. N : after[n] \in V
      /\ \A n \in 1 .. N :
           /\ after[n - 1] \in V
           /\ goesOn(after[n - 1]) => after[n] = round[after[n - 1]]
           /\ ~goesOn(after[n - 1]) => after[n] = after[n - 1]
  <2> HIDE DEF first, round
  <2> QED
    BY <1>0, <1>1, RoundAfter
<1>3. first.ok => AllSelected(ts, first.value)
  BY UnarySelects
<1>4. \A r \in V : goesOn(r) => round[r] = NextFactor(ts, r.value, r.next, inner)
  BY <1>1, FactorRounds
<1>5. ASSUME NEW n \in 0 .. N, after[n].ok PROVE Selected(ts, after[n].value)
  <2> DEFINE r == after[n]
             d == i - 1
             q == r.next - 1
             v == Moved(r.value, d)
             k == r.next - d
  <2>1. r \in V /\ r.ok
    BY <1>2, <1>5
  <2>2. i \in d + 1 .. q /\ i - d = 1 /\ r.next = q + 1 /\ r.next <= q + 1
    BY <1>1, <2>1, WhereCut
  <2> HIDE DEF d, q
  <2>3. ASSUME NEW us, IsCut(ts, us, d, q) PROVE ParseProduct(us, 1, Inside(us)) = Parsed(v, k)
    <3>1. Inside(us) \in Inner(us) /\ AllCarry(inner, Inside(us), d, q)
      BY <2>3 DEF Ready
    <3>2. ParseProduct(us, i - d, Inside(us)) = Parsed(Moved(after[n].value, d), after[n].next - d)
      BY <1>1, <2>1, <2>2, <2>3, <3>1, CutFactors
    <3> QED
      BY <2>2, <3>2
  <2>4. \A us : IsCut(ts, us, i - 1, r.next - 1) =>
          LET w == Moved(r.value, i - 1)
              next == r.next - (i - 1)
          IN \/ ParseAtom(us, 1, Inside(us)) = Parsed(w, next)
             \/ ParsePower(us, 1, Inside(us)) = Parsed(w, next)
             \/ ParseExponent(us, 1) = Parsed(w, next)
             \/ ParseUnary(us, 1, Inside(us)) = Parsed(w, next)
             \/ ParseProduct(us, 1, Inside(us)) = Parsed(w, next)
             \/ ParseSum(us, 1, Inside(us)) = Parsed(w, next)
    BY <2>3 DEF d, q
  <2> HIDE DEF r
  <2>5. Selected(ts, r.value)
    BY <1>1, <2>1, <2>4, SelectedIf
  <2> QED
    BY <2>5 DEF r
<1> HIDE DEF first, round, goesOn, V, N
<1>6. Keeps(after, N, S)
  <2> SUFFICES ASSUME NEW n \in 0 .. N, n # 0 => after[n - 1] \in S, after[n].ok
               PROVE  AllSelected(ts, after[n].value)
    BY <1>2 DEF Keeps
  <2>1. CASE n = 0
    BY <1>2, <1>3, <2>1
  <2>2. CASE n # 0
    <3> DEFINE r == after[n - 1]
    <3>1. n \in 1 .. N
      BY <1>1, <2>2
    <3>2. /\ r \in V /\ (r.ok => AllSelected(ts, r.value))
          /\ goesOn(r) => after[n] = round[r]
          /\ ~goesOn(r) => after[n] = r
      BY <1>2, <2>2, <3>1
    <3> HIDE DEF r, S
    <3>3. CASE goesOn(r)
      <4> DEFINE e == r.value
                 j == r.next
                 f == NextFactor(ts, e, j, inner)
      <4>1. r.ok /\ ts[j].type \in FactorTypes
        BY <3>3 DEF goesOn, GoesOn
      <4>2. e \in Trees /\ j \in DOMAIN ts
        BY <3>2, <4>1, TreeCases DEF V
      <4>3. after[n] = f
        BY <1>4, <3>2, <3>3
      <4> HIDE DEF e, j
      <4>4. AllSelected(ts, e) /\ f.ok /\ Selected(ts, f.value)
        BY <1>5, <3>2, <4>1, <4>3 DEF e
      <4>5. AllSelected(ts, f.value)
        BY <4>1, <4>2, <4>4, FactorSelects
      <4> QED
        BY <4>3, <4>5
    <3>4. CASE ~goesOn(r)
      BY <3>2, <3>4
    <3> QED
      BY <3>3, <3>4
  <2> QED
    BY <2>1, <2>2
<1>7. \A n \in 0 .. N : after[n] \in S
  BY <1>1, <1>6, LoopStays
<1> QED
  BY <1>7 DEF N

\* _parse_product.
LEMMA ProductSelects ==
  ASSUME NEW ts, NEW inner, Ready(ts, inner), NEW i \in DOMAIN ts, ParseProduct(ts, i, inner).ok
  PROVE  AllSelected(ts, ParseProduct(ts, i, inner).value)
<1>1. IsStream(ts) /\ inner \in Inner(ts) /\ Len(ts) \in 0 .. Len(ts)
  BY DEF Ready, IsStream
<1>2. PICK after :
        /\ Rounds(after, ts, i, 2, ParseUnary(ts, i, inner), FactorTypes, FactorRound(ts, i, inner))
        /\ ParseProduct(ts, i, inner) = after[Len(ts)]
  BY <1>1, ProductRounds
<1>3. \A n \in 0 .. Len(ts) : after[n].ok => AllSelected(ts, after[n].value)
  BY <1>2, FactorsSelect
<1> QED
  BY <1>1, <1>2, <1>3

\* One round of the loop of _parse_sum.
LEMMA TermSelects ==
  ASSUME NEW ts, NEW inner, Ready(ts, inner), NEW j \in DOMAIN ts, NEW left \in Trees,
         AllSelected(ts, left), ts[j].type \in SumTypes, NextTerm(ts, left, j, inner).ok,
         Selected(ts, NextTerm(ts, left, j, inner).value)
  PROVE  AllSelected(ts, NextTerm(ts, left, j, inner).value)
<1> DEFINE op == SumOf(ts[j].type)
           right == ParseProduct(ts, j + 1, inner)
           e == Joined(op, left, right.value)
           r == NextTerm(ts, left, j, inner)
<1>1. IsStream(ts) /\ inner \in Inner(ts)
  BY DEF Ready
<1>2. r = IF right.ok THEN Parsed(e, right.next) ELSE right
  BY DEF NextTerm
<1>3. op \in Binaries
  BY SumOperator
<1>4. right.ok => right.value \in Trees /\ AllSelected(ts, right.value)
  <2>1. j + 1 \in DOMAIN ts
    BY <1>1, TokenAfter DEF SumTypes
  <2>2. right \in ParsedTrees(ts, j + 1, 2)
    BY <1>1, <2>1, ProductType
  <2>3. right.ok => AllSelected(ts, right.value)
    BY <2>1, ProductSelects
  <2> HIDE DEF right
  <2> QED
    BY <2>2, <2>3, TreeCases
<1>5. r.ok /\ Selected(ts, r.value)
  OBVIOUS
<1> HIDE DEF r, op, right
<1>6. right.ok /\ r.value = e
  <2> HIDE DEF e
  <2> QED
    BY <1>2, <1>5 DEF Parsed
<1>7. e = Binary(op, left, right.value, Span(left)[1], Span(right.value)[2])
  BY DEF Joined
<1>8. Span(left)[1] \in Nat /\ Span(right.value)[2] \in Nat
  BY <1>4, <1>6, SpanType
<1>9. AllSelected(ts, e)
  <2> DEFINE o == right.value
             from == Span(left)[1]
             to == Span(o)[2]
  <2>1. /\ op \in Binaries /\ o \in Trees /\ from \in Nat /\ to \in Nat
        /\ AllSelected(ts, o) /\ Selected(ts, Binary(op, left, o, from, to))
    BY <1>3, <1>4, <1>5, <1>6, <1>7, <1>8
  <2> HIDE DEF o, from, to
  <2>2. AllSelected(ts, Binary(op, left, o, from, to))
    BY <2>1, BinarySelected
  <2> QED
    BY <1>7, <2>2 DEF o, from, to
<1> QED
  BY <1>6, <1>9 DEF r

\* The rounds of the loop of _parse_sum.
LEMMA TermsSelect ==
  ASSUME NEW ts, NEW inner, Ready(ts, inner), NEW i \in DOMAIN ts, NEW after,
         Rounds(after, ts, i, 1, ParseProduct(ts, i, inner), SumTypes, TermRound(ts, i, inner))
  PROVE  \A n \in 0 .. Len(ts) : after[n].ok => AllSelected(ts, after[n].value)
<1> DEFINE N == Len(ts)
           V == ParsedTrees(ts, i, 1)
           S == {r \in V : r.ok => AllSelected(ts, r.value)}
           first == ParseProduct(ts, i, inner)
           round == TermRound(ts, i, inner)
           goesOn(r) == GoesOn(ts, SumTypes, r)
<1>0. Rounds(after, ts, i, 1, first, SumTypes, round)
  OBVIOUS
<1>1. /\ IsStream(ts) /\ inner \in Inner(ts) /\ N \in Nat /\ Depths # 0
      /\ Listed(ts, Len(ts))
  BY DEF Ready, IsStream
<1>2. /\ after[0] = first /\ \A n \in 0 .. N : after[n] \in V
      /\ \A n \in 1 .. N :
           /\ after[n - 1] \in V
           /\ goesOn(after[n - 1]) => after[n] = round[after[n - 1]]
           /\ ~goesOn(after[n - 1]) => after[n] = after[n - 1]
  <2> HIDE DEF first, round
  <2> QED
    BY <1>0, <1>1, RoundAfter
<1>3. first.ok => AllSelected(ts, first.value)
  BY ProductSelects
<1>4. \A r \in V : goesOn(r) => round[r] = NextTerm(ts, r.value, r.next, inner)
  BY <1>1, TermRounds
<1>5. ASSUME NEW n \in 0 .. N, after[n].ok PROVE Selected(ts, after[n].value)
  <2> DEFINE r == after[n]
             d == i - 1
             q == r.next - 1
             v == Moved(r.value, d)
             k == r.next - d
  <2>1. r \in V /\ r.ok
    BY <1>2, <1>5
  <2>2. i \in d + 1 .. q /\ i - d = 1 /\ r.next = q + 1 /\ r.next <= q + 1
    BY <1>1, <2>1, WhereCut
  <2> HIDE DEF d, q
  <2>3. ASSUME NEW us, IsCut(ts, us, d, q) PROVE ParseSum(us, 1, Inside(us)) = Parsed(v, k)
    <3>1. Inside(us) \in Inner(us) /\ AllCarry(inner, Inside(us), d, q)
      BY <2>3 DEF Ready
    <3>2. ParseSum(us, i - d, Inside(us)) = Parsed(Moved(after[n].value, d), after[n].next - d)
      BY <1>1, <2>1, <2>2, <2>3, <3>1, CutTerms
    <3> QED
      BY <2>2, <3>2
  <2>4. \A us : IsCut(ts, us, i - 1, r.next - 1) =>
          LET w == Moved(r.value, i - 1)
              next == r.next - (i - 1)
          IN \/ ParseAtom(us, 1, Inside(us)) = Parsed(w, next)
             \/ ParsePower(us, 1, Inside(us)) = Parsed(w, next)
             \/ ParseExponent(us, 1) = Parsed(w, next)
             \/ ParseUnary(us, 1, Inside(us)) = Parsed(w, next)
             \/ ParseProduct(us, 1, Inside(us)) = Parsed(w, next)
             \/ ParseSum(us, 1, Inside(us)) = Parsed(w, next)
    BY <2>3 DEF d, q
  <2> HIDE DEF r
  <2>5. Selected(ts, r.value)
    BY <1>1, <2>1, <2>4, SelectedIf
  <2> QED
    BY <2>5 DEF r
<1> HIDE DEF first, round, goesOn, V, N
<1>6. Keeps(after, N, S)
  <2> SUFFICES ASSUME NEW n \in 0 .. N, n # 0 => after[n - 1] \in S, after[n].ok
               PROVE  AllSelected(ts, after[n].value)
    BY <1>2 DEF Keeps
  <2>1. CASE n = 0
    BY <1>2, <1>3, <2>1
  <2>2. CASE n # 0
    <3> DEFINE r == after[n - 1]
    <3>1. n \in 1 .. N
      BY <1>1, <2>2
    <3>2. /\ r \in V /\ (r.ok => AllSelected(ts, r.value))
          /\ goesOn(r) => after[n] = round[r]
          /\ ~goesOn(r) => after[n] = r
      BY <1>2, <2>2, <3>1
    <3> HIDE DEF r, S
    <3>3. CASE goesOn(r)
      <4> DEFINE e == r.value
                 j == r.next
                 f == NextTerm(ts, e, j, inner)
      <4>1. r.ok /\ ts[j].type \in SumTypes
        BY <3>3 DEF goesOn, GoesOn
      <4>2. e \in Trees /\ j \in DOMAIN ts
        BY <3>2, <4>1, TreeCases DEF V
      <4>3. after[n] = f
        BY <1>4, <3>2, <3>3
      <4> HIDE DEF e, j
      <4>4. AllSelected(ts, e) /\ f.ok /\ Selected(ts, f.value)
        BY <1>5, <3>2, <4>1, <4>3 DEF e
      <4>5. AllSelected(ts, f.value)
        BY <4>1, <4>2, <4>4, TermSelects
      <4> QED
        BY <4>3, <4>5
    <3>4. CASE ~goesOn(r)
      BY <3>2, <3>4
    <3> QED
      BY <3>3, <3>4
  <2> QED
    BY <2>1, <2>2
<1>7. \A n \in 0 .. N : after[n] \in S
  BY <1>1, <1>6, LoopStays
<1> QED
  BY <1>7 DEF N

\* _parse_sum.
LEMMA SumSelects ==
  ASSUME NEW ts, NEW inner, Ready(ts, inner), NEW i \in DOMAIN ts, ParseSum(ts, i, inner).ok
  PROVE  AllSelected(ts, ParseSum(ts, i, inner).value)
<1>1. IsStream(ts) /\ inner \in Inner(ts) /\ Len(ts) \in 0 .. Len(ts)
  BY DEF Ready, IsStream
<1>2. PICK after :
        /\ Rounds(after, ts, i, 1, ParseProduct(ts, i, inner), SumTypes, TermRound(ts, i, inner))
        /\ ParseSum(ts, i, inner) = after[Len(ts)]
  BY <1>1, SumRounds
<1>3. \A n \in 0 .. Len(ts) : after[n].ok => AllSelected(ts, after[n].value)
  BY <1>2, TermsSelect
<1> QED
  BY <1>1, <1>2, <1>3

\* _parse_expression, at every depth.
LEMMA ExpressionsSelect ==
  ASSUME NEW ts, IsStream(ts), Listed(ts, Len(ts))
  PROVE  \A j \in DOMAIN ts : ParseExpression(ts, j).ok => AllSelected(ts, ParseExpression(ts, j).value)
<1> DEFINE f == Expressed(ts)
           selects(n) == \A j \in DOMAIN ts : f[n][j].ok => AllSelected(ts, f[n][j].value)
           H == {n \in 0 .. Depths : selects(n)}
<1>1. Depths \in Nat /\ \A j \in DOMAIN ts : ParseExpression(ts, j) = f[Depths][j]
  BY ExpressionsAre
<1>2. \A n \in 0 .. Depths :
        /\ f[n] \in Inner(ts) /\ (n = 0 => \A j \in DOMAIN ts : ~f[n][j].ok)
        /\ n # 0 => /\ n - 1 \in 0 .. Depths /\ n - 1 \in 0 .. n - 1
                    /\ \A j \in DOMAIN ts : f[n][j] = ParseSum(ts, j, f[n - 1])
  BY DeeperIs
<1>3. ASSUME NEW n \in 0 .. Depths, n # Depths, NEW us, NEW d, NEW q, IsCut(ts, us, d, q)
      PROVE  Inside(us) \in Inner(us) /\ AllCarry(f[n], Inside(us), d, q)
  <2>1. Depths - 1 \in n .. Depths /\ Depths - 1 \in 0 .. Depths
    BY <1>1, <1>3
  <2>2. IsStream(us)
    BY <1>3 DEF IsCut
  <2>3. Inside(us) \in Inner(us)
    BY <2>1, <2>2, DeeperIs DEF Inside
  <2>4. AllCarry(f[n], Expressed(us)[Depths - 1], d, q)
    BY <1>3, <2>1, CutExpressions
  <2> QED
    BY <2>3, <2>4 DEF Inside
<1> HIDE DEF f
<1>4. ASSUME NEW n \in 0 .. Depths, \A j \in 0 .. n - 1 : selects(j) PROVE selects(n)
  <2>1. CASE n = 0
    BY <1>2, <2>1
  <2>2. CASE n # 0
    <3> DEFINE m == n - 1
               inner == f[m]
    <3>1. m \in 0 .. Depths /\ m # Depths /\ m \in 0 .. n - 1 /\ Depths # 0
      BY <1>1, <2>2
    <3>2. inner \in Inner(ts) /\ \A j \in DOMAIN ts : f[n][j] = ParseSum(ts, j, inner)
      BY <1>2, <2>2, <3>1
    <3>3. \A j \in DOMAIN ts : inner[j].ok => AllSelected(ts, inner[j].value)
      BY <1>4, <3>1
    <3> HIDE DEF m
    <3>4. \A us, d, q : IsCut(ts, us, d, q) =>
            Inside(us) \in Inner(us) /\ AllCarry(inner, Inside(us), d, q)
      BY <1>3, <3>1
    <3> HIDE DEF inner
    <3>5. Ready(ts, inner)
      BY <3>1, <3>2, <3>3, <3>4 DEF Ready
    <3>6. \A j \in DOMAIN ts : ParseSum(ts, j, inner).ok => AllSelected(ts, ParseSum(ts, j, inner).value)
      BY <3>5, SumSelects
    <3> QED
      BY <3>2, <3>6
  <2> QED
    BY <2>1, <2>2
<1>5. \A n \in 0 .. Depths : (\A j \in 0 .. n - 1 : j \in H) => n \in H
  <2> TAKE n \in 0 .. Depths
  <2> HAVE \A j \in 0 .. n - 1 : j \in H
  <2>1. \A j \in 0 .. n - 1 : selects(j)
    OBVIOUS
  <2> HIDE DEF selects
  <2>2. selects(n)
    BY <1>4, <2>1
  <2> QED
    BY <2>2
<1> HIDE DEF H
<1>6. \A n \in 0 .. Depths : n \in H
  BY <1>1, <1>5, SmallerFirst
<1>7. selects(Depths)
  <2> HIDE DEF selects
  <2> QED
    BY <1>1, <1>6 DEF H
<1> QED
  BY <1>1, <1>7

\* Where the expression of a program is parsed.
LEMMA ProgramExpression ==
  ASSUME NEW ts, IsStream(ts), ParseProgram(ts).ok
  PROVE  \E i \in DOMAIN ts :
           ParseExpression(ts, i).ok /\ ParseProgram(ts).value.expression = ParseExpression(ts, i).value
<1> DEFINE assign == Consume(ts, 1, <<"MODEL", "LBRACE", "VARIABLE", "ASSIGN">>)
           expression == ParseExpression(ts, assign.next)
           close == Consume(ts, expression.next, <<"RBRACE">>)
           distributions == ParseConfigurations(ts, close.next)
           request == ParseRequest(ts, distributions.next)
           p == [output |-> ts[3].lexeme, expression |-> expression.value,
                 span |-> <<1, close.value>>, distributions |-> distributions.value,
                 iterations |-> request.value.iterations, response |-> request.value.response]
           r == ParseProgram(ts)
<1>1. r = IF assign.ok
          THEN IF expression.ok
               THEN IF close.ok
                    THEN IF distributions.ok
                         THEN IF request.ok THEN Parsed(p, request.next) ELSE request
                         ELSE distributions
                    ELSE close
               ELSE expression
          ELSE assign
  BY DEF ParseProgram, Then
<1>2. r.ok
  OBVIOUS
<1>3. assign \in Results(ts, Nat)
  <2>1. 1 \in DOMAIN ts /\ 1 + 2 = 3
    BY DEF IsStream
  <2> QED
    BY <2>1, ConsumeFour
<1>4. p.expression = expression.value
  OBVIOUS
<1> HIDE DEF r, assign, close, distributions, request, p, expression
<1>5. assign.ok /\ expression.ok /\ r = Parsed(p, request.next)
  BY <1>1, <1>2
<1>6. assign.next \in DOMAIN ts
  BY <1>3, <1>5, ResultCases
<1>7. r.value.expression = expression.value
  BY <1>4, <1>5 DEF Parsed
<1>8. ParseExpression(ts, assign.next).ok /\ r.value.expression = ParseExpression(ts, assign.next).value
  BY <1>5, <1>7 DEF expression
<1> QED
  BY <1>6, <1>8 DEF r

\* Streams are listed, and what is parsed of them is selected by its spans.
SelectInv ==
  /\ stage = "parse" => Listed(stream, Len(stream))
  /\ stage = "analyze" => AllSelected(stream, program.expression)

LEMMA SelectInit == CompilerInit => SelectInv
<1> SUFFICES ASSUME CompilerInit PROVE SelectInv
  OBVIOUS
<1>1. CASE stage = "lex"
  BY <1>1 DEF SelectInv
<1>2. CASE stage = "parse" /\ stream \in TokenStreams
  <2> DEFINE Tokens == [type : STRING, lexeme : Seq(STRING)]
  <2>1. stream \in Seq(Tokens)
    BY <1>2, StreamsAssumption
  <2> HIDE DEF Tokens
  <2>2. stream = [i \in 1 .. Len(stream) |-> stream[i]]
    BY <2>1
  <2>3. Listed(stream, Len(stream))
    BY <2>2 DEF Listed
  <2> QED
    BY <1>2, <2>3 DEF SelectInv
<1> QED
  BY <1>1, <1>2 DEF CompilerInit

LEMMA SelectStep ==
  ASSUME LexerInv, SourceCovered, LexemesAreTokens, EndsWithEof, StageInv, SelectInv,
         [CompilerNext]_compilerVars
  PROVE  SelectInv'
<1>1. ASSUME NEW codes, Answer(codes) PROVE SelectInv'
  BY <1>1, Answers DEF SelectInv
<1>2. CASE LexStep
  BY <1>2 DEF LexStep, SelectInv
<1>3. CASE LexFails
  BY <1>1, <1>3 DEF LexFails
<1>4. CASE LexEnds
  <2> DEFINE n == Len(tokens)
             token(i) == [type |-> tokens[i].type, lexeme |-> Lexeme(tokens[i])]
  <2>1. tokens \in Seq([type : TokenTypes, start : Positions, end : Positions])
    BY DEF LexerInv
  <2>2. n \in Nat /\ DOMAIN tokens = 1 .. n
    BY <2>1
  <2>3. stream' = [i \in 1 .. n |-> token(i)] /\ stage' = "parse"
    BY <1>4, <2>2 DEF LexEnds
  <2> HIDE DEF token, n
  <2>4. Len(stream') = n
    BY <2>2, <2>3
  <2>5. stream' = [i \in 1 .. n |-> stream'[i]]
    BY <2>3
  <2>6. Listed(stream', Len(stream'))
    BY <2>4, <2>5 DEF Listed
  <2> QED
    BY <2>3, <2>6 DEF SelectInv
<1>5. CASE ParseStream
  <2> DEFINE result == ParseProgram(stream)
  <2>1. IsStream(stream) /\ Listed(stream, Len(stream)) /\ stream' = stream
    BY <1>5 DEF StageInv, SelectInv, ParseStream
  <2>2. IF result.ok THEN program' = result.value /\ stage' = "analyze"
        ELSE Answer(<<result.value>>)
    BY <1>5 DEF ParseStream
  <2>3. ASSUME result.ok PROVE AllSelected(stream, result.value.expression)
    <3>1. PICK i \in DOMAIN stream : /\ ParseExpression(stream, i).ok
                                     /\ result.value.expression = ParseExpression(stream, i).value
      BY <2>1, <2>3, ProgramExpression
    <3>2. AllSelected(stream, ParseExpression(stream, i).value)
      BY <2>1, <3>1, ExpressionsSelect
    <3> HIDE DEF result
    <3> QED
      BY <3>1, <3>2
  <2> HIDE DEF result
  <2>4. CASE result.ok
    <3>1. AllSelected(stream', program'.expression) /\ stage' = "analyze"
      BY <2>1, <2>2, <2>3, <2>4
    <3> QED
      BY <3>1 DEF SelectInv
  <2>5. CASE ~result.ok
    BY <1>1, <2>2, <2>5
  <2> QED
    BY <2>4, <2>5
<1>6. CASE Analyze
  <2>1. stage' = "generate" \/ \E c : Answer(c)
    BY <1>6 DEF Analyze
  <2>2. CASE stage' = "generate"
    BY <2>2 DEF SelectInv
  <2> QED
    BY <1>1, <2>1, <2>2
<1>7. CASE GenerateScript
  <2>1. \E c : Answer(c)
    BY <1>7 DEF GenerateScript
  <2> QED
    BY <1>1, <2>1
<1>8. CASE UNCHANGED compilerVars
  BY <1>8 DEF compilerVars, SelectInv
<1> QED
  BY <1>2, <1>3, <1>4, <1>5, <1>6, <1>7, <1>8 DEF CompilerNext, LexPhase

\* For every text, each node of the tree that is analyzed has a span that selects it: the
\* tokens from where the span starts to where it ends, compiled alone, are parsed to that
\* node and the nodes below it, with no token left over, so no span is too wide, too narrow
\* or of another node, whatever is nested in whatever (Parser._parse_expression, what it
\* calls, and the spans that they build).
THEOREM SpansKept == CompilerSpec => []SpansSelectNodes
<1>1. CompilerInit => SelectInv
  BY SelectInit
<1>2. LexerInv /\ SourceCovered /\ LexemesAreTokens /\ EndsWithEof /\ StageInv /\ SelectInv
        /\ [CompilerNext]_compilerVars => SelectInv'
  BY SelectStep
<1>3. StageInv /\ SelectInv => SpansSelectNodes
  <2> SUFFICES ASSUME StageInv, SelectInv, stage = "analyze", NEW k \in DOMAIN program.expression
               PROVE  LET e == Below(program.expression, k)
                          from == Span(e)[1]
                          text == Append(SubSeq(stream, from, Span(e)[2]), Eof)
                      IN ParseExpression(text, 1) = Parsed(Shifted(e, 1 - from), Len(text))
    BY DEF SpansSelectNodes, Eof
  <2>1. program.expression \in Trees /\ AllSelected(stream, program.expression)
    BY DEF StageInv, SelectInv, Programs
  <2>2. k \in 1 .. Len(program.expression)
    BY <2>1, TreeFacts
  <2>3. Selected(stream, Below(program.expression, k))
    BY <2>1, <2>2 DEF AllSelected
  <2> QED
    BY <2>3 DEF Selected, Text
<1> QED
  BY <1>1, <1>2, <1>3, StagesHold, LexerRuns, LexerSound, SourceIsCovered, LexemesSound, EofComesLast,
     PTL DEF CompilerSpec

=============================================================================
