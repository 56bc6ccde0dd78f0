-------------------------- MODULE MemoryRegionProofs --------------------------
(***************************************************************************)
(* map_ can be walked and names the owner of every page, a stream reads    *)
(* its own memory only, up to the end of its mapping, and its references   *)
(* are counted exactly, for any number of streams and pages, when callers  *)
(* do not use memory again that they have unmapped: neither put a          *)
(* MAP_FIXED mapping on it nor unmap it a second time.                     *)
(*                                                                         *)
(* The nodes of map_ are nodes of a set of disjoint regions.  The first    *)
(* part says which set it is after each operation on map_; the invariant   *)
(* is about that set, the pages and the objects.                           *)
(***************************************************************************)
EXTENDS MemoryRegion, WellFoundedInduction, TLAPS

Node == [ref : 0 .. MaxRef, stream : Stream \cup {None}]
Map == [Addr -> Node]
Region == [first : Page, last : Page, ref : 1 .. MaxRef, stream : Stream]
Pages == [Page -> [by : Stream \cup {None}, kind : {"free", "shared", "private", "file"}]]
Dev == [size : Sizes \cup {0}, content : Page \cup {NoContent}, length : 0 .. NumPages,
        private : BOOLEAN,
        state : {"INITIAL", "MAPPED", "PARTIALLY_UNMAPPED", "UNMAP_DELAYED"}]

\* R is a set of disjoint regions.
Disjoint(R) ==
    /\ R \subseteq Region
    /\ \A r \in R : r.first <= r.last
    /\ \A r, q \in R : r = q \/ r.last < q.first \/ q.last < r.first

\* The nodes of m are the first and last nodes of the regions of R.
Represents(m, R) ==
    /\ \A r \in R : /\ m[StartNode(r.first)] = [ref |-> r.ref, stream |-> r.stream]
                    /\ m[EndNode(r.last)].stream = r.stream
    /\ \A a \in Addr : m[a] # NoNode =>
         \E r \in R : a = StartNode(r.first) \/ a = EndNode(r.last)

\* The pages of a region are its stream's.
Owned(R, pages) == \A r \in R : \A p \in PagesOf(r) : pages[p].by = r.stream

\* A page that is mapped is in a region, or kept by an ashmem stream.
Kept(R, pages, d) == \A p \in Page : pages[p] # Free =>
    \/ \E r \in R : p \in PagesOf(r)
    \/ \E s \in Ashmem : d[s].state = "UNMAP_DELAYED" /\ p \in Content(d[s])

\* Whose state has an address and whose has none.
Placed(fds, d, n) == \A s \in Ashmem :
    /\ d[s].content # NoContent =>
         d[s].length >= 1 /\ d[s].content + d[s].length <= NumPages
    /\ d[s].state = "INITIAL" => d[s].content = NoContent
    /\ d[s].content = NoContent /\ (s \in fds \/ d[s].state = "MAPPED") => n[s] = 0

\* The shared memory of s has not been touched by anybody else.
Intact(s, pages, d) == \A p \in Content(d[s]) : pages[p] = [by |-> s, kind |-> "shared"]

\* What is kept after its last munmap is in no region.
Delayed(R, pages, d, n) == \A s \in Ashmem : d[s].state = "UNMAP_DELAYED" =>
    /\ d[s].content # NoContent /\ n[s] = 0 /\ Intact(s, pages, d)
    /\ \A r \in R : PagesOf(r) \cap Content(d[s]) = {}

\* r is the region of the shared memory of s.
Covers(r, s, d) ==
    /\ r.stream = s /\ d[s].content # NoContent
    /\ r.first = d[s].content /\ r.last = d[s].content + d[s].length - 1

\* Shared memory that is mapped is one region, with its references counted.
MappedOnce(R, pages, d, n) == \A s \in Ashmem :
    d[s].state = "MAPPED" /\ d[s].content # NoContent =>
      /\ n[s] > 0 /\ Intact(s, pages, d)
      /\ \E r \in R : Covers(r, s, d) /\ r.ref = n[s]

\* Only such a region is referenced more than once.
ManyRefs(R, d) == \A r \in R : r.ref > 1 =>
    /\ r.stream \in Ashmem /\ d[r.stream].state = "MAPPED"
    /\ Covers(r, r.stream, d)

Sound(R, pages, fds, d, n) ==
    /\ Owned(R, pages) /\ Kept(R, pages, d) /\ Placed(fds, d, n)
    /\ Delayed(R, pages, d, n) /\ MappedOnce(R, pages, d, n) /\ ManyRefs(R, d)

\* The inductive invariant.
Inv ==
    /\ TypeOK
    /\ Disjoint(Regions(map_)) /\ Represents(map_, Regions(map_))
    /\ Sound(Regions(map_), os, opened, dev, count)
    /\ NoAssertFails

-----------------------------------------------------------------------------
(* Nodes and regions *)

LEMMA MinIs ==
  ASSUME NEW S \in SUBSET Int, NEW x \in S, \A y \in S : x <= y
  PROVE  Min(S) = x
<1>1. Min(S) \in S /\ \A y \in S : Min(S) <= y
  BY DEF Min
<1>2. Min(S) \in Int /\ x \in Int /\ Min(S) <= x /\ x <= Min(S)
  BY <1>1
<1> QED BY <1>2

LEMMA MaxIs ==
  ASSUME NEW S \in SUBSET Int, NEW x \in S, \A y \in S : x >= y
  PROVE  Max(S) = x
<1>1. Max(S) \in S /\ \A y \in S : Max(S) >= y
  BY DEF Max
<1>2. Max(S) \in Int /\ x \in Int /\ Max(S) >= x /\ x >= Max(S)
  BY <1>1
<1> QED BY <1>2

\* First and last nodes are told apart by their parity.
LEMMA Parity ==
  ASSUME NEW p \in Int
  PROVE  /\ StartNode(p) \in Int /\ EndNode(p) \in Int
         /\ ~IsPageEndAddress(StartNode(p)) /\ IsPageEndAddress(EndNode(p))
         /\ StartNode(p) \div 2 = p /\ EndNode(p) \div 2 = p
BY DEF StartNode, EndNode, IsPageEndAddress

\* Nodes are ordered as their pages are.
LEMMA NodeOrder ==
  ASSUME NEW p \in Int, NEW q \in Int
  PROVE  /\ StartNode(p) <= StartNode(q) <=> p <= q
         /\ EndNode(p) <= EndNode(q) <=> p <= q
         /\ StartNode(p) <= EndNode(q) <=> p <= q
         /\ EndNode(p) <= StartNode(q) <=> p < q
         /\ StartNode(p) # EndNode(q)
         /\ StartNode(p) = StartNode(q) <=> p = q
         /\ EndNode(p) = EndNode(q) <=> p = q
BY DEF StartNode, EndNode

LEMMA NodesAreAddresses ==
  ASSUME NEW p \in Page
  PROVE  StartNode(p) \in Addr /\ EndNode(p) \in Addr
BY ConstantsAssumption DEF Page, Addr, StartNode, EndNode

LEMMA NodeFields ==
  /\ NoNode.ref = 0 /\ NoNode.stream = None /\ None \notin Stream
  /\ Ashmem \subseteq Stream /\ File \subseteq Stream
  /\ Free.by = None /\ NoNode \in Node
BY ConstantsAssumption DEF NoNode, Free, Stream, Node

\* What Disjoint says of two regions and of the fields of one.
LEMMA DisjointFacts ==
  ASSUME NEW R, Disjoint(R), NEW r \in R
  PROVE  /\ r \in Region /\ r.first \in Page /\ r.last \in Page /\ r.first \in Int /\ r.last \in Int
         /\ r.ref \in 1 .. MaxRef /\ r.stream \in Stream /\ r.first <= r.last
         /\ 0 <= r.first /\ r.last < NumPages
         /\ \A q \in R : r = q \/ r.last < q.first \/ q.last < r.first
BY ConstantsAssumption DEF Disjoint, Region, Page

\* The nodes of a region and their fields.
LEMMA RepresentsFacts ==
  ASSUME NEW m, NEW R, Represents(m, R), NEW r \in R
  PROVE  /\ m[StartNode(r.first)] = [ref |-> r.ref, stream |-> r.stream]
         /\ m[EndNode(r.last)].stream = r.stream
BY DEF Represents

LEMMA RepresentsFields ==
  ASSUME NEW m, NEW R, Represents(m, R), NEW r \in R
  PROVE  /\ m[StartNode(r.first)].ref = r.ref /\ m[StartNode(r.first)].stream = r.stream
         /\ m[EndNode(r.last)].stream = r.stream
<1>1. PICK x : x = m[StartNode(r.first)]
  OBVIOUS
<1>2. x = [ref |-> r.ref, stream |-> r.stream]
  BY <1>1, RepresentsFacts
<1>3. x.ref = r.ref /\ x.stream = r.stream
  BY <1>2
<1>4. m[EndNode(r.last)].stream = r.stream
  BY RepresentsFacts
<1> QED BY <1>1, <1>3, <1>4

\* The node after the first node of a region is its last node.
LEMMA NextIsLast ==
  ASSUME NEW m, NEW R, Disjoint(R), Represents(m, R), NEW r \in R
  PROVE  /\ StartNode(r.first) \in Nodes(m) /\ EndNode(r.last) \in Nodes(m)
         /\ Min({b \in Nodes(m) : b > StartNode(r.first)}) = EndNode(r.last)
<1> DEFINE S == {b \in Nodes(m) : b > StartNode(r.first)}
<1>0. /\ r.first \in Page /\ r.last \in Page /\ r.first \in Int /\ r.last \in Int
      /\ r.stream \in Stream /\ r.first <= r.last
  BY DisjointFacts
<1>1. StartNode(r.first) \in Nodes(m) /\ EndNode(r.last) \in Nodes(m)
  <2>1. m[StartNode(r.first)].stream = r.stream /\ m[EndNode(r.last)].stream = r.stream
    BY RepresentsFields
  <2> QED BY <1>0, <2>1, NodesAreAddresses, NodeFields DEF Nodes
<1>2. S \in SUBSET Int
  BY DEF Nodes, Addr
<1>3. StartNode(r.first) \in Int /\ EndNode(r.last) \in Int /\ EndNode(r.last) > StartNode(r.first)
  BY <1>0 DEF StartNode, EndNode
<1>4. ASSUME NEW b \in S PROVE EndNode(r.last) <= b
  <2>1. PICK q \in R : b = StartNode(q.first) \/ b = EndNode(q.last)
    BY DEF Nodes, Represents
  <2>2. q.first \in Int /\ q.last \in Int /\ q.first <= q.last
    BY DisjointFacts
  <2>3. r = q \/ r.last < q.first \/ q.last < r.first
    BY DisjointFacts
  <2>4. b > StartNode(r.first)
    OBVIOUS
  <2> QED BY <1>0, <2>1, <2>2, <2>3, <2>4 DEF StartNode, EndNode
<1>5. EndNode(r.last) \in S
  BY <1>1, <1>3
<1>6. Min(S) = EndNode(r.last)
  <2> HIDE DEF S
  <2> QED BY <1>2, <1>4, <1>5, MinIs
<1> QED BY <1>1, <1>6

\* A first node is that of a region.
LEMMA StartNodeOf ==
  ASSUME NEW m, NEW R, Disjoint(R), Represents(m, R), NEW a \in Nodes(m), ~IsPageEndAddress(a)
  PROVE  \E r \in R : a = StartNode(r.first)
<1>1. PICK r \in R : a = StartNode(r.first) \/ a = EndNode(r.last)
  BY DEF Nodes, Represents
<1>2. r.last \in Int
  BY DisjointFacts
<1> QED BY <1>1, <1>2, Parity

\* Regions is the set of regions that the nodes represent.
LEMMA RegionsAre ==
  ASSUME NEW m, NEW R, Disjoint(R), Represents(m, R)
  PROVE  Regions(m) = R
<1> DEFINE Of(a) == [first |-> a \div 2, last |-> Min({b \in Nodes(m) : b > a}) \div 2,
                     ref |-> m[a].ref, stream |-> m[a].stream]
<1>1. Regions(m) = {Of(a) : a \in {b \in Nodes(m) : ~IsPageEndAddress(b)}}
  BY DEF Regions
<1>2. ASSUME NEW r \in R
      PROVE  /\ StartNode(r.first) \in {b \in Nodes(m) : ~IsPageEndAddress(b)}
             /\ Of(StartNode(r.first)) = r
  <2>1. /\ r.first \in Int /\ r.last \in Int
        /\ r \in [first : Page, last : Page, ref : 1 .. MaxRef, stream : Stream]
    BY DisjointFacts DEF Region
  <2>2. /\ StartNode(r.first) \in Nodes(m)
        /\ Min({b \in Nodes(m) : b > StartNode(r.first)}) = EndNode(r.last)
    BY NextIsLast
  <2>3. m[StartNode(r.first)].ref = r.ref /\ m[StartNode(r.first)].stream = r.stream
    BY RepresentsFields
  <2>4. StartNode(r.first) \div 2 = r.first /\ EndNode(r.last) \div 2 = r.last
        /\ ~IsPageEndAddress(StartNode(r.first))
    BY <2>1, Parity
  <2>5. Of(StartNode(r.first)) = [first |-> r.first, last |-> r.last, ref |-> r.ref, stream |-> r.stream]
    BY <2>2, <2>3, <2>4
  <2>6. r = [first |-> r.first, last |-> r.last, ref |-> r.ref, stream |-> r.stream]
    BY <2>1
  <2> HIDE DEF Of
  <2> QED BY <2>2, <2>4, <2>5, <2>6
<1>3. \A r \in R : r \in Regions(m)
  <2> HIDE DEF Of
  <2> QED BY <1>1, <1>2
<1>4. ASSUME NEW x \in Regions(m) PROVE x \in R
  <2>1. PICK a \in Nodes(m) : ~IsPageEndAddress(a) /\ x = Of(a)
    <3> HIDE DEF Of
    <3> QED BY <1>1, <1>4
  <2>2. PICK r \in R : a = StartNode(r.first)
    BY <2>1, StartNodeOf
  <2> HIDE DEF Of
  <2> QED BY <1>2, <2>1, <2>2
<1> QED BY <1>3, <1>4

LEMMA Least ==
  ASSUME NEW S \in SUBSET Nat, S # {}
  PROVE  Min(S) \in S /\ \A y \in S : Min(S) <= y
<1> DEFINE R == {ss \in Nat \X Nat : ss[1] < ss[2]}
<1>1. IsWellFoundedOn(R, Nat)
  BY NatLessThanWellFounded, Zenon DEF OpToRel
<1>2. \E x \in S : \A y \in S : ~(<<y, x>> \in R)
  <2> HIDE DEF R
  <2> QED BY <1>1, WFMin, Zenon
<1>3. \A x, y \in S : <<y, x>> \in R \/ x <= y
  BY SMT
<1>4. \E x \in S : \A y \in S : x <= y
  <2> HIDE DEF R
  <2> QED BY <1>2, <1>3, Zenon
<1> QED BY <1>4 DEF Min

\* Where the nodes are those of disjoint regions, map_ can be walked.
LEMMA WalkFacts ==
  ASSUME NEW R, Disjoint(R), Represents(map_, R)
  PROVE  WellFormed
<1> SUFFICES ASSUME NEW a \in Nodes(map_)
             PROVE  LET later == {b \in Nodes(map_) : b > a}
                        partner == Min(later)
                    IN  IF IsPageEndAddress(a)
                          THEN later # {} => ~IsPageEndAddress(partner)
                          ELSE /\ later # {}
                               /\ IsPageEndAddress(partner)
                               /\ map_[partner].stream = map_[a].stream
  BY DEF WellFormed
<1> DEFINE later == {b \in Nodes(map_) : b > a}
<1>1. CASE IsPageEndAddress(a)
  <2>1. ASSUME later # {} PROVE ~IsPageEndAddress(Min(later))
    <3>1. later \in SUBSET Nat
      BY DEF Nodes, Addr
    <3>2. Min(later) \in later /\ \A y \in later : Min(later) <= y
      <4> HIDE DEF later
      <4> QED BY <2>1, <3>1, Least
    <3>3. PICK b \in Nodes(map_) : b = Min(later) /\ b > a
      BY <3>2
    <3>4. PICK r \in R : b = StartNode(r.first) \/ b = EndNode(r.last)
      BY DEF Nodes, Represents
    <3>5. r.first \in Int /\ r.last \in Int /\ r.first <= r.last
      BY DisjointFacts
    <3>6. b # EndNode(r.last)
      <4> SUFFICES ASSUME b = EndNode(r.last) PROVE FALSE
        OBVIOUS
      <4>1. StartNode(r.first) \in Nodes(map_) /\ StartNode(r.first) < b
        <5>1. StartNode(r.first) \in Nodes(map_)
          BY NextIsLast
        <5> QED BY <3>5, <5>1 DEF StartNode, EndNode
      <4>2. StartNode(r.first) <= a
        <5>1. ~(StartNode(r.first) > a)
          BY <3>2, <3>3, <4>1 DEF Nodes, Addr
        <5> QED BY <5>1, <4>1 DEF Nodes, Addr
      <4>3. PICK q \in R : a = StartNode(q.first) \/ a = EndNode(q.last)
        BY DEF Nodes, Represents
      <4>4. q.first \in Int /\ q.last \in Int /\ q.first <= q.last
            /\ (r = q \/ r.last < q.first \/ q.last < r.first)
        BY DisjointFacts
      <4>5. a = EndNode(q.last)
        BY <1>1, <4>3, <4>4, Parity
      <4> QED BY <3>3, <3>5, <4>2, <4>4, <4>5 DEF StartNode, EndNode
    <3> QED BY <3>3, <3>4, <3>5, <3>6, Parity
  <2> QED BY <1>1, <2>1
<1>2. CASE ~IsPageEndAddress(a)
  <2>1. PICK r \in R : a = StartNode(r.first)
    BY <1>2, StartNodeOf
  <2>2. r.first \in Int /\ r.last \in Int /\ r.first <= r.last
    BY DisjointFacts
  <2>3. EndNode(r.last) \in Nodes(map_) /\ Min(later) = EndNode(r.last)
    BY <2>1, NextIsLast
  <2>4. EndNode(r.last) > a /\ IsPageEndAddress(EndNode(r.last))
    BY <2>1, <2>2, Parity DEF StartNode, EndNode
  <2>5. map_[EndNode(r.last)].stream = map_[a].stream
    <3>1. map_[EndNode(r.last)].stream = r.stream /\ map_[StartNode(r.first)].stream = r.stream
      BY RepresentsFields
    <3> QED BY <2>1, <3>1
  <2> QED BY <1>2, <2>3, <2>4, <2>5
<1> QED BY <1>1, <1>2

\* r and Span(p, l) have a page in common.
Meets(r, p, l) == r.first <= p + l - 1 /\ p <= r.last

LEMMA TouchedAre ==
  ASSUME NEW m, NEW R, Disjoint(R), Represents(m, R), NEW p \in Page, NEW l \in Nat \ {0}
  PROVE  /\ Touched(m, p, l) = {r \in R : Meets(r, p, l)}
         /\ FoundRegions(m, p, l) = {r \in R : r.first = p /\ r.last = p + l - 1}
<1>1. Regions(m) = R
  BY RegionsAre
<1>2. ASSUME NEW r \in R PROVE PagesOf(r) \cap Span(p, l) # {} <=> Meets(r, p, l)
  <2>1. r.first \in Int /\ r.last \in Int /\ r.first <= r.last /\ p \in Int
    BY DisjointFacts DEF Page
  <2>2. r.first \in p .. p + l - 1 \/ p \in r.first .. r.last => PagesOf(r) \cap Span(p, l) # {}
    <3>1. r.first \in r.first .. r.last /\ p \in p .. p + l - 1
      BY <2>1
    <3> QED BY <3>1 DEF PagesOf, Span
  <2>3. Meets(r, p, l) => r.first \in p .. p + l - 1 \/ p \in r.first .. r.last
    BY <2>1 DEF Meets
  <2>4. PagesOf(r) \cap Span(p, l) # {} => Meets(r, p, l)
    BY <2>1 DEF PagesOf, Span, Meets
  <2> QED BY <2>2, <2>3, <2>4
<1> QED BY <1>1, <1>2 DEF Touched, FoundRegions

\* Where no region is touched, AddFileStreamByAddr succeeds.
LEMMA NoOverlap ==
  ASSUME NEW m, NEW R, Disjoint(R), Represents(m, R), NEW p \in Page, NEW l \in Nat \ {0},
         \A r \in R : ~Meets(r, p, l)
  PROVE  ~IsOverlap(m, p, l)
<1>0. p \in Int
  BY DEF Page
<1>1. ASSUME NEW a \in Nodes(m), StartNode(p) <= a, a <= EndNode(p + l - 1) PROVE FALSE
  <2>1. PICK r \in R : a = StartNode(r.first) \/ a = EndNode(r.last)
    BY DEF Nodes, Represents
  <2>2. r.first \in Int /\ r.last \in Int /\ r.first <= r.last
    BY DisjointFacts
  <2> QED BY <1>0, <1>1, <2>1, <2>2 DEF Meets, StartNode, EndNode
<1>2. ASSUME NEW a \in StartNodes(m), a < StartNode(p), NextNode(m, a) > StartNode(p) PROVE FALSE
  <2>1. PICK r \in R : a = StartNode(r.first)
    BY StartNodeOf DEF StartNodes
  <2>2. r.first \in Int /\ r.last \in Int /\ r.first <= r.last
    BY DisjointFacts
  <2>3. NextNode(m, a) = EndNode(r.last)
    BY <2>1, NextIsLast DEF NextNode
  <2> QED BY <1>0, <1>2, <2>1, <2>2, <2>3 DEF Meets, StartNode, EndNode
<1> QED BY <1>1, <1>2 DEF IsOverlap

-----------------------------------------------------------------------------
(* The regions after each operation on map_ *)

NewRegion(p, l, s) == [first |-> p, last |-> p + l - 1, ref |-> 1, stream |-> s]

LEMMA NewRegionFacts ==
  ASSUME NEW p \in Page, NEW l \in Nat \ {0}, p + l <= NumPages, NEW s \in Stream
  PROVE  /\ NewRegion(p, l, s) \in Region
         /\ NewRegion(p, l, s).first = p /\ NewRegion(p, l, s).last = p + l - 1
         /\ NewRegion(p, l, s).ref = 1 /\ NewRegion(p, l, s).stream = s
         /\ p + l - 1 \in Page /\ p \in Int /\ p + l - 1 \in Int /\ p <= p + l - 1
<1>1. p + l - 1 \in Page /\ p \in Int /\ p + l - 1 \in Int /\ p <= p + l - 1
  BY ConstantsAssumption DEF Page
<1>2. 1 \in 1 .. MaxRef
  BY ConstantsAssumption
<1> QED BY <1>1, <1>2 DEF NewRegion, Region

\* Added makes a region where there was none.
LEMMA AddedRegions ==
  ASSUME NEW m \in Map, NEW R, Disjoint(R), Represents(m, R),
         NEW p \in Page, NEW l \in Nat \ {0}, p + l <= NumPages, NEW s \in Stream,
         \A r \in R : ~Meets(r, p, l)
  PROVE  /\ Added(m, p, l, s) \in Map
         /\ Disjoint(R \cup {NewRegion(p, l, s)})
         /\ Represents(Added(m, p, l, s), R \cup {NewRegion(p, l, s)})
<1> DEFINE x == NewRegion(p, l, s)
           n == [ref |-> 1, stream |-> s]
           e == p + l - 1
           A == Added(m, p, l, s)
<1>0. /\ x \in Region /\ x.first = p /\ x.last = e /\ x.ref = 1 /\ x.stream = s
      /\ e \in Page /\ p \in Int /\ e \in Int /\ p <= e
  BY NewRegionFacts
<1>1. n \in Node /\ n # NoNode
  BY ConstantsAssumption, NodeFields DEF Node
<1>2. /\ StartNode(p) \in Addr /\ EndNode(e) \in Addr /\ StartNode(p) # EndNode(e)
  BY <1>0, NodesAreAddresses, NodeOrder
<1>3. A \in Map /\ A[StartNode(p)] = n /\ A[EndNode(e)] = n
      /\ \A a \in Addr \ {StartNode(p), EndNode(e)} : A[a] = m[a]
  BY <1>1, <1>2 DEF Added, Map
<1> HIDE DEF x, n, e, A
<1>4. ASSUME NEW r \in R
      PROVE  /\ StartNode(r.first) \in Addr \ {StartNode(p), EndNode(e)}
             /\ EndNode(r.last) \in Addr \ {StartNode(p), EndNode(e)}
             /\ r.last < p \/ e < r.first
  <2>1. /\ r.first \in Page /\ r.last \in Page /\ r.first \in Int /\ r.last \in Int
        /\ r.first <= r.last
    BY DisjointFacts
  <2>2. StartNode(r.first) \in Addr /\ EndNode(r.last) \in Addr
    BY <2>1, NodesAreAddresses
  <2>3. r.last < p \/ e < r.first
    BY <1>0, <2>1 DEF Meets, e
  <2> QED BY <1>0, <2>1, <2>2, <2>3 DEF StartNode, EndNode
<1>5. Disjoint(R \cup {x})
  BY <1>0, <1>4 DEF Disjoint
<1>6. ASSUME NEW r \in R \cup {x}
      PROVE  /\ A[StartNode(r.first)] = [ref |-> r.ref, stream |-> r.stream]
             /\ A[EndNode(r.last)].stream = r.stream
  <2>1. CASE r = x
    BY <1>0, <1>3, <2>1 DEF n
  <2>2. CASE r \in R
    <3>1. A[StartNode(r.first)] = m[StartNode(r.first)] /\ A[EndNode(r.last)] = m[EndNode(r.last)]
      BY <1>3, <1>4, <2>2
    <3> QED BY <2>2, <3>1, RepresentsFacts
  <2> QED BY <2>1, <2>2
<1>7. ASSUME NEW a \in Addr, A[a] # NoNode
      PROVE  \E r \in R \cup {x} : a = StartNode(r.first) \/ a = EndNode(r.last)
  <2>1. CASE a \in {StartNode(p), EndNode(e)}
    BY <1>0, <2>1
  <2>2. CASE a \notin {StartNode(p), EndNode(e)}
    BY <1>3, <1>7, <2>2 DEF Represents
  <2> QED BY <2>1, <2>2
<1>8. Represents(A, R \cup {x})
  BY <1>6, <1>7 DEF Represents
<1> QED BY <1>3, <1>5, <1>8 DEF A, x

\* The region r with another number of references.
Referred(r, k) == [first |-> r.first, last |-> r.last, ref |-> k, stream |-> r.stream]

\* RefChanged changes one region, and only its references.
LEMMA RefChangedRegions ==
  ASSUME NEW m \in Map, NEW R, Disjoint(R), Represents(m, R), NEW r \in R,
         NEW k \in 1 .. MaxRef, NEW by \in Int, r.ref + by = k
  PROVE  /\ RefChanged(m, r.first, by) \in Map
         /\ Disjoint((R \ {r}) \cup {Referred(r, k)})
         /\ Represents(RefChanged(m, r.first, by), (R \ {r}) \cup {Referred(r, k)})
<1> DEFINE x == Referred(r, k)
           C == RefChanged(m, r.first, by)
           n == [ref |-> k, stream |-> r.stream]
<1>0. /\ r.first \in Page /\ r.last \in Page /\ r.first \in Int /\ r.last \in Int
      /\ r.stream \in Stream /\ r.first <= r.last /\ r.ref \in Int
  BY ConstantsAssumption, DisjointFacts
<1>1. /\ x \in Region /\ x.first = r.first /\ x.last = r.last /\ x.ref = k /\ x.stream = r.stream
  BY <1>0 DEF Region, Referred
<1>2. StartNode(r.first) \in Addr /\ EndNode(r.last) \in Addr /\ StartNode(r.first) # EndNode(r.last)
  BY <1>0, NodesAreAddresses, NodeOrder
<1>3. C \in Map /\ C[StartNode(r.first)] = n /\ \A a \in Addr \ {StartNode(r.first)} : C[a] = m[a]
  <2>1. m[StartNode(r.first)] = [ref |-> r.ref, stream |-> r.stream]
    BY RepresentsFacts
  <2>2. [m[StartNode(r.first)] EXCEPT !.ref = @ + by] = n
    BY <1>0, <2>1
  <2>3. C = [m EXCEPT ![StartNode(r.first)] = [m[StartNode(r.first)] EXCEPT !.ref = @ + by]]
    BY DEF RefChanged
  <2>4. C = [m EXCEPT ![StartNode(r.first)] = n]
    BY <2>2, <2>3
  <2>5. n \in Node
    BY <1>0, ConstantsAssumption DEF Node
  <2> HIDE DEF C, n
  <2> QED BY <1>2, <2>4, <2>5 DEF Map
<1> HIDE DEF x, C, n
<1>4. ASSUME NEW q \in R \ {r}
      PROVE  /\ StartNode(q.first) \in Addr \ {StartNode(r.first), EndNode(r.last)}
             /\ EndNode(q.last) \in Addr \ {StartNode(r.first), EndNode(r.last)}
             /\ q.last < r.first \/ r.last < q.first
  <2>1. /\ q.first \in Page /\ q.last \in Page /\ q.first \in Int /\ q.last \in Int
        /\ q.first <= q.last
    BY DisjointFacts
  <2>2. StartNode(q.first) \in Addr /\ EndNode(q.last) \in Addr
    BY <2>1, NodesAreAddresses
  <2>3. q.last < r.first \/ r.last < q.first
    BY DisjointFacts
  <2> QED BY <1>0, <2>1, <2>2, <2>3 DEF StartNode, EndNode
<1>5. Disjoint((R \ {r}) \cup {x})
  BY <1>0, <1>1, <1>4 DEF Disjoint
<1>6. ASSUME NEW q \in (R \ {r}) \cup {x}
      PROVE  /\ C[StartNode(q.first)] = [ref |-> q.ref, stream |-> q.stream]
             /\ C[EndNode(q.last)].stream = q.stream
  <2>1. CASE q = x
    <3>1. C[EndNode(r.last)] = m[EndNode(r.last)]
      BY <1>2, <1>3
    <3>2. m[EndNode(r.last)].stream = r.stream
      BY RepresentsFacts
    <3> QED BY <1>1, <1>3, <2>1, <3>1, <3>2 DEF n
  <2>2. CASE q \in R \ {r}
    <3>1. C[StartNode(q.first)] = m[StartNode(q.first)] /\ C[EndNode(q.last)] = m[EndNode(q.last)]
      BY <1>3, <1>4, <2>2
    <3> QED BY <2>2, <3>1, RepresentsFacts
  <2> QED BY <2>1, <2>2
<1>7. ASSUME NEW a \in Addr, C[a] # NoNode
      PROVE  \E q \in (R \ {r}) \cup {x} : a = StartNode(q.first) \/ a = EndNode(q.last)
  <2>1. CASE a \in {StartNode(r.first), EndNode(r.last)}
    BY <1>1, <2>1
  <2>2. CASE a \notin {StartNode(r.first), EndNode(r.last)}
    <3>1. m[a] # NoNode
      BY <1>3, <1>7, <2>2
    <3>2. PICK q \in R : a = StartNode(q.first) \/ a = EndNode(q.last)
      BY <3>1 DEF Represents
    <3> QED BY <2>2, <3>2
  <2> QED BY <2>1, <2>2
<1>8. Represents(C, (R \ {r}) \cup {x})
  BY <1>6, <1>7 DEF Represents
<1> QED BY <1>3, <1>5, <1>8 DEF C, x

\* What is left of r on either side of Span(p, l).
LeftOf(r, p) == [first |-> r.first, last |-> p - 1, ref |-> r.ref, stream |-> r.stream]
RightOf(r, p, l) == [first |-> p + l, last |-> r.last, ref |-> 1, stream |-> r.stream]

IsPiece(x, r, p, l) ==
    \/ ~Meets(r, p, l) /\ x = r
    \/ Meets(r, p, l) /\ r.first < p /\ x = LeftOf(r, p)
    \/ Meets(r, p, l) /\ r.last > p + l - 1 /\ x = RightOf(r, p, l)

Trimmed(R, p, l) == {x \in Region : \E r \in R : IsPiece(x, r, p, l)}

LEMMA PieceFacts ==
  ASSUME NEW R, Disjoint(R), NEW r \in R, NEW p \in Page, NEW l \in Nat \ {0},
         p + l <= NumPages, NEW x, IsPiece(x, r, p, l)
  PROVE  /\ x \in Region /\ x.stream = r.stream /\ x.ref \in {r.ref, 1}
         /\ x.first \in Int /\ x.last \in Int
         /\ r.first <= x.first /\ x.first <= x.last /\ x.last <= r.last
         /\ x.last < p \/ p + l <= x.first
<1>0. /\ r \in Region /\ r.first \in Page /\ r.last \in Page /\ r.first \in Int /\ r.last \in Int
      /\ r.ref \in 1 .. MaxRef /\ r.stream \in Stream /\ r.first <= r.last
      /\ 0 <= r.first /\ r.last < NumPages
  BY DisjointFacts
<1>1. p \in Int /\ 0 <= p /\ 1 \in 1 .. MaxRef /\ NumPages \in Int
  BY ConstantsAssumption DEF Page
<1>2. CASE ~Meets(r, p, l) /\ x = r
  BY <1>0, <1>1, <1>2 DEF Meets
<1>3. CASE Meets(r, p, l) /\ r.first < p /\ x = LeftOf(r, p)
  <2>1. x.first = r.first /\ x.last = p - 1 /\ x.ref = r.ref /\ x.stream = r.stream
    BY <1>3 DEF LeftOf
  <2>2. p - 1 \in Page
    BY <1>0, <1>1, <1>3 DEF Page, Meets
  <2>3. x \in Region
    BY <1>0, <1>3, <2>2 DEF LeftOf, Region
  <2> QED BY <1>0, <1>1, <1>3, <2>1, <2>3 DEF Meets
<1>4. CASE Meets(r, p, l) /\ r.last > p + l - 1 /\ x = RightOf(r, p, l)
  <2>1. x.first = p + l /\ x.last = r.last /\ x.ref = 1 /\ x.stream = r.stream
    BY <1>4 DEF RightOf
  <2>2. p + l \in Page
    BY <1>0, <1>1, <1>4 DEF Page, Meets
  <2>3. x \in Region
    BY <1>0, <1>1, <1>4, <2>2 DEF RightOf, Region
  <2> QED BY <1>0, <1>1, <1>4, <2>1, <2>3 DEF Meets
<1> QED BY <1>2, <1>3, <1>4 DEF IsPiece

\* Every piece is a region of Trimmed, and those of Trimmed are pieces.
LEMMA TrimmedFacts ==
  ASSUME NEW R, Disjoint(R), NEW p \in Page, NEW l \in Nat \ {0}, p + l <= NumPages
  PROVE  /\ \A r \in R : \A x : IsPiece(x, r, p, l) => x \in Trimmed(R, p, l)
         /\ \A x \in Trimmed(R, p, l) : \E r \in R :
              /\ IsPiece(x, r, p, l)
              /\ x \in Region /\ x.stream = r.stream /\ x.ref \in {r.ref, 1}
              /\ x.first \in Int /\ x.last \in Int
              /\ r.first <= x.first /\ x.first <= x.last /\ x.last <= r.last
              /\ x.last < p \/ p + l <= x.first
         /\ Disjoint(Trimmed(R, p, l))
         /\ \A x \in Trimmed(R, p, l) : ~Meets(x, p, l)
<1>0. p \in Int
  BY DEF Page
<1>1. \A r \in R : \A x : IsPiece(x, r, p, l) => x \in Trimmed(R, p, l)
  BY PieceFacts DEF Trimmed
<1>2. ASSUME NEW x \in Trimmed(R, p, l)
      PROVE  \E r \in R :
              /\ IsPiece(x, r, p, l)
              /\ x \in Region /\ x.stream = r.stream /\ x.ref \in {r.ref, 1}
              /\ x.first \in Int /\ x.last \in Int
              /\ r.first <= x.first /\ x.first <= x.last /\ x.last <= r.last
              /\ x.last < p \/ p + l <= x.first
  <2>1. PICK r \in R : IsPiece(x, r, p, l)
    BY DEF Trimmed
  <2> QED BY <2>1, PieceFacts
<1>3. ASSUME NEW x \in Trimmed(R, p, l), NEW y \in Trimmed(R, p, l)
      PROVE  x = y \/ x.last < y.first \/ y.last < x.first
  <2>1. PICK r \in R : IsPiece(x, r, p, l)
    BY DEF Trimmed
  <2>2. PICK q \in R : IsPiece(y, q, p, l)
    BY DEF Trimmed
  <2>3. /\ x.first \in Int /\ x.last \in Int /\ r.first <= x.first /\ x.last <= r.last
        /\ x.first <= x.last
    BY <2>1, PieceFacts
  <2>4. /\ y.first \in Int /\ y.last \in Int /\ q.first <= y.first /\ y.last <= q.last
        /\ y.first <= y.last
    BY <2>2, PieceFacts
  <2>5. /\ r.first \in Int /\ r.last \in Int /\ q.first \in Int /\ q.last \in Int
        /\ r = q \/ r.last < q.first \/ q.last < r.first
    BY DisjointFacts
  <2>6. CASE r # q
    BY <2>3, <2>4, <2>5, <2>6
  <2>7. CASE r = q
    <3>1. LeftOf(r, p).last = p - 1 /\ RightOf(r, p, l).first = p + l
      BY DEF LeftOf, RightOf
    <3>2. \/ x = y
          \/ x = LeftOf(r, p) /\ y = RightOf(r, p, l)
          \/ x = RightOf(r, p, l) /\ y = LeftOf(r, p)
      BY <2>1, <2>2, <2>7 DEF IsPiece
    <3> QED BY <1>0, <3>1, <3>2
  <2> QED BY <2>6, <2>7
<1>4. Disjoint(Trimmed(R, p, l))
  BY <1>2, <1>3 DEF Disjoint
<1>5. ASSUME NEW x \in Trimmed(R, p, l) PROVE ~Meets(x, p, l)
  BY <1>0, <1>2 DEF Meets
<1> QED BY <1>1, <1>2, <1>4, <1>5

\* Every page outside Span(p, l) that was in a region still is.
LEMMA TrimmedPages ==
  ASSUME NEW R, Disjoint(R), NEW p \in Page, NEW l \in Nat \ {0}, p + l <= NumPages,
         NEW r \in R, NEW q \in PagesOf(r), q \notin Span(p, l)
  PROVE  \E x \in Trimmed(R, p, l) : q \in PagesOf(x)
<1>0. p \in Int /\ r.first \in Int /\ r.last \in Int /\ q \in Int /\ r.first <= q /\ q <= r.last
      /\ (q < p \/ p + l - 1 < q)
  BY DisjointFacts DEF PagesOf, Span, Page
<1>1. CASE ~Meets(r, p, l)
  <2>1. IsPiece(r, r, p, l)
    BY <1>1 DEF IsPiece
  <2> QED BY <2>1, TrimmedFacts
<1>2. CASE Meets(r, p, l) /\ q < p
  <2>1. IsPiece(LeftOf(r, p), r, p, l)
    BY <1>0, <1>2 DEF IsPiece
  <2>2. q \in PagesOf(LeftOf(r, p))
    BY <1>0, <1>2 DEF LeftOf, PagesOf
  <2> QED BY <2>1, <2>2, TrimmedFacts
<1>3. CASE Meets(r, p, l) /\ p + l - 1 < q
  <2>1. IsPiece(RightOf(r, p, l), r, p, l)
    BY <1>0, <1>3 DEF IsPiece
  <2>2. q \in PagesOf(RightOf(r, p, l))
    BY <1>0, <1>3 DEF RightOf, PagesOf
  <2> QED BY <2>1, <2>2, TrimmedFacts
<1> QED BY <1>0, <1>1, <1>2, <1>3

\* Removed leaves what is left of the regions.
LEMMA RemovedRegions ==
  ASSUME NEW m \in Map, NEW R, Disjoint(R), Represents(m, R),
         NEW p \in Page, NEW l \in Nat \ {0}, p + l <= NumPages
  PROVE  /\ Removed(m, p, l) \in Map
         /\ Represents(Removed(m, p, l), Trimmed(R, p, l))
<1> DEFINE left == {r \in Touched(m, p, l) : r.first < p}
           right == {r \in Touched(m, p, l) : r.last > p + l - 1}
           LeftEnd == [ref |-> 1, stream |-> (CHOOSE r \in left : TRUE).stream]
           RightEnd == [ref |-> 1, stream |-> (CHOOSE r \in right : TRUE).stream]
           D == Removed(m, p, l)
<1>0. p \in Int /\ 0 <= p /\ l \in Int /\ NumPages \in Int /\ p + l - 1 \in Page /\ p + l \in Int
  BY ConstantsAssumption DEF Page
<1>1. D = [a \in Addr |->
           IF a \in StartNode(p) .. EndNode(p + l - 1) THEN NoNode
           ELSE IF a = EndNode(p - 1) /\ left # {} THEN LeftEnd
           ELSE IF a = StartNode(p + l) /\ right # {} THEN RightEnd
           ELSE m[a]]
  BY DEF Removed
<1>2. Touched(m, p, l) = {r \in R : Meets(r, p, l)}
  BY TouchedAre
<1>3. ASSUME NEW r \in left
      PROVE  r \in R /\ Meets(r, p, l) /\ r.first < p /\ LeftEnd = [ref |-> 1, stream |-> r.stream]
  <2>1. (CHOOSE q \in left : TRUE) \in left
    BY <1>3
  <2>2. PICK q \in left : q = CHOOSE y \in left : TRUE
    BY <2>1
  <2>3. r \in R /\ q \in R /\ Meets(r, p, l) /\ Meets(q, p, l) /\ r.first < p /\ q.first < p
    BY <1>2
  <2>4. r = q
    <3>1. /\ r.first \in Int /\ r.last \in Int /\ q.first \in Int /\ q.last \in Int
          /\ r = q \/ r.last < q.first \/ q.last < r.first
      BY <2>3, DisjointFacts
    <3> QED BY <1>0, <2>3, <3>1 DEF Meets
  <2> QED BY <2>2, <2>3, <2>4
<1>4. ASSUME NEW r \in right
      PROVE  r \in R /\ Meets(r, p, l) /\ r.last > p + l - 1
             /\ RightEnd = [ref |-> 1, stream |-> r.stream]
  <2>1. (CHOOSE q \in right : TRUE) \in right
    BY <1>4
  <2>2. PICK q \in right : q = CHOOSE y \in right : TRUE
    BY <2>1
  <2>3. /\ r \in R /\ q \in R /\ Meets(r, p, l) /\ Meets(q, p, l)
        /\ r.last > p + l - 1 /\ q.last > p + l - 1
    BY <1>2
  <2>4. r = q
    <3>1. /\ r.first \in Int /\ r.last \in Int /\ q.first \in Int /\ q.last \in Int
          /\ r = q \/ r.last < q.first \/ q.last < r.first
      BY <2>3, DisjointFacts
    <3> QED BY <1>0, <2>3, <3>1 DEF Meets
  <2> QED BY <2>2, <2>3, <2>4
<1>5. /\ \A r \in R : Meets(r, p, l) /\ r.first < p => r \in left
      /\ \A r \in R : Meets(r, p, l) /\ r.last > p + l - 1 => r \in right
  BY <1>2
<1>6. (left # {} => LeftEnd \in Node) /\ (right # {} => RightEnd \in Node)
  <2>1. \A s \in Stream : [ref |-> 1, stream |-> s] \in Node
    BY ConstantsAssumption DEF Node
  <2>2. \A r \in R : r.stream \in Stream
    BY DisjointFacts
  <2> HIDE DEF left, right, LeftEnd, RightEnd
  <2> QED BY <1>3, <1>4, <2>1, <2>2
<1> HIDE DEF left, right, LeftEnd, RightEnd, D
<1>7. D \in Map
  <2>1. \A a \in Addr : m[a] \in Node /\ NoNode \in Node
    BY NodeFields DEF Map
  <2> QED BY <1>1, <1>6, <2>1 DEF Map
<1>8. /\ StartNode(p) = 2 * p /\ EndNode(p + l - 1) = 2 * (p + l) - 1
      /\ EndNode(p - 1) = 2 * p - 1 /\ StartNode(p + l) = 2 * (p + l)
  BY <1>0 DEF StartNode, EndNode
<1>9. ASSUME NEW x \in Trimmed(R, p, l)
      PROVE  /\ D[StartNode(x.first)] = [ref |-> x.ref, stream |-> x.stream]
             /\ D[EndNode(x.last)].stream = x.stream
  <2>1. PICK r \in R : /\ IsPiece(x, r, p, l) /\ x \in Region /\ x.stream = r.stream
                       /\ x.first \in Int /\ x.last \in Int
                       /\ x.first <= x.last /\ (x.last < p \/ p + l <= x.first)
    BY TrimmedFacts
  <2>2. /\ r.first \in Int /\ r.last \in Int /\ r.first <= r.last
    BY DisjointFacts
  <2>3. x.first \in Page /\ x.last \in Page
    BY <2>1 DEF Region
  <2>4. StartNode(x.first) \in Addr /\ EndNode(x.last) \in Addr
    BY <2>3, NodesAreAddresses
  <2>5. /\ StartNode(x.first) = 2 * x.first /\ EndNode(x.last) = 2 * x.last + 1
        /\ StartNode(x.first) \in Int /\ EndNode(x.last) \in Int
    BY <2>1 DEF StartNode, EndNode
  <2>6. /\ StartNode(x.first) \notin StartNode(p) .. EndNode(p + l - 1)
        /\ EndNode(x.last) \notin StartNode(p) .. EndNode(p + l - 1)
        /\ StartNode(x.first) # EndNode(p - 1) /\ EndNode(x.last) # StartNode(p + l)
    BY <1>0, <1>8, <2>1, <2>5
  <2>7. /\ D[StartNode(x.first)] = IF StartNode(x.first) = StartNode(p + l) /\ right # {}
                                     THEN RightEnd ELSE m[StartNode(x.first)]
        /\ D[EndNode(x.last)] = IF EndNode(x.last) = EndNode(p - 1) /\ left # {}
                                  THEN LeftEnd ELSE m[EndNode(x.last)]
    BY <1>1, <2>4, <2>6
  <2>8. /\ (StartNode(x.first) = StartNode(p + l)) <=> (x.first = p + l)
        /\ (EndNode(x.last) = EndNode(p - 1)) <=> (x.last = p - 1)
    <3>1. p - 1 \in Int
      BY <1>0
    <3> QED BY <1>0, <2>1, <3>1, NodeOrder
  <2>9. /\ m[StartNode(r.first)] = [ref |-> r.ref, stream |-> r.stream]
        /\ m[EndNode(r.last)].stream = r.stream
    BY RepresentsFacts
  <2>10. ASSUME NEW q \in R, q # r PROVE q.last < r.first \/ r.last < q.first
    BY <2>10, DisjointFacts
  <2>11. ASSUME right # {}, x.first = p + l
         PROVE  x = RightOf(r, p, l) /\ RightEnd = [ref |-> 1, stream |-> r.stream]
    <3>1. PICK q \in right : TRUE
      BY <2>11
    <3>2. /\ q \in R /\ Meets(q, p, l) /\ q.last > p + l - 1
          /\ RightEnd = [ref |-> 1, stream |-> q.stream]
      BY <1>4
    <3>3. q.first \in Int /\ q.last \in Int
      BY <3>2, DisjointFacts
    <3>4. r.first <= x.first /\ x.last <= r.last
      BY <2>1, TrimmedFacts, PieceFacts
    <3>5. q = r
      BY <1>0, <2>1, <2>2, <2>10, <2>11, <3>2, <3>3, <3>4 DEF Meets
    <3>6. x # LeftOf(r, p)
      <4>1. LeftOf(r, p).last = p - 1
        BY DEF LeftOf
      <4> QED BY <1>0, <2>1, <2>11, <4>1
    <3>7. Meets(r, p, l)
      BY <3>2, <3>5
    <3> QED BY <2>1, <3>2, <3>5, <3>6, <3>7 DEF IsPiece
  <2>12. ASSUME left # {}, x.last = p - 1
         PROVE  x = LeftOf(r, p) /\ LeftEnd = [ref |-> 1, stream |-> r.stream]
    <3>1. PICK q \in left : TRUE
      BY <2>12
    <3>2. /\ q \in R /\ Meets(q, p, l) /\ q.first < p
          /\ LeftEnd = [ref |-> 1, stream |-> q.stream]
      BY <1>3
    <3>3. q.first \in Int /\ q.last \in Int
      BY <3>2, DisjointFacts
    <3>4. r.first <= x.first /\ x.last <= r.last
      BY <2>1, TrimmedFacts, PieceFacts
    <3>5. q = r
      BY <1>0, <2>1, <2>2, <2>10, <2>12, <3>2, <3>3, <3>4 DEF Meets
    <3>6. x # RightOf(r, p, l)
      <4>1. RightOf(r, p, l).first = p + l
        BY DEF RightOf
      <4> QED BY <1>0, <2>1, <2>12, <4>1
    <3>7. Meets(r, p, l)
      BY <3>2, <3>5
    <3> QED BY <2>1, <3>2, <3>5, <3>6, <3>7 DEF IsPiece
  <2>13. CASE ~Meets(r, p, l) /\ x = r
    <3>1. ~(right # {} /\ x.first = p + l) /\ ~(left # {} /\ x.last = p - 1)
      <4>1. RightOf(r, p, l).last = r.last /\ LeftOf(r, p).first = r.first
            /\ RightOf(r, p, l).first = p + l /\ LeftOf(r, p).last = p - 1
        BY DEF RightOf, LeftOf
      <4>2. ASSUME NEW q \in R, Meets(q, p, l), q.last > p + l - 1 PROVE x.first # p + l
        <5>1. q.first \in Int /\ q.last \in Int /\ q # r
          BY <2>13, <4>2, DisjointFacts
        <5> QED BY <1>0, <2>2, <2>10, <2>13, <4>2, <5>1 DEF Meets
      <4>3. ASSUME NEW q \in R, Meets(q, p, l), q.first < p PROVE x.last # p - 1
        <5>1. q.first \in Int /\ q.last \in Int /\ q # r
          BY <2>13, <4>3, DisjointFacts
        <5> QED BY <1>0, <2>2, <2>10, <2>13, <4>3, <5>1 DEF Meets
      <4> QED BY <1>3, <1>4, <4>2, <4>3
    <3> QED BY <2>7, <2>8, <2>9, <2>13, <3>1
  <2>14. CASE Meets(r, p, l) /\ r.first < p /\ x = LeftOf(r, p)
    <3>1. x.first = r.first /\ x.last = p - 1 /\ x.ref = r.ref
      BY <2>14 DEF LeftOf
    <3>2. left # {} /\ x.first # p + l
      BY <1>0, <1>5, <2>1, <2>14, <3>1
    <3> QED BY <2>1, <2>7, <2>8, <2>9, <2>12, <3>1, <3>2
  <2>15. CASE Meets(r, p, l) /\ r.last > p + l - 1 /\ x = RightOf(r, p, l)
    <3>1. x.first = p + l /\ x.last = r.last /\ x.ref = 1
      BY <2>15 DEF RightOf
    <3>2. right # {} /\ x.last # p - 1
      BY <1>0, <1>5, <2>1, <2>15, <3>1
    <3> QED BY <2>1, <2>7, <2>8, <2>9, <2>11, <3>1, <3>2
  <2> QED BY <2>1, <2>13, <2>14, <2>15 DEF IsPiece
<1>10. ASSUME NEW a \in Addr, D[a] # NoNode
       PROVE  \E x \in Trimmed(R, p, l) : a = StartNode(x.first) \/ a = EndNode(x.last)
  <2>1. a \notin StartNode(p) .. EndNode(p + l - 1) /\ a \in Int
    BY <1>1, <1>10 DEF Addr
  <2>2. CASE a = EndNode(p - 1) /\ left # {}
    <3>1. PICK r \in left : TRUE
      BY <2>2
    <3>2. r \in R /\ Meets(r, p, l) /\ r.first < p
      BY <1>3
    <3>3. LeftOf(r, p) \in Trimmed(R, p, l)
      BY <3>2, TrimmedFacts DEF IsPiece
    <3>4. LeftOf(r, p).last = p - 1
      BY DEF LeftOf
    <3> QED BY <2>2, <3>3, <3>4
  <2>3. CASE a = StartNode(p + l) /\ right # {}
    <3>1. PICK r \in right : TRUE
      BY <2>3
    <3>2. r \in R /\ Meets(r, p, l) /\ r.last > p + l - 1
      BY <1>4
    <3>3. RightOf(r, p, l) \in Trimmed(R, p, l)
      BY <3>2, TrimmedFacts DEF IsPiece
    <3>4. RightOf(r, p, l).first = p + l
      BY DEF RightOf
    <3> QED BY <2>3, <3>3, <3>4
  <2>4. CASE ~(a = EndNode(p - 1) /\ left # {}) /\ ~(a = StartNode(p + l) /\ right # {})
    <3>1. m[a] # NoNode
      BY <1>1, <1>10, <2>1, <2>4
    <3>2. PICK r \in R : a = StartNode(r.first) \/ a = EndNode(r.last)
      BY <3>1 DEF Represents
    <3>3. r.first \in Int /\ r.last \in Int /\ r.first <= r.last
      BY DisjointFacts
    <3>4. CASE ~Meets(r, p, l)
      <4>1. r \in Trimmed(R, p, l)
        BY <3>4, TrimmedFacts DEF IsPiece
      <4> QED BY <3>2, <4>1
    <3>5. CASE Meets(r, p, l) /\ a = StartNode(r.first)
      <4>1. r.first < p
        BY <1>0, <1>8, <2>1, <3>3, <3>5 DEF Meets, StartNode
      <4>2. LeftOf(r, p) \in Trimmed(R, p, l)
        BY <3>5, <4>1, TrimmedFacts DEF IsPiece
      <4>3. LeftOf(r, p).first = r.first
        BY DEF LeftOf
      <4> QED BY <3>5, <4>2, <4>3
    <3>6. CASE Meets(r, p, l) /\ a = EndNode(r.last)
      <4>1. r.last > p + l - 1
        BY <1>0, <1>8, <2>1, <3>3, <3>6 DEF Meets, EndNode
      <4>2. RightOf(r, p, l) \in Trimmed(R, p, l)
        BY <3>6, <4>1, TrimmedFacts DEF IsPiece
      <4>3. RightOf(r, p, l).last = r.last
        BY DEF RightOf
      <4> QED BY <3>6, <4>2, <4>3
    <3> QED BY <3>2, <3>4, <3>5, <3>6
  <2> QED BY <2>2, <2>3, <2>4
<1> QED BY <1>7, <1>9, <1>10 DEF Represents, D

-----------------------------------------------------------------------------
(* Pages *)

\* Two regions with a page in common are one.
LEMMA SamePage ==
  ASSUME NEW R, Disjoint(R), NEW r \in R, NEW q \in R, NEW x \in PagesOf(r), x \in PagesOf(q)
  PROVE  r = q
<1>1. /\ r.first \in Int /\ r.last \in Int /\ q.first \in Int /\ q.last \in Int
      /\ (r = q \/ r.last < q.first \/ q.last < r.first)
  BY DisjointFacts
<1> QED BY <1>1 DEF PagesOf

LEMMA MeetsPages ==
  ASSUME NEW R, Disjoint(R), NEW r \in R, NEW p \in Page, NEW l \in Nat \ {0}
  PROVE  /\ \A x \in PagesOf(r) : x \in Page
         /\ \A x \in PagesOf(r) : x \in Span(p, l) => Meets(r, p, l)
<1>1. /\ r.first \in Int /\ r.last \in Int /\ 0 <= r.first /\ r.last < NumPages /\ p \in Int
      /\ NumPages \in Int
  BY DisjointFacts, ConstantsAssumption DEF Page
<1> QED BY <1>1 DEF PagesOf, Span, Page, Meets

\* The part of r inside Span(p, l).
ClipOf(r, p, l) ==
    [first |-> Max({p, r.first}), last |-> Min({p + l - 1, r.last}), stream |-> r.stream]

LEMMA ClipsAre ==
  ASSUME NEW R, Disjoint(R), Represents(map_, R), NEW p \in Page, NEW l \in Nat \ {0}
  PROVE  Clips(map_, p, l) = {ClipOf(r, p, l) : r \in {q \in R : Meets(q, p, l)}}
<1>1. Touched(map_, p, l) = {r \in R : Meets(r, p, l)}
  BY TouchedAre
<1> QED BY <1>1 DEF Clips, ClipOf

LEMMA ClipFacts ==
  ASSUME NEW R, Disjoint(R), NEW p \in Page, NEW l \in Nat \ {0},
         NEW r \in R, Meets(r, p, l)
  PROVE  /\ ClipOf(r, p, l).stream = r.stream
         /\ ClipOf(r, p, l).first \in PagesOf(r)
         /\ \A q \in PagesOf(r) : q \in Span(p, l) => q \in PagesOf(ClipOf(r, p, l))
         /\ \A q \in PagesOf(ClipOf(r, p, l)) : q \in PagesOf(r) /\ q \in Span(p, l)
<1> DEFINE c == ClipOf(r, p, l)
<1>1. /\ r.first \in Int /\ r.last \in Int /\ r.first <= r.last
      /\ p \in Int /\ p + l - 1 \in Int /\ p <= p + l - 1
      /\ r.first <= p + l - 1 /\ p <= r.last
  BY DisjointFacts DEF Page, Meets
<1>2. c.first = (IF p >= r.first THEN p ELSE r.first)
  <2>1. {p, r.first} \in SUBSET Int
    BY <1>1
  <2>2. Max({p, r.first}) = (IF p >= r.first THEN p ELSE r.first)
    <3>1. CASE p >= r.first
      <4>1. p \in {p, r.first} /\ \A y \in {p, r.first} : p >= y
        BY <1>1, <3>1
      <4> QED BY <2>1, <3>1, <4>1, MaxIs
    <3>2. CASE ~(p >= r.first)
      <4>1. r.first \in {p, r.first} /\ \A y \in {p, r.first} : r.first >= y
        BY <1>1, <3>2
      <4> QED BY <2>1, <3>2, <4>1, MaxIs
    <3> QED BY <3>1, <3>2
  <2> QED BY <2>2 DEF ClipOf
<1>3. c.last = (IF p + l - 1 <= r.last THEN p + l - 1 ELSE r.last)
  <2> DEFINE e == p + l - 1
  <2>1. {e, r.last} \in SUBSET Int /\ e \in Int
    BY <1>1
  <2>2. c.last = Min({e, r.last})
    BY DEF ClipOf
  <2> HIDE DEF e
  <2>3. Min({e, r.last}) = (IF e <= r.last THEN e ELSE r.last)
    <3>1. CASE e <= r.last
      <4>1. e \in {e, r.last} /\ \A y \in {e, r.last} : e <= y
        BY <1>1, <2>1, <3>1
      <4> QED BY <2>1, <3>1, <4>1, MinIs
    <3>2. CASE ~(e <= r.last)
      <4>1. r.last \in {e, r.last} /\ \A y \in {e, r.last} : r.last <= y
        BY <1>1, <2>1, <3>2
      <4> QED BY <2>1, <3>2, <4>1, MinIs
    <3> QED BY <3>1, <3>2
  <2> QED BY <2>2, <2>3 DEF e
<1>4. c.stream = r.stream
  BY DEF ClipOf
<1> HIDE DEF c
<1>5. c.first \in PagesOf(r)
  BY <1>1, <1>2 DEF PagesOf
<1>6. \A q \in PagesOf(r) : q \in Span(p, l) => q \in PagesOf(c)
  BY <1>1, <1>2, <1>3 DEF PagesOf, Span
<1>7. \A q \in PagesOf(c) : q \in PagesOf(r) /\ q \in Span(p, l)
  BY <1>1, <1>2, <1>3 DEF PagesOf, Span
<1> QED BY <1>4, <1>5, <1>6, <1>7 DEF c

\* The pages of an object and of the region that covers it.
LEMMA CoversPages ==
  ASSUME NEW r, NEW s, NEW d, Covers(r, s, d)
  PROVE  PagesOf(r) = Content(d[s]) /\ r.stream = s
BY DEF Covers, PagesOf, Content, Span

-----------------------------------------------------------------------------
(* The end of a call *)

Typed(m, pages, fds, d, n) ==
    /\ m \in Map /\ pages \in Pages /\ fds \subseteq Ashmem
    /\ d \in [Ashmem -> Dev] /\ n \in [Ashmem -> 0 .. MaxRef]

LEMMA TypedIs == TypeOK => Typed(map_, os, opened, dev, count)
BY DEF TypeOK, Typed, Map, Node, Pages, Dev

LEMMA FreshFacts ==
  /\ Fresh \in Dev /\ Fresh.state = "INITIAL" /\ Fresh.content = NoContent
  /\ Free \in [by : Stream \cup {None}, kind : {"free", "shared", "private", "file"}]
BY ConstantsAssumption DEF Fresh, Dev, Free

\* The memory of an object is in the address space.
LEMMA ContentPages ==
  ASSUME NEW m, NEW pages, NEW fds, NEW d, NEW n, Typed(m, pages, fds, d, n), Placed(fds, d, n),
         NEW s \in Ashmem, d[s].content # NoContent, NEW q \in Content(d[s])
  PROVE  q \in Page
<1>1. d[s] \in Dev
  BY DEF Typed
<1>2. d[s].content \in Page /\ d[s].length \in Int
  BY <1>1 DEF Dev
<1>3. d[s].content + d[s].length <= NumPages
  BY DEF Placed
<1> QED BY <1>2, <1>3, ConstantsAssumption DEF Content, Span, Page

\* The destruction of the objects that nothing refers to disturbs nobody else.
LEMMA EndsSound ==
  ASSUME NEW m, NEW R, NEW pages, NEW fds, NEW d, NEW n,
         Typed(m, pages, fds, d, n), Disjoint(R), Represents(m, R),
         Sound(R, pages, fds, d, n), Running, Ends(m, pages, fds, d), count' = n
  PROVE  Inv'
<1> DEFINE dead == Unreferenced(m, fds)
<1>0. /\ m \in Map /\ pages \in Pages /\ fds \subseteq Ashmem
      /\ d \in [Ashmem -> Dev] /\ n \in [Ashmem -> 0 .. MaxRef]
  BY DEF Typed
<1>1. /\ map_' = m /\ opened' = fds /\ failed' = "none"
      /\ dev' = [s \in Ashmem |-> IF s \in dead THEN Fresh ELSE d[s]]
      /\ os' = [p \in Page |-> IF \E s \in dead : p \in Destroyed(d[s]) THEN Free ELSE pages[p]]
  BY DEF Ends, Running
<1>2. /\ Owned(R, pages) /\ Kept(R, pages, d) /\ Placed(fds, d, n)
      /\ Delayed(R, pages, d, n) /\ MappedOnce(R, pages, d, n) /\ ManyRefs(R, d)
  BY DEF Sound
<1>3. ASSUME NEW r \in R PROVE r.stream \notin dead
  <2>1. m[StartNode(r.first)].stream = r.stream
    BY RepresentsFields
  <2>2. StartNode(r.first) \in Addr
    BY DisjointFacts, NodesAreAddresses
  <2> QED BY <2>1, <2>2 DEF Unreferenced
<1>4. /\ \A s \in dead : dev'[s] = Fresh /\ s \notin fds /\ s \in Ashmem
      /\ \A s \in Ashmem : s \notin dead => dev'[s] = d[s]
  BY <1>1 DEF Unreferenced
<1>5. /\ \A s \in dead, p \in Page : p \in Destroyed(d[s]) => os'[p] = Free
      /\ \A p \in Page : (\A s \in dead : p \notin Destroyed(d[s])) => os'[p] = pages[p]
  BY <1>1
<1> HIDE DEF dead
<1>6. ASSUME NEW s \in dead, NEW p \in Destroyed(d[s])
      PROVE  /\ s \in Ashmem /\ d[s].state = "UNMAP_DELAYED" /\ p \in Content(d[s])
             /\ pages[p].by = s /\ \A r \in R : p \notin PagesOf(r)
  <2>1. s \in Ashmem /\ d[s].state = "UNMAP_DELAYED" /\ p \in Content(d[s])
    BY <1>4, <1>6 DEF Destroyed
  <2>2. pages[p] = [by |-> s, kind |-> "shared"]
    BY <1>2, <2>1 DEF Delayed, Intact
  <2>3. \A r \in R : PagesOf(r) \cap Content(d[s]) = {}
    BY <1>2, <2>1 DEF Delayed
  <2>4. pages[p].by = s
    BY <2>2
  <2> QED BY <2>1, <2>3, <2>4
<1>7. TypeOK'
  <2>1. dev' \in [Ashmem -> Dev]
    BY <1>0, <1>1, FreshFacts
  <2>2. os' \in Pages
    BY <1>0, <1>1, FreshFacts DEF Pages
  <2> QED BY <1>0, <1>1, <2>1, <2>2 DEF TypeOK, Map, Node, Pages, Dev
<1>8. Owned(R, os')
  <2> SUFFICES ASSUME NEW r \in R, NEW p \in PagesOf(r) PROVE os'[p].by = r.stream
    BY DEF Owned
  <2>1. p \in Page
    <3>1. r.first \in Int /\ r.last \in Int /\ 0 <= r.first /\ r.last < NumPages
      BY DisjointFacts
    <3> QED BY <3>1, ConstantsAssumption DEF PagesOf, Page
  <2>2. os'[p] = pages[p]
    BY <1>5, <1>6, <2>1
  <2> QED BY <1>2, <2>2 DEF Owned
<1>9. Kept(R, os', dev')
  <2> SUFFICES ASSUME NEW p \in Page, os'[p] # Free, ~\E r \in R : p \in PagesOf(r)
               PROVE  \E s \in Ashmem : dev'[s].state = "UNMAP_DELAYED" /\ p \in Content(dev'[s])
    BY DEF Kept
  <2>1. os'[p] = pages[p]
    BY <1>5
  <2>2. PICK s \in Ashmem : d[s].state = "UNMAP_DELAYED" /\ p \in Content(d[s])
    BY <1>2, <2>1 DEF Kept
  <2>3. s \notin dead
    BY <1>5, <2>2 DEF Destroyed
  <2> QED BY <1>4, <2>2, <2>3
<1>10. Placed(fds, dev', n)
  <2> SUFFICES ASSUME NEW s \in Ashmem
               PROVE  /\ dev'[s].content # NoContent =>
                           dev'[s].length >= 1 /\ dev'[s].content + dev'[s].length <= NumPages
                      /\ dev'[s].state = "INITIAL" => dev'[s].content = NoContent
                      /\ dev'[s].content = NoContent /\ (s \in fds \/ dev'[s].state = "MAPPED")
                           => n[s] = 0
    BY DEF Placed
  <2>1. CASE s \in dead
    BY <1>4, <2>1, FreshFacts
  <2>2. CASE s \notin dead
    <3>1. dev'[s] = d[s]
      BY <1>4, <2>2
    <3> QED BY <1>2, <3>1 DEF Placed
  <2> QED BY <2>1, <2>2
<1>11. ASSUME NEW s \in Ashmem, s \notin dead, Intact(s, pages, d), d[s].content # NoContent
       PROVE  Intact(s, os', dev')
  <2>0. dev'[s] = d[s]
    BY <1>4, <1>11
  <2> SUFFICES ASSUME NEW p \in Content(d[s]) PROVE os'[p] = [by |-> s, kind |-> "shared"]
    BY <2>0 DEF Intact
  <2>1. p \in Page
    BY <1>2, <1>11, ContentPages
  <2>2. pages[p] = [by |-> s, kind |-> "shared"]
    BY <1>11 DEF Intact
  <2>3. pages[p].by = s
    BY <2>2
  <2>4. \A t \in dead : p \notin Destroyed(d[t])
    BY <1>6, <1>11, <2>3
  <2> QED BY <1>5, <2>1, <2>2, <2>4
<1>12. Delayed(R, os', dev', n)
  <2> SUFFICES ASSUME NEW s \in Ashmem, dev'[s].state = "UNMAP_DELAYED"
               PROVE  /\ dev'[s].content # NoContent /\ n[s] = 0 /\ Intact(s, os', dev')
                      /\ \A r \in R : PagesOf(r) \cap Content(dev'[s]) = {}
    BY DEF Delayed
  <2>1. s \notin dead
    BY <1>4, FreshFacts
  <2>2. dev'[s] = d[s]
    BY <1>4, <2>1
  <2>3. /\ d[s].content # NoContent /\ n[s] = 0 /\ Intact(s, pages, d)
        /\ \A r \in R : PagesOf(r) \cap Content(d[s]) = {}
    BY <1>2, <2>2 DEF Delayed
  <2> QED BY <1>11, <2>1, <2>2, <2>3
<1>13. MappedOnce(R, os', dev', n)
  <2> SUFFICES ASSUME NEW s \in Ashmem, dev'[s].state = "MAPPED", dev'[s].content # NoContent
               PROVE  /\ n[s] > 0 /\ Intact(s, os', dev')
                      /\ \E r \in R : Covers(r, s, dev') /\ r.ref = n[s]
    BY DEF MappedOnce
  <2>1. s \notin dead
    BY <1>4, FreshFacts
  <2>2. dev'[s] = d[s]
    BY <1>4, <2>1
  <2>3. /\ n[s] > 0 /\ Intact(s, pages, d)
        /\ \E r \in R : Covers(r, s, d) /\ r.ref = n[s]
    BY <1>2, <2>2 DEF MappedOnce
  <2>4. \A r : Covers(r, s, d) => Covers(r, s, dev')
    BY <2>2 DEF Covers
  <2> QED BY <1>11, <2>1, <2>2, <2>3, <2>4
<1>14. ManyRefs(R, dev')
  <2> SUFFICES ASSUME NEW r \in R, r.ref > 1
               PROVE  /\ r.stream \in Ashmem /\ dev'[r.stream].state = "MAPPED"
                      /\ Covers(r, r.stream, dev')
    BY DEF ManyRefs
  <2>1. r.stream \in Ashmem /\ d[r.stream].state = "MAPPED" /\ Covers(r, r.stream, d)
    BY <1>2 DEF ManyRefs
  <2>2. dev'[r.stream] = d[r.stream]
    BY <1>3, <1>4, <2>1
  <2> QED BY <2>1, <2>2 DEF Covers
<1>15. Sound(R, os', opened', dev', count')
  BY <1>1, <1>8, <1>9, <1>10, <1>12, <1>13, <1>14 DEF Sound
<1>16. Regions(m) = R
  BY RegionsAre
<1>17. NoAssertFails'
  BY <1>1 DEF NoAssertFails
<1> QED BY <1>1, <1>7, <1>15, <1>16, <1>17 DEF Inv

-----------------------------------------------------------------------------
(* A new mapping *)

\* The object t is as it was.
Same(t, d, n) ==
    /\ d[t].content = dev[t].content /\ d[t].length = dev[t].length
    /\ d[t].state = dev[t].state /\ n[t] = count[t]

\* The object t is s, which has its memory at Span(p, l) now.
IsNew(t, s, p, l, kind, d, n) ==
    /\ t = s /\ kind = "shared" /\ n[t] = 1
    /\ d[t].content = p /\ d[t].length = l /\ d[t].state = "MAPPED"
    /\ \/ dev[t].state = "INITIAL"
       \/ dev[t].state = "UNMAP_DELAYED" /\ Content(dev[t]) = Span(p, l)

LEMMA SameContent ==
  ASSUME NEW t, NEW d, NEW n, Same(t, d, n)
  PROVE  Content(d[t]) = Content(dev[t]) /\ d[t].state = dev[t].state
BY DEF Same, Content

\* Overwritten changes the state of the objects whose memory is hit, and nothing
\* else.
LEMMA OverwrittenFacts ==
  ASSUME NEW R, Disjoint(R), Represents(map_, R), NEW p \in Page, NEW l \in Nat \ {0},
         NEW d \in [Ashmem -> Dev], NEW t \in Ashmem,
         NEW e, e = Overwritten(map_, d, p, l)
  PROVE  /\ e \in [Ashmem -> Dev]
         /\ e[t].content = d[t].content /\ e[t].length = d[t].length
         /\ (e[t].state = d[t].state
             \/ (d[t].state = "MAPPED" /\ e[t].state = "PARTIALLY_UNMAPPED"))
         /\ e[t].state = "MAPPED" => \A r \in R :
              Meets(r, p, l) /\ r.stream = t => PagesOf(r) # Content(d[t])
         /\ (\A r \in R : Meets(r, p, l) /\ r.stream = t => PagesOf(r) \cap Content(d[t]) = {})
              => e[t] = d[t]
<1> DEFINE Hit(s) == \E c \in Clips(map_, p, l) : c.stream = s /\ IsMapShared(d[s], c.first)
<1>0. d[t] \in Dev
  OBVIOUS
<1>1. e = [s \in Ashmem |-> IF d[s].state = "MAPPED" /\ Hit(s)
                              THEN [d[s] EXCEPT !.state = "PARTIALLY_UNMAPPED"] ELSE d[s]]
  BY DEF Overwritten
<1>2. Clips(map_, p, l) = {ClipOf(r, p, l) : r \in {q \in R : Meets(q, p, l)}}
  BY ClipsAre
<1>3. ASSUME NEW r \in R, Meets(r, p, l), r.stream = t, PagesOf(r) = Content(d[t]) PROVE Hit(t)
  <2>1. ClipOf(r, p, l).stream = t /\ ClipOf(r, p, l).first \in Content(d[t])
    BY <1>3, ClipFacts
  <2>2. ClipOf(r, p, l) \in Clips(map_, p, l)
    BY <1>2, <1>3
  <2> QED BY <2>1, <2>2 DEF IsMapShared
<1>4. ASSUME Hit(t)
      PROVE  \E r \in R : Meets(r, p, l) /\ r.stream = t /\ PagesOf(r) \cap Content(d[t]) # {}
  <2>1. PICK c \in Clips(map_, p, l) : c.stream = t /\ c.first \in Content(d[t])
    BY <1>4 DEF IsMapShared
  <2>2. PICK r \in R : Meets(r, p, l) /\ c = ClipOf(r, p, l)
    BY <1>2, <2>1
  <2>3. c.stream = r.stream /\ c.first \in PagesOf(r)
    BY <2>2, ClipFacts
  <2> QED BY <2>1, <2>2, <2>3
<1> HIDE DEF Hit
<1>5. \A x \in Dev : [x EXCEPT !.state = "PARTIALLY_UNMAPPED"] \in Dev
                     /\ [x EXCEPT !.state = "PARTIALLY_UNMAPPED"].content = x.content
                     /\ [x EXCEPT !.state = "PARTIALLY_UNMAPPED"].length = x.length
                     /\ [x EXCEPT !.state = "PARTIALLY_UNMAPPED"].state = "PARTIALLY_UNMAPPED"
  BY DEF Dev
<1>6. e \in [Ashmem -> Dev]
  BY <1>1, <1>5
<1>7. \/ d[t].state = "MAPPED" /\ Hit(t) /\ e[t] = [d[t] EXCEPT !.state = "PARTIALLY_UNMAPPED"]
      \/ ~(d[t].state = "MAPPED" /\ Hit(t)) /\ e[t] = d[t]
  BY <1>1
<1>8. /\ e[t].content = d[t].content /\ e[t].length = d[t].length
      /\ (\/ d[t].state = "MAPPED" /\ Hit(t) /\ e[t].state = "PARTIALLY_UNMAPPED"
          \/ ~(d[t].state = "MAPPED" /\ Hit(t)) /\ e[t] = d[t] /\ e[t].state = d[t].state)
  BY <1>0, <1>5, <1>7
<1>9. e[t].state = "MAPPED" => ~Hit(t)
  BY <1>8
<1>10. e[t].state = "MAPPED" =>
         \A r \in R : Meets(r, p, l) /\ r.stream = t => PagesOf(r) # Content(d[t])
  BY <1>3, <1>9
<1>11. (\A r \in R : Meets(r, p, l) /\ r.stream = t => PagesOf(r) \cap Content(d[t]) = {})
         => e[t] = d[t]
  BY <1>4, <1>8
<1>12. e[t].state = d[t].state \/ (d[t].state = "MAPPED" /\ e[t].state = "PARTIALLY_UNMAPPED")
  BY <1>8
<1>13. e[t].content = d[t].content /\ e[t].length = d[t].length
  BY <1>8
<1> QED BY <1>6, <1>10, <1>11, <1>12, <1>13, Zenon

LEMMA MappedFacts ==
  ASSUME NEW p \in Page, NEW l \in Nat \ {0}, NEW s \in Stream, NEW kind, NEW q \in Page
  PROVE  /\ q \in Span(p, l) => Mapped(p, l, s, kind)[q] = [by |-> s, kind |-> kind]
         /\ q \notin Span(p, l) => Mapped(p, l, s, kind)[q] = os[q]
BY DEF Mapped

\* What is left of a region has its stream and a part of its pages; only a
\* region that was not met has several references.
LEMMA RegionsLeft ==
  ASSUME NEW R, Disjoint(R), NEW p \in Page, NEW l \in Nat \ {0}, p + l <= NumPages,
         \A r \in R : Meets(r, p, l) => r.ref = 1, NEW y \in Trimmed(R, p, l)
  PROVE  \E r \in R : /\ y.stream = r.stream /\ (y.ref > 1 => y = r /\ ~Meets(r, p, l))
                      /\ \A q \in PagesOf(y) : q \in PagesOf(r) /\ q \notin Span(p, l) /\ q \in Page
<1>1. PICK r \in R : /\ IsPiece(y, r, p, l) /\ y.stream = r.stream /\ y.ref \in {r.ref, 1}
                     /\ y.first \in Int /\ y.last \in Int
                     /\ r.first <= y.first /\ y.last <= r.last
                     /\ (y.last < p \/ p + l <= y.first)
  BY TrimmedFacts
<1>2. r.first \in Int /\ r.last \in Int /\ p \in Int
  BY DisjointFacts DEF Page
<1>3. ASSUME NEW q \in PagesOf(y) PROVE q \in PagesOf(r) /\ q \notin Span(p, l)
  BY <1>1, <1>2 DEF PagesOf, Span
<1>4. \A q \in PagesOf(r) : q \in Page
  BY MeetsPages
<1>5. y.ref > 1 => y = r /\ ~Meets(r, p, l)
  <2>1. Meets(r, p, l) => r.ref = 1
    OBVIOUS
  <2>2. y.ref > 1 => ~Meets(r, p, l)
    BY <1>1, <2>1
  <2> QED BY <1>1, <2>2 DEF IsPiece
<1> QED BY <1>1, <1>3, <1>4, <1>5

\* With a region at Span(p, l) and what it leaves of the others, all is sound again.
LEMMA RegionPlaced ==
  ASSUME NEW R, Typed(map_, os, opened, dev, count), Disjoint(R), Represents(map_, R),
         Sound(R, os, opened, dev, count),
         NEW p \in Page, NEW l \in Nat \ {0}, p + l <= NumPages, NEW s \in Stream, NEW kind,
         NEW d \in [Ashmem -> Dev], NEW n \in [Ashmem -> 0 .. MaxRef],
         \A r \in R : Meets(r, p, l) => r.ref = 1,
         \A t \in Ashmem : Same(t, d, n) \/ IsNew(t, s, p, l, kind, d, n),
         \A t \in Ashmem : Same(t, d, n) /\ dev[t].state = "UNMAP_DELAYED" =>
                             Content(dev[t]) \cap Span(p, l) = {}
  PROVE  Sound(Trimmed(R, p, l) \cup {NewRegion(p, l, s)}, Mapped(p, l, s, kind), opened,
               Overwritten(map_, d, p, l), n)
<1> DEFINE T == Trimmed(R, p, l)
           x == NewRegion(p, l, s)
           P == Mapped(p, l, s, kind)
           e == Overwritten(map_, d, p, l)
<1>0. /\ Owned(R, os) /\ Kept(R, os, dev) /\ Placed(opened, dev, count)
      /\ Delayed(R, os, dev, count) /\ MappedOnce(R, os, dev, count) /\ ManyRefs(R, dev)
  BY DEF Sound
<1>1. /\ x.first = p /\ x.last = p + l - 1 /\ x.ref = 1 /\ x.stream = s
      /\ PagesOf(x) = Span(p, l)
  BY NewRegionFacts DEF PagesOf, Span
<1>2. \A q \in Span(p, l) : q \in Page
  BY ConstantsAssumption DEF Span, Page
<1>3. \A q \in Page : /\ q \in Span(p, l) => P[q] = [by |-> s, kind |-> kind]
                      /\ q \notin Span(p, l) => P[q] = os[q]
  BY MappedFacts
<1>4. ASSUME NEW t \in Ashmem
      PROVE  /\ e[t].content = d[t].content /\ e[t].length = d[t].length
             /\ (e[t].state = d[t].state
                 \/ (d[t].state = "MAPPED" /\ e[t].state = "PARTIALLY_UNMAPPED"))
             /\ e[t].state = "MAPPED" => \A r \in R :
                  Meets(r, p, l) /\ r.stream = t => PagesOf(r) # Content(d[t])
             /\ (\A r \in R : Meets(r, p, l) /\ r.stream = t => PagesOf(r) \cap Content(d[t]) = {})
                  => e[t] = d[t]
             /\ Content(e[t]) = Content(d[t])
  <2>1. /\ e[t].content = d[t].content /\ e[t].length = d[t].length
        /\ (e[t].state = d[t].state
            \/ (d[t].state = "MAPPED" /\ e[t].state = "PARTIALLY_UNMAPPED"))
        /\ e[t].state = "MAPPED" => \A r \in R :
             Meets(r, p, l) /\ r.stream = t => PagesOf(r) # Content(d[t])
        /\ (\A r \in R : Meets(r, p, l) /\ r.stream = t => PagesOf(r) \cap Content(d[t]) = {})
             => e[t] = d[t]
    BY OverwrittenFacts
  <2>2. Content(e[t]) = Content(d[t])
    BY <2>1 DEF Content
  <2> QED BY <2>1, <2>2
<1>5. ASSUME NEW y \in T
      PROVE  \E r \in R : /\ y.stream = r.stream /\ (y.ref > 1 => y = r /\ ~Meets(r, p, l))
                          /\ \A q \in PagesOf(y) : q \in PagesOf(r) /\ q \notin Span(p, l) /\ q \in Page
  BY RegionsLeft
<1>6. \A r \in R : ~Meets(r, p, l) => r \in T
  BY TrimmedFacts DEF IsPiece
<1> HIDE DEF T, x, P, e
<1>7. Owned(T \cup {x}, P)
  <2> SUFFICES ASSUME NEW y \in T \cup {x}, NEW q \in PagesOf(y) PROVE P[q].by = y.stream
    BY DEF Owned
  <2>1. CASE y = x
    BY <1>1, <1>2, <1>3, <2>1
  <2>2. CASE y \in T
    <3>1. PICK r \in R : y.stream = r.stream /\ q \in PagesOf(r) /\ q \notin Span(p, l) /\ q \in Page
      BY <1>5, <2>2
    <3>2. os[q].by = r.stream
      BY <1>0, <3>1 DEF Owned
    <3> QED BY <1>3, <3>1, <3>2
  <2> QED BY <2>1, <2>2
<1>8. Kept(T \cup {x}, P, e)
  <2> SUFFICES ASSUME NEW q \in Page, P[q] # Free, ~\E y \in T \cup {x} : q \in PagesOf(y)
               PROVE  \E t \in Ashmem : e[t].state = "UNMAP_DELAYED" /\ q \in Content(e[t])
    BY DEF Kept
  <2>1. q \notin Span(p, l)
    BY <1>1
  <2>2. os[q] # Free
    BY <1>3, <2>1
  <2>3. ~\E r \in R : q \in PagesOf(r)
    BY <2>1, TrimmedPages DEF T
  <2>4. PICK t \in Ashmem : dev[t].state = "UNMAP_DELAYED" /\ q \in Content(dev[t])
    BY <1>0, <2>2, <2>3 DEF Kept
  <2>5. Same(t, d, n)
    BY <2>1, <2>4 DEF IsNew
  <2>6. Content(d[t]) = Content(dev[t]) /\ d[t].state = "UNMAP_DELAYED"
    BY <2>4, <2>5, SameContent
  <2>7. e[t].state = "UNMAP_DELAYED" /\ Content(e[t]) = Content(d[t])
    BY <1>4, <2>6
  <2> QED BY <2>4, <2>6, <2>7
<1>9. Placed(opened, e, n)
  <2> SUFFICES ASSUME NEW t \in Ashmem
               PROVE  /\ e[t].content # NoContent =>
                           e[t].length >= 1 /\ e[t].content + e[t].length <= NumPages
                      /\ e[t].state = "INITIAL" => e[t].content = NoContent
                      /\ e[t].content = NoContent /\ (t \in opened \/ e[t].state = "MAPPED")
                           => n[t] = 0
    BY DEF Placed
  <2>1. /\ e[t].content = d[t].content /\ e[t].length = d[t].length
        /\ (e[t].state = d[t].state
            \/ (d[t].state = "MAPPED" /\ e[t].state = "PARTIALLY_UNMAPPED"))
    BY <1>4
  <2>2. CASE Same(t, d, n)
    <3>1. /\ dev[t].content # NoContent =>
               dev[t].length >= 1 /\ dev[t].content + dev[t].length <= NumPages
          /\ dev[t].state = "INITIAL" => dev[t].content = NoContent
          /\ dev[t].content = NoContent /\ (t \in opened \/ dev[t].state = "MAPPED")
               => count[t] = 0
      BY <1>0 DEF Placed
    <3>2. /\ e[t].content = dev[t].content /\ e[t].length = dev[t].length /\ n[t] = count[t]
          /\ (e[t].state = dev[t].state
              \/ (dev[t].state = "MAPPED" /\ e[t].state = "PARTIALLY_UNMAPPED"))
      BY <2>1, <2>2 DEF Same
    <3> QED BY <3>1, <3>2
  <2>3. CASE IsNew(t, s, p, l, kind, d, n)
    <3>1. e[t].content = p /\ e[t].length = l /\ e[t].state # "INITIAL" /\ l >= 1
      BY <2>1, <2>3 DEF IsNew
    <3>2. p # NoContent
      BY DEF NoContent, Page
    <3> QED BY <3>1, <3>2
  <2> QED BY <2>2, <2>3
<1>10. ASSUME NEW t \in Ashmem, Same(t, d, n), dev[t].content # NoContent, Intact(t, os, dev),
              Content(dev[t]) \cap Span(p, l) = {}
       PROVE  Intact(t, P, e)
  <2>1. Content(e[t]) = Content(dev[t])
    BY <1>4, <1>10, SameContent
  <2> SUFFICES ASSUME NEW q \in Content(dev[t]) PROVE P[q] = [by |-> t, kind |-> "shared"]
    BY <2>1 DEF Intact
  <2>2. q \in Page
    BY <1>0, <1>10, ContentPages
  <2>3. os[q] = [by |-> t, kind |-> "shared"]
    BY <1>10 DEF Intact
  <2>4. q \notin Span(p, l)
    BY <1>10
  <2> QED BY <1>3, <2>2, <2>3, <2>4
<1>11. Delayed(T \cup {x}, P, e, n)
  <2> SUFFICES ASSUME NEW t \in Ashmem, e[t].state = "UNMAP_DELAYED"
               PROVE  /\ e[t].content # NoContent /\ n[t] = 0 /\ Intact(t, P, e)
                      /\ \A y \in T \cup {x} : PagesOf(y) \cap Content(e[t]) = {}
    BY DEF Delayed
  <2>1. d[t].state = "UNMAP_DELAYED" /\ e[t].content = d[t].content /\ Content(e[t]) = Content(d[t])
    BY <1>4
  <2>2. Same(t, d, n)
    BY <2>1 DEF IsNew
  <2>3. /\ dev[t].state = "UNMAP_DELAYED" /\ e[t].content = dev[t].content
        /\ Content(e[t]) = Content(dev[t]) /\ n[t] = count[t]
    BY <2>1, <2>2, SameContent DEF Same
  <2>4. Content(dev[t]) \cap Span(p, l) = {}
    BY <2>2, <2>3
  <2>5. /\ dev[t].content # NoContent /\ count[t] = 0 /\ Intact(t, os, dev)
        /\ \A r \in R : PagesOf(r) \cap Content(dev[t]) = {}
    BY <1>0, <2>3 DEF Delayed
  <2>6. ASSUME NEW y \in T \cup {x} PROVE PagesOf(y) \cap Content(dev[t]) = {}
    <3>1. CASE y = x
      BY <1>1, <2>4, <3>1
    <3>2. CASE y \in T
      <4>1. PICK r \in R : \A q \in PagesOf(y) : q \in PagesOf(r)
        BY <1>5, <3>2
      <4> QED BY <2>5, <4>1
    <3> QED BY <3>1, <3>2
  <2> QED BY <1>10, <2>2, <2>3, <2>4, <2>5, <2>6
<1>12. MappedOnce(T \cup {x}, P, e, n)
  <2> SUFFICES ASSUME NEW t \in Ashmem, e[t].state = "MAPPED", e[t].content # NoContent
               PROVE  /\ n[t] > 0 /\ Intact(t, P, e)
                      /\ \E y \in T \cup {x} : Covers(y, t, e) /\ y.ref = n[t]
    BY DEF MappedOnce
  <2>1. /\ d[t].state = "MAPPED" /\ e[t].content = d[t].content /\ e[t].length = d[t].length
        /\ Content(e[t]) = Content(d[t])
        /\ \A r \in R : Meets(r, p, l) /\ r.stream = t => PagesOf(r) # Content(d[t])
    BY <1>4
  <2>2. CASE Same(t, d, n)
    <3>1. /\ dev[t].state = "MAPPED" /\ dev[t].content = e[t].content /\ dev[t].length = e[t].length
          /\ Content(d[t]) = Content(dev[t]) /\ n[t] = count[t]
      BY <2>1, <2>2, SameContent DEF Same
    <3>2. /\ count[t] > 0 /\ Intact(t, os, dev)
          /\ \E r \in R : Covers(r, t, dev) /\ r.ref = count[t]
      BY <1>0, <3>1 DEF MappedOnce
    <3>3. PICK r \in R : Covers(r, t, dev) /\ r.ref = count[t]
      BY <3>2
    <3>4. PagesOf(r) = Content(dev[t]) /\ r.stream = t
      BY <3>3, CoversPages
    <3>5. ~Meets(r, p, l)
      BY <2>1, <3>1, <3>4
    <3>6. Content(dev[t]) \cap Span(p, l) = {}
      BY <3>4, <3>5, MeetsPages
    <3>7. Intact(t, P, e)
      BY <1>10, <2>2, <3>1, <3>2, <3>6
    <3>8. r \in T \cup {x} /\ Covers(r, t, e)
      BY <1>6, <3>1, <3>3, <3>5 DEF Covers
    <3> QED BY <3>1, <3>2, <3>3, <3>7, <3>8
  <2>3. CASE IsNew(t, s, p, l, kind, d, n)
    <3>1. t = s /\ kind = "shared" /\ n[t] = 1 /\ e[t].content = p /\ e[t].length = l
      BY <2>1, <2>3 DEF IsNew
    <3>2. Covers(x, t, e)
      BY <1>1, <3>1 DEF Covers
    <3>3. Content(e[t]) = Span(p, l)
      BY <1>1, <3>2, CoversPages
    <3>4. Intact(t, P, e)
      BY <1>2, <1>3, <3>1, <3>3 DEF Intact
    <3> QED BY <1>1, <3>1, <3>2, <3>4
  <2> QED BY <2>2, <2>3
<1>13. ManyRefs(T \cup {x}, e)
  <2> SUFFICES ASSUME NEW y \in T \cup {x}, y.ref > 1
               PROVE  y.stream \in Ashmem /\ e[y.stream].state = "MAPPED" /\ Covers(y, y.stream, e)
    BY DEF ManyRefs
  <2>1. y \in T
    BY <1>1
  <2>2. y \in R /\ ~Meets(y, p, l)
    BY <1>5, <2>1
  <2>3. PICK t : t = y.stream
    OBVIOUS
  <2>4. t \in Ashmem /\ dev[t].state = "MAPPED" /\ Covers(y, t, dev)
    BY <1>0, <2>2, <2>3 DEF ManyRefs
  <2>5. Same(t, d, n)
    BY <2>4 DEF IsNew
  <2>6. Content(d[t]) = Content(dev[t]) /\ d[t].state = "MAPPED"
        /\ d[t].content = dev[t].content /\ d[t].length = dev[t].length
    BY <2>4, <2>5, SameContent DEF Same
  <2>7. PagesOf(y) = Content(dev[t])
    BY <2>4, CoversPages
  <2>8. \A r \in R : Meets(r, p, l) => PagesOf(r) \cap Content(d[t]) = {}
    <3> SUFFICES ASSUME NEW r \in R, NEW q \in PagesOf(r), q \in PagesOf(y), Meets(r, p, l)
                 PROVE  FALSE
      BY <2>6, <2>7
    <3>1. r = y
      BY <2>2, SamePage
    <3> QED BY <2>2, <3>1
  <2>9. e[t] = d[t]
    BY <1>4, <2>4, <2>8
  <2>10. Covers(y, t, e)
    BY <2>4, <2>6, <2>9 DEF Covers
  <2> QED BY <2>3, <2>4, <2>6, <2>9, <2>10
<1> QED BY <1>7, <1>8, <1>9, <1>11, <1>12, <1>13 DEF Sound, T, x, P, e

LEMMA FailsInv ==
  ASSUME Inv, NEW why \in {"initial", "partial", "fixed"}, Fails(why)
  PROVE  Inv'
<1>1. failed' = why /\ UNCHANGED <<map_, os, opened, dev, count>>
  BY DEF Fails
<1>2. TypeOK'
  BY <1>1 DEF Inv, TypeOK
<1>3. NoAssertFails'
  BY <1>1 DEF NoAssertFails
<1> QED BY <1>1, <1>2, <1>3 DEF Inv

LEMMA InvFacts ==
  ASSUME Inv
  PROVE  /\ Typed(map_, os, opened, dev, count)
         /\ Disjoint(Regions(map_)) /\ Represents(map_, Regions(map_))
         /\ Sound(Regions(map_), os, opened, dev, count)
BY TypedIs DEF Inv

LEMMA SpanFits ==
  ASSUME NEW p \in Page, NEW l \in Nat \ {0}, Span(p, l) \subseteq Page
  PROVE  p + l <= NumPages
<1>1. p + l - 1 \in Span(p, l) /\ p \in Int
  BY DEF Span, Page
<1>2. p + l - 1 \in Page
  BY <1>1
<1> QED BY <1>1, <1>2, ConstantsAssumption DEF Page

\* Registers of a mapping that is not the region it finds.
LEMMA RegistersNew ==
  ASSUME Inv, Running, NEW p \in Page, NEW l \in Nat \ {0}, Span(p, l) \subseteq Page,
         NEW s \in Stream, NEW kind \in {"shared", "private", "file"}, NEW fixed \in BOOLEAN,
         NEW d \in [Ashmem -> Dev], NEW n \in [Ashmem -> 0 .. MaxRef],
         \A t \in Ashmem : Same(t, d, n) \/ IsNew(t, s, p, l, kind, d, n),
         \A t \in Ashmem : Same(t, d, n) /\ dev[t].state = "UNMAP_DELAYED" =>
                             Content(dev[t]) \cap Span(p, l) = {},
         ~fixed => \A r \in Regions(map_) : ~Meets(r, p, l),
         Registers(s, p, l, fixed, Mapped(p, l, s, kind), d),
         failed' = "none" => count' = n
  PROVE  Inv'
<1> DEFINE R == Regions(map_)
           T == Trimmed(R, p, l)
           P == Mapped(p, l, s, kind)
           e == Overwritten(map_, d, p, l)
           m == IF fixed THEN Removed(map_, p, l) ELSE map_
<1>0. /\ Typed(map_, os, opened, dev, count) /\ Disjoint(R) /\ Represents(map_, R)
      /\ Sound(R, os, opened, dev, count)
  BY InvFacts
<1>1. p + l <= NumPages
  BY SpanFits
<1>2. \/ fixed /\ (Fails("fixed") \/ Fails("partial"))
      \/ /\ \A r \in (IF fixed THEN Touched(map_, p, l) ELSE {}) : r.ref = 1
         /\ IF IsOverlap(m, p, l) THEN Fails("unexpected")
            ELSE Ends(Added(m, p, l, s), P, opened, IF fixed THEN e ELSE d)
      \/ ~fixed /\ FoundRegions(map_, p, l) # {}
  BY Zenon DEF Registers
<1> HIDE DEF R
<1>3. Touched(map_, p, l) = {r \in R : Meets(r, p, l)}
      /\ FoundRegions(map_, p, l) = {r \in R : r.first = p /\ r.last = p + l - 1}
  BY <1>0, TouchedAre
<1>4. ~fixed => \A r \in R : ~Meets(r, p, l)
  BY DEF R
<1>5. CASE fixed /\ (Fails("fixed") \/ Fails("partial"))
  BY <1>5, FailsInv
<1>6. CASE ~fixed /\ FoundRegions(map_, p, l) # {}
  <2>1. PICK r \in R : r.first = p /\ r.last = p + l - 1
    BY <1>3, <1>6
  <2>2. r.first \in Int /\ p <= p + l - 1
    BY <1>0, DisjointFacts DEF Page
  <2>3. Meets(r, p, l)
    BY <2>1, <2>2 DEF Meets
  <2> QED BY <1>4, <1>6, <2>3
<1>7. CASE /\ \A r \in (IF fixed THEN Touched(map_, p, l) ELSE {}) : r.ref = 1
           /\ IF IsOverlap(m, p, l) THEN Fails("unexpected")
              ELSE Ends(Added(m, p, l, s), P, opened, IF fixed THEN e ELSE d)
  <2>1. \A r \in R : Meets(r, p, l) => r.ref = 1
    <3>1. CASE fixed
      BY <1>3, <1>7, <3>1
    <3>2. CASE ~fixed
      BY <1>4, <3>2
    <3> QED BY <3>1, <3>2
  <2>2. Sound(T \cup {NewRegion(p, l, s)}, P, opened, e, n)
    BY <1>0, <1>1, <2>1, RegionPlaced
  <2>3. e \in [Ashmem -> Dev]
    <3>1. \A t \in Ashmem : e \in [Ashmem -> Dev]
      BY <1>0, OverwrittenFacts
    <3>2. CASE Ashmem # {}
      BY <3>1, <3>2
    <3>3. CASE Ashmem = {}
      BY <3>3 DEF Overwritten
    <3> QED BY <3>2, <3>3
  <2>4. (IF fixed THEN e ELSE d) = e
    <3>1. CASE fixed
      BY <3>1
    <3>2. CASE ~fixed
      <4>1. \A t \in Ashmem : e[t] = d[t]
        BY <1>0, <1>4, <3>2, OverwrittenFacts
      <4> QED BY <2>3, <3>2, <4>1
    <3> QED BY <3>1, <3>2
  <2>5. Disjoint(T) /\ \A y \in T : ~Meets(y, p, l)
    BY <1>0, <1>1, TrimmedFacts
  <2>6. m \in Map /\ Represents(m, T)
    <3>0. map_ \in Map
      BY <1>0 DEF Typed
    <3>1. CASE fixed
      BY <1>0, <1>1, <3>0, <3>1, RemovedRegions
    <3>2. CASE ~fixed
      <4>1. \A r \in R : r \in Region
        BY <1>0, DisjointFacts
      <4>2. T = R
        BY <1>4, <3>2, <4>1 DEF Trimmed, IsPiece
      <4> QED BY <1>0, <3>0, <3>2, <4>2
    <3> QED BY <3>1, <3>2
  <2>7. P \in Pages
    <3>1. os \in Pages /\ [by |-> s, kind |-> kind] \in
                 [by : Stream \cup {None}, kind : {"free", "shared", "private", "file"}]
      BY <1>0 DEF Typed
    <3> QED BY <3>1 DEF Mapped, Pages
  <2> HIDE DEF T, P, e, m
  <2>8. ~IsOverlap(m, p, l)
    BY <2>5, <2>6, NoOverlap
  <2>9. Ends(Added(m, p, l, s), P, opened, e)
    BY <1>7, <2>4, <2>8
  <2>10. /\ Added(m, p, l, s) \in Map /\ Disjoint(T \cup {NewRegion(p, l, s)})
         /\ Represents(Added(m, p, l, s), T \cup {NewRegion(p, l, s)})
    BY <1>1, <2>5, <2>6, AddedRegions
  <2>11. Typed(Added(m, p, l, s), P, opened, e, n)
    BY <1>0, <2>3, <2>7, <2>10 DEF Typed
  <2>12. count' = n
    BY <2>9 DEF Ends, Running
  <2> QED BY <2>2, <2>9, <2>10, <2>11, <2>12, EndsSound
<1> QED BY <1>2, <1>5, <1>6, <1>7

-----------------------------------------------------------------------------
(* One mapping more or less of a region *)

LEMMA ReferredSound ==
  ASSUME NEW R, Disjoint(R), Sound(R, os, opened, dev, count), NEW r \in R, NEW s \in Ashmem,
         Covers(r, s, dev), dev[s].state = "MAPPED", NEW k \in 1 .. MaxRef,
         NEW n, n[s] = k, \A t \in Ashmem : t # s => n[t] = count[t]
  PROVE  Sound((R \ {r}) \cup {Referred(r, k)}, os, opened, dev, n)
<1> DEFINE x == Referred(r, k)
           S == (R \ {r}) \cup {x}
<1>0. /\ Owned(R, os) /\ Kept(R, os, dev) /\ Placed(opened, dev, count)
      /\ Delayed(R, os, dev, count) /\ MappedOnce(R, os, dev, count) /\ ManyRefs(R, dev)
  BY DEF Sound
<1>1. /\ x.first = r.first /\ x.last = r.last /\ x.ref = k /\ x.stream = r.stream
      /\ PagesOf(x) = PagesOf(r)
  BY DEF Referred, PagesOf
<1>2. r.stream = s /\ dev[s].content # NoContent /\ k > 0
  BY DEF Covers
<1> HIDE DEF x
<1>3. Covers(x, s, dev)
  BY <1>1 DEF Covers
<1>4. ASSUME NEW y \in S
      PROVE  \E q \in R : PagesOf(y) = PagesOf(q) /\ y.stream = q.stream /\ (y = q \/ y = x)
  BY <1>1
<1>5. \A q \in R : \E y \in S : PagesOf(y) = PagesOf(q)
  BY <1>1
<1>6. Owned(S, os)
  BY <1>0, <1>4 DEF Owned
<1>7. Kept(S, os, dev)
  BY <1>0, <1>5 DEF Kept
<1>8. Placed(opened, dev, n)
  BY <1>0, <1>2 DEF Placed
<1>9. Delayed(S, os, dev, n)
  <2> SUFFICES ASSUME NEW t \in Ashmem, dev[t].state = "UNMAP_DELAYED"
               PROVE  /\ dev[t].content # NoContent /\ n[t] = 0 /\ Intact(t, os, dev)
                      /\ \A y \in S : PagesOf(y) \cap Content(dev[t]) = {}
    BY DEF Delayed
  <2>1. n[t] = count[t]
    OBVIOUS
  <2>2. /\ dev[t].content # NoContent /\ count[t] = 0 /\ Intact(t, os, dev)
        /\ \A q \in R : PagesOf(q) \cap Content(dev[t]) = {}
    BY <1>0 DEF Delayed
  <2> QED BY <1>4, <2>1, <2>2
<1>10. MappedOnce(S, os, dev, n)
  <2> SUFFICES ASSUME NEW t \in Ashmem, dev[t].state = "MAPPED", dev[t].content # NoContent
               PROVE  /\ n[t] > 0 /\ Intact(t, os, dev)
                      /\ \E y \in S : Covers(y, t, dev) /\ y.ref = n[t]
    BY DEF MappedOnce
  <2>1. /\ count[t] > 0 /\ Intact(t, os, dev)
        /\ \E q \in R : Covers(q, t, dev) /\ q.ref = count[t]
    BY <1>0 DEF MappedOnce
  <2>2. CASE t = s
    BY <1>1, <1>2, <1>3, <2>1, <2>2
  <2>3. CASE t # s
    <3>1. PICK q \in R : Covers(q, t, dev) /\ q.ref = count[t]
      BY <2>1
    <3>2. q.stream = t
      BY <3>1 DEF Covers
    <3>3. q \in S
      BY <1>2, <2>3, <3>2
    <3> QED BY <2>1, <2>3, <3>1, <3>3
  <2> QED BY <2>2, <2>3
<1>11. ManyRefs(S, dev)
  <2> SUFFICES ASSUME NEW y \in S, y.ref > 1
               PROVE  /\ y.stream \in Ashmem /\ dev[y.stream].state = "MAPPED"
                      /\ Covers(y, y.stream, dev)
    BY DEF ManyRefs
  <2>1. CASE y = x
    BY <1>1, <1>2, <1>3, <2>1
  <2>2. CASE y \in R
    BY <1>0, <2>2 DEF ManyRefs
  <2> QED BY <2>1, <2>2
<1> QED BY <1>6, <1>7, <1>8, <1>9, <1>10, <1>11 DEF Sound, x

\* What the caller counts is what the region counts.
LEMMA CountIs ==
  ASSUME NEW R, Disjoint(R), Sound(R, os, opened, dev, count), NEW r \in R, NEW s \in Ashmem,
         Covers(r, s, dev), dev[s].state = "MAPPED"
  PROVE  r.ref = count[s]
<1>1. dev[s].content # NoContent
  BY DEF Covers
<1>2. PICK q \in R : Covers(q, s, dev) /\ q.ref = count[s]
  BY <1>1 DEF Sound, MappedOnce
<1>3. q.first = r.first /\ r.first \in Int /\ r.last \in Int /\ r.first <= r.last
  BY <1>2, DisjointFacts DEF Covers
<1>4. r.first \in PagesOf(r) /\ q.last = r.last
  BY <1>2, <1>3 DEF PagesOf, Covers
<1>5. r.first \in PagesOf(q)
  BY <1>3, <1>4 DEF PagesOf
<1> QED BY <1>2, <1>4, <1>5, SamePage

\* A step that changes the references of a region by one.
LEMMA ReferredEnds ==
  ASSUME Inv, Running, NEW r \in Regions(map_), NEW s \in Ashmem, Covers(r, s, dev),
         dev[s].state = "MAPPED", NEW by \in Int, r.ref + by \in 1 .. MaxRef,
         Ends(RefChanged(map_, r.first, by), os, opened, dev),
         NEW n \in [Ashmem -> 0 .. MaxRef], count' = n, n[s] = count[s] + by,
         \A t \in Ashmem : t # s => n[t] = count[t]
  PROVE  Inv'
<1> DEFINE R == Regions(map_)
           k == r.ref + by
           S == (R \ {r}) \cup {Referred(r, k)}
<1>0. /\ Typed(map_, os, opened, dev, count) /\ Disjoint(R) /\ Represents(map_, R)
      /\ Sound(R, os, opened, dev, count)
  BY InvFacts
<1>1. r \in R /\ r.ref + by = k /\ k \in 1 .. MaxRef
  OBVIOUS
<1>2. n[s] = k
  BY <1>0, CountIs
<1> HIDE DEF R, k
<1>3. Sound(S, os, opened, dev, n)
  BY <1>0, <1>1, <1>2, ReferredSound
<1>4. map_ \in Map
  BY <1>0 DEF Typed
<1>5. /\ RefChanged(map_, r.first, by) \in Map /\ Disjoint(S)
      /\ Represents(RefChanged(map_, r.first, by), S)
  BY <1>0, <1>1, <1>4, RefChangedRegions
<1>6. Typed(RefChanged(map_, r.first, by), os, opened, dev, n)
  BY <1>0, <1>5 DEF Typed
<1> QED BY <1>3, <1>5, <1>6, EndsSound

-----------------------------------------------------------------------------
(* munmap of regions that were mapped once *)

\* Which objects munmap of Span(p, l) tells of a part of their memory, and the
\* state it leaves them in.
LEMMA AfterMunmapFacts ==
  ASSUME NEW R, Disjoint(R), Represents(map_, R), NEW p \in Page, NEW l \in Nat \ {0},
         NEW t \in Ashmem, NEW after, after = AfterMunmap(map_, p, l, t),
         NEW shared, shared = SharedClips(map_, p, l, t)
  PROVE  /\ \A c \in shared : \E r \in R : c = ClipOf(r, p, l) /\ Meets(r, p, l) /\ r.stream = t
                                           /\ c.first \in PagesOf(r) /\ c.first \in Content(dev[t])
         /\ \A r \in R : Meets(r, p, l) /\ r.stream = t /\ PagesOf(r) = Content(dev[t])
                           => shared # {}
         /\ \A r \in R : Meets(r, p, l) /\ r.stream = t
                         /\ IsMapShared(dev[t], ClipOf(r, p, l).first)
                           => ClipOf(r, p, l) \in shared
         /\ shared = {} \/ dev[t].state = "UNMAP_DELAYED" => after = dev[t].state
         /\ shared # {} /\ dev[t].state # "UNMAP_DELAYED" =>
              \/ after = "UNMAP_DELAYED" /\ \E c \in shared : IsWhole(c, dev[t])
              \/ after = "PARTIALLY_UNMAPPED" /\ ~\E c \in shared : IsWhole(c, dev[t])
<1>1. shared = {c \in Clips(map_, p, l) : c.stream = t /\ c.first \in Content(dev[t])}
  BY DEF SharedClips, IsMapShared
<1>2. Clips(map_, p, l) = {ClipOf(r, p, l) : r \in {q \in R : Meets(q, p, l)}}
  BY ClipsAre
<1>3. ASSUME NEW c \in shared
      PROVE  \E r \in R : c = ClipOf(r, p, l) /\ Meets(r, p, l) /\ r.stream = t
                          /\ c.first \in PagesOf(r) /\ c.first \in Content(dev[t])
  <2>1. PICK r \in R : c = ClipOf(r, p, l) /\ Meets(r, p, l)
    BY <1>1, <1>2
  <2>2. c.stream = r.stream /\ c.first \in PagesOf(r)
    BY <2>1, ClipFacts
  <2> QED BY <1>1, <2>1, <2>2
<1>4. ASSUME NEW r \in R, Meets(r, p, l), r.stream = t, ClipOf(r, p, l).first \in Content(dev[t])
      PROVE  ClipOf(r, p, l) \in shared
  <2>1. ClipOf(r, p, l).stream = t
    BY <1>4, ClipFacts
  <2> QED BY <1>1, <1>2, <1>4, <2>1
<1>5. ASSUME NEW r \in R, Meets(r, p, l), r.stream = t, PagesOf(r) = Content(dev[t])
      PROVE  shared # {}
  <2>1. ClipOf(r, p, l).first \in Content(dev[t])
    BY <1>5, ClipFacts
  <2> QED BY <1>4, <1>5, <2>1
<1>6. after = IF shared = {} \/ dev[t].state = "UNMAP_DELAYED" THEN dev[t].state
              ELSE IF \E c \in shared : IsWhole(c, dev[t]) THEN "UNMAP_DELAYED"
              ELSE "PARTIALLY_UNMAPPED"
  BY DEF AfterMunmap
<1>7. shared = {} \/ dev[t].state = "UNMAP_DELAYED" => after = dev[t].state
  BY <1>6
<1>8. shared # {} /\ dev[t].state # "UNMAP_DELAYED" =>
        \/ after = "UNMAP_DELAYED" /\ \E c \in shared : IsWhole(c, dev[t])
        \/ after = "PARTIALLY_UNMAPPED" /\ ~\E c \in shared : IsWhole(c, dev[t])
  BY <1>6
<1>9. \A r \in R : Meets(r, p, l) /\ r.stream = t /\ IsMapShared(dev[t], ClipOf(r, p, l).first)
                     => ClipOf(r, p, l) \in shared
  BY <1>4 DEF IsMapShared
<1>10. \A r \in R : Meets(r, p, l) /\ r.stream = t /\ PagesOf(r) = Content(dev[t])
                     => shared # {}
  BY <1>5
<1> QED BY <1>3, <1>7, <1>8, <1>9, <1>10

\* The pages of the clips that munmap gives back to the operating system.
Unmapped(p, l) == UNION {PagesOf(c) : c \in {d \in Clips(map_, p, l) : Unmaps(d)}}

LEMMA UnmappedFacts ==
  ASSUME NEW R, Disjoint(R), Represents(map_, R), NEW p \in Page, NEW l \in Nat \ {0}
  PROVE  /\ \A q \in Unmapped(p, l) : \E r \in R :
              /\ q \in PagesOf(r) /\ q \in Span(p, l) /\ q \in PagesOf(ClipOf(r, p, l))
              /\ Meets(r, p, l) /\ Unmaps(ClipOf(r, p, l))
         /\ \A r \in R : \A q \in PagesOf(r) :
              q \in Span(p, l) /\ Unmaps(ClipOf(r, p, l)) => q \in Unmapped(p, l)
<1>1. Clips(map_, p, l) = {ClipOf(r, p, l) : r \in {q \in R : Meets(q, p, l)}}
  BY ClipsAre
<1>2. ASSUME NEW q \in Unmapped(p, l)
      PROVE  \E r \in R :
              /\ q \in PagesOf(r) /\ q \in Span(p, l) /\ q \in PagesOf(ClipOf(r, p, l))
              /\ Meets(r, p, l) /\ Unmaps(ClipOf(r, p, l))
  <2>1. PICK c \in Clips(map_, p, l) : Unmaps(c) /\ q \in PagesOf(c)
    BY DEF Unmapped
  <2>2. PICK r \in R : c = ClipOf(r, p, l) /\ Meets(r, p, l)
    BY <1>1
  <2>3. q \in PagesOf(r) /\ q \in Span(p, l)
    BY <2>1, <2>2, ClipFacts
  <2> QED BY <2>1, <2>2, <2>3
<1>3. ASSUME NEW r \in R, NEW q \in PagesOf(r), q \in Span(p, l), Unmaps(ClipOf(r, p, l))
      PROVE  q \in Unmapped(p, l)
  <2>1. Meets(r, p, l)
    BY <1>3, MeetsPages
  <2>2. q \in PagesOf(ClipOf(r, p, l))
    BY <1>3, <2>1, ClipFacts
  <2>3. ClipOf(r, p, l) \in Clips(map_, p, l)
    BY <1>1, <2>1
  <2> QED BY <1>3, <2>2, <2>3 DEF Unmapped
<1> QED BY <1>2, <1>3

\* Without what munmap takes, and with what the objects keep, all is sound again.
LEMMA RegionsUnmapped ==
  ASSUME NEW R, Typed(map_, os, opened, dev, count), Disjoint(R), Represents(map_, R),
         Sound(R, os, opened, dev, count),
         NEW p \in Page, NEW l \in Nat \ {0}, p + l <= NumPages,
         \A r \in R : Meets(r, p, l) => r.ref = 1,
         NEW P, P = [q \in Page |-> IF q \in Unmapped(p, l) THEN Free ELSE os[q]],
         NEW d, \A t \in Ashmem : /\ d[t].content = dev[t].content /\ d[t].length = dev[t].length
                                  /\ d[t].state = AfterMunmap(map_, p, l, t),
         NEW n, \A t \in Ashmem :
                  n[t] = IF SharedClips(map_, p, l, t) # {} THEN 0 ELSE count[t]
  PROVE  Sound(Trimmed(R, p, l), P, opened, d, n)
<1> DEFINE T == Trimmed(R, p, l)
           Shared(t) == SharedClips(map_, p, l, t)
<1>0. /\ Owned(R, os) /\ Kept(R, os, dev) /\ Placed(opened, dev, count)
      /\ Delayed(R, os, dev, count) /\ MappedOnce(R, os, dev, count) /\ ManyRefs(R, dev)
  BY DEF Sound
<1>1. /\ \A q \in Unmapped(p, l) : \E r \in R :
           /\ q \in PagesOf(r) /\ q \in Span(p, l) /\ q \in PagesOf(ClipOf(r, p, l))
           /\ Meets(r, p, l) /\ Unmaps(ClipOf(r, p, l))
      /\ \A r \in R : \A q \in PagesOf(r) :
           q \in Span(p, l) /\ Unmaps(ClipOf(r, p, l)) => q \in Unmapped(p, l)
  BY UnmappedFacts
<1>2. \A q \in Page : /\ q \in Unmapped(p, l) => P[q] = Free
                      /\ q \notin Unmapped(p, l) => P[q] = os[q]
  OBVIOUS
<1>3. ASSUME NEW t \in Ashmem
      PROVE  Content(d[t]) = Content(dev[t]) /\ d[t].content = dev[t].content
             /\ d[t].length = dev[t].length
  <2>1. d[t].content = dev[t].content /\ d[t].length = dev[t].length
    OBVIOUS
  <2> QED BY <2>1 DEF Content
<1>4. ASSUME NEW t \in Ashmem
      PROVE  /\ \A c \in Shared(t) : \E r \in R :
                  /\ c = ClipOf(r, p, l) /\ Meets(r, p, l) /\ r.stream = t
                  /\ c.first \in PagesOf(r) /\ c.first \in Content(dev[t])
             /\ \A r \in R : Meets(r, p, l) /\ r.stream = t /\ PagesOf(r) = Content(dev[t])
                               => Shared(t) # {}
             /\ \A r \in R : Meets(r, p, l) /\ r.stream = t
                             /\ IsMapShared(dev[t], ClipOf(r, p, l).first)
                               => ClipOf(r, p, l) \in Shared(t)
             /\ Shared(t) = {} \/ dev[t].state = "UNMAP_DELAYED" => d[t].state = dev[t].state
             /\ Shared(t) # {} /\ dev[t].state # "UNMAP_DELAYED" =>
                  \/ d[t].state = "UNMAP_DELAYED" /\ \E c \in Shared(t) : IsWhole(c, dev[t])
                  \/ d[t].state = "PARTIALLY_UNMAPPED" /\ ~\E c \in Shared(t) : IsWhole(c, dev[t])
             /\ n[t] = IF Shared(t) # {} THEN 0 ELSE count[t]
  <2>1. d[t].state = AfterMunmap(map_, p, l, t)
    OBVIOUS
  <2>2. n[t] = IF Shared(t) # {} THEN 0 ELSE count[t]
    OBVIOUS
  <2>3. PICK after : after = d[t].state
    OBVIOUS
  <2>4. PICK shared : shared = Shared(t)
    OBVIOUS
  <2>5. after = AfterMunmap(map_, p, l, t) /\ shared = SharedClips(map_, p, l, t)
    BY <2>1, <2>3, <2>4
  <2> HIDE DEF Shared
  <2> QED BY <2>2, <2>3, <2>4, <2>5, AfterMunmapFacts
<1>5. ASSUME NEW y \in T
      PROVE  \E r \in R : /\ y.stream = r.stream /\ (y.ref > 1 => y = r /\ ~Meets(r, p, l))
                          /\ \A q \in PagesOf(y) : q \in PagesOf(r) /\ q \notin Span(p, l) /\ q \in Page
  BY RegionsLeft
<1>6. \A r \in R : ~Meets(r, p, l) => r \in T
  BY TrimmedFacts DEF IsPiece
<1> HIDE DEF T, Shared
<1>7. ASSUME NEW t \in Ashmem, dev[t].state = "UNMAP_DELAYED"
      PROVE  Shared(t) = {} /\ n[t] = count[t]
  <2>1. \A r \in R : PagesOf(r) \cap Content(dev[t]) = {}
    BY <1>0, <1>7 DEF Delayed
  <2> QED BY <1>4, <2>1
<1>8. Owned(T, P)
  <2> SUFFICES ASSUME NEW y \in T, NEW q \in PagesOf(y) PROVE P[q].by = y.stream
    BY DEF Owned
  <2>1. PICK r \in R : y.stream = r.stream /\ q \in PagesOf(r) /\ q \notin Span(p, l) /\ q \in Page
    BY <1>5
  <2>2. P[q] = os[q]
    BY <1>1, <1>2, <2>1
  <2> QED BY <1>0, <2>1, <2>2 DEF Owned
<1>9. Kept(T, P, d)
  <2> SUFFICES ASSUME NEW q \in Page, P[q] # Free, ~\E y \in T : q \in PagesOf(y)
               PROVE  \E t \in Ashmem : d[t].state = "UNMAP_DELAYED" /\ q \in Content(d[t])
    BY DEF Kept
  <2>1. q \notin Unmapped(p, l) /\ os[q] # Free
    BY <1>2
  <2>2. CASE \E r \in R : q \in PagesOf(r)
    <3>1. PICK r \in R : q \in PagesOf(r)
      BY <2>2
    <3>2. q \in Span(p, l)
      BY <3>1, TrimmedPages DEF T
    <3>3. ~Unmaps(ClipOf(r, p, l)) /\ Meets(r, p, l)
      BY <1>1, <2>1, <3>1, <3>2, MeetsPages
    <3>4. PICK c : c = ClipOf(r, p, l)
      OBVIOUS
    <3>5. c.stream = r.stream /\ c.first \in PagesOf(r) /\ q \in PagesOf(c)
      BY <3>1, <3>2, <3>3, <3>4, ClipFacts
    <3>6. PICK t : t = r.stream
      OBVIOUS
    <3>7. /\ t \in Ashmem /\ IsMapShared(dev[t], c.first)
          /\ IsWhole(c, dev[t]) \/ dev[t].state = "UNMAP_DELAYED"
      BY <3>3, <3>4, <3>5, <3>6 DEF Unmaps
    <3>8. c \in Shared(t)
      BY <1>4, <3>3, <3>4, <3>6, <3>7
    <3>9. IsWhole(c, dev[t]) /\ dev[t].state # "UNMAP_DELAYED"
      BY <1>7, <3>7, <3>8
    <3>10. d[t].state = "UNMAP_DELAYED"
      BY <1>4, <3>7, <3>8, <3>9
    <3>11. q \in Content(d[t])
      BY <1>3, <3>5, <3>7, <3>9 DEF IsWhole
    <3> QED BY <3>7, <3>10, <3>11
  <2>3. CASE ~\E r \in R : q \in PagesOf(r)
    <3>1. PICK t \in Ashmem : dev[t].state = "UNMAP_DELAYED" /\ q \in Content(dev[t])
      BY <1>0, <2>1, <2>3 DEF Kept
    <3> QED BY <1>3, <1>4, <3>1
  <2> QED BY <2>2, <2>3
<1>10. Placed(opened, d, n)
  <2> SUFFICES ASSUME NEW t \in Ashmem
               PROVE  /\ d[t].content # NoContent =>
                           d[t].length >= 1 /\ d[t].content + d[t].length <= NumPages
                      /\ d[t].state = "INITIAL" => d[t].content = NoContent
                      /\ d[t].content = NoContent /\ (t \in opened \/ d[t].state = "MAPPED")
                           => n[t] = 0
    BY DEF Placed
  <2>1. /\ dev[t].content # NoContent =>
             dev[t].length >= 1 /\ dev[t].content + dev[t].length <= NumPages
        /\ dev[t].state = "INITIAL" => dev[t].content = NoContent
        /\ dev[t].content = NoContent /\ (t \in opened \/ dev[t].state = "MAPPED")
             => count[t] = 0
    BY <1>0 DEF Placed
  <2>2. d[t].state = dev[t].state \/ d[t].state \in {"UNMAP_DELAYED", "PARTIALLY_UNMAPPED"}
    BY <1>4
  <2>3. n[t] = 0 \/ n[t] = count[t]
    BY <1>4
  <2>4. d[t].content = dev[t].content /\ d[t].length = dev[t].length
    BY <1>3
  <2> QED BY <2>1, <2>2, <2>3, <2>4
<1>11. ASSUME NEW t \in Ashmem, dev[t].content # NoContent, Intact(t, os, dev),
              \A q \in Content(dev[t]) : q \notin Unmapped(p, l)
       PROVE  Intact(t, P, d)
  <2> SUFFICES ASSUME NEW q \in Content(dev[t]) PROVE P[q] = [by |-> t, kind |-> "shared"]
    BY <1>3 DEF Intact
  <2>1. q \in Page
    BY <1>0, <1>11, ContentPages
  <2>2. os[q] = [by |-> t, kind |-> "shared"]
    BY <1>11 DEF Intact
  <2> QED BY <1>2, <1>11, <2>1, <2>2
<1>12. Delayed(T, P, d, n)
  <2> SUFFICES ASSUME NEW t \in Ashmem, d[t].state = "UNMAP_DELAYED"
               PROVE  /\ d[t].content # NoContent /\ n[t] = 0 /\ Intact(t, P, d)
                      /\ \A y \in T : PagesOf(y) \cap Content(d[t]) = {}
    BY DEF Delayed
  <2>1. CASE dev[t].state = "UNMAP_DELAYED"
    <3>1. /\ dev[t].content # NoContent /\ count[t] = 0 /\ Intact(t, os, dev)
          /\ \A r \in R : PagesOf(r) \cap Content(dev[t]) = {}
      BY <1>0, <2>1 DEF Delayed
    <3>2. n[t] = 0
      BY <1>7, <2>1, <3>1
    <3>3. \A q \in Content(dev[t]) : q \notin Unmapped(p, l)
      BY <1>1, <3>1
    <3>4. Intact(t, P, d)
      BY <1>11, <3>1, <3>3
    <3>5. \A y \in T : PagesOf(y) \cap Content(d[t]) = {}
      BY <1>3, <1>5, <3>1
    <3> QED BY <1>3, <3>1, <3>2, <3>4, <3>5
  <2>2. CASE dev[t].state # "UNMAP_DELAYED"
    <3>1. Shared(t) # {} /\ n[t] = 0 /\ \E c \in Shared(t) : IsWhole(c, dev[t])
      BY <1>4, <2>2
    <3>2. PICK c \in Shared(t) : IsWhole(c, dev[t])
      BY <3>1
    <3>3. PICK r \in R : /\ c = ClipOf(r, p, l) /\ Meets(r, p, l) /\ r.stream = t
                         /\ c.first \in PagesOf(r) /\ c.first \in Content(dev[t])
      BY <1>4
    <3>4. dev[t].state = "MAPPED" /\ PagesOf(c) = Content(dev[t])
      BY <3>2 DEF IsWhole
    <3>5. dev[t].content # NoContent
      BY <3>3 DEF Content
    <3>6. Intact(t, os, dev)
      BY <1>0, <3>4, <3>5 DEF MappedOnce
    <3>7. \A q \in Content(dev[t]) : q \in PagesOf(r) /\ q \in Span(p, l)
      BY <3>3, <3>4, ClipFacts
    <3>8. ~Unmaps(c)
      <4>1. c.stream = t
        BY <3>3, ClipFacts
      <4> QED BY <3>2, <3>3, <4>1 DEF Unmaps, IsMapShared
    <3>9. \A q \in Content(dev[t]) : q \notin Unmapped(p, l)
      <4> SUFFICES ASSUME NEW q \in Content(dev[t]), q \in Unmapped(p, l) PROVE FALSE
        OBVIOUS
      <4>1. PICK r2 \in R : q \in PagesOf(r2) /\ Unmaps(ClipOf(r2, p, l))
        BY <1>1
      <4>2. r2 = r
        BY <3>7, <4>1, SamePage
      <4> QED BY <3>3, <3>8, <4>1, <4>2
    <3>10. Intact(t, P, d)
      BY <1>11, <3>5, <3>6, <3>9
    <3>11. \A y \in T : PagesOf(y) \cap Content(d[t]) = {}
      BY <1>3, <1>5, <3>7
    <3> QED BY <1>3, <3>1, <3>5, <3>10, <3>11
  <2> QED BY <2>1, <2>2
<1>13. MappedOnce(T, P, d, n)
  <2> SUFFICES ASSUME NEW t \in Ashmem, d[t].state = "MAPPED", d[t].content # NoContent
               PROVE  /\ n[t] > 0 /\ Intact(t, P, d)
                      /\ \E y \in T : Covers(y, t, d) /\ y.ref = n[t]
    BY DEF MappedOnce
  <2>1. Shared(t) = {} /\ dev[t].state = "MAPPED" /\ n[t] = count[t]
    BY <1>4
  <2>2. /\ count[t] > 0 /\ Intact(t, os, dev) /\ dev[t].content # NoContent
        /\ \E r \in R : Covers(r, t, dev) /\ r.ref = count[t]
    BY <1>0, <1>3, <2>1 DEF MappedOnce
  <2>3. PICK r \in R : Covers(r, t, dev) /\ r.ref = count[t]
    BY <2>2
  <2>4. PagesOf(r) = Content(dev[t]) /\ r.stream = t
    BY <2>3, CoversPages
  <2>5. ~Meets(r, p, l)
    BY <1>4, <2>1, <2>4
  <2>6. \A q \in Content(dev[t]) : q \notin Unmapped(p, l)
    BY <1>1, <2>4, <2>5, MeetsPages
  <2>7. Intact(t, P, d)
    BY <1>11, <2>2, <2>6
  <2>8. r \in T /\ Covers(r, t, d)
    BY <1>3, <1>6, <2>3, <2>5 DEF Covers
  <2> QED BY <2>1, <2>2, <2>3, <2>7, <2>8
<1>14. ManyRefs(T, d)
  <2> SUFFICES ASSUME NEW y \in T, y.ref > 1
               PROVE  y.stream \in Ashmem /\ d[y.stream].state = "MAPPED" /\ Covers(y, y.stream, d)
    BY DEF ManyRefs
  <2>1. y \in R /\ ~Meets(y, p, l)
    BY <1>5
  <2>2. PICK t : t = y.stream
    OBVIOUS
  <2>3. t \in Ashmem /\ dev[t].state = "MAPPED" /\ Covers(y, t, dev)
    BY <1>0, <2>1, <2>2 DEF ManyRefs
  <2>4. PagesOf(y) = Content(dev[t])
    BY <2>3, CoversPages
  <2>5. Shared(t) = {}
    <3> SUFFICES ASSUME NEW c \in Shared(t) PROVE FALSE
      OBVIOUS
    <3>1. PICK r \in R : Meets(r, p, l) /\ c.first \in PagesOf(r) /\ c.first \in Content(dev[t])
      BY <1>4, <2>3
    <3>2. r = y
      BY <2>1, <2>4, <3>1, SamePage
    <3> QED BY <2>1, <3>1, <3>2
  <2>6. d[t].state = "MAPPED"
    BY <1>4, <2>3, <2>5
  <2>7. Covers(y, t, d)
    BY <1>3, <2>3 DEF Covers
  <2> QED BY <2>2, <2>3, <2>6, <2>7
<1> QED BY <1>8, <1>9, <1>10, <1>12, <1>13, <1>14 DEF Sound, T

-----------------------------------------------------------------------------
(* The actions *)

LEMMA InitInv == Init => Inv
<1> SUFFICES ASSUME Init PROVE Inv
  OBVIOUS
<1>1. TypeOK
  BY NodeFields, FreshFacts, ConstantsAssumption DEF Init, TypeOK, Node, Dev
<1>2. Nodes(map_) = {}
  BY DEF Init, Nodes
<1>3. Regions(map_) = {}
  BY <1>2 DEF Regions
<1>4. Disjoint({}) /\ Represents(map_, {})
  BY <1>2 DEF Disjoint, Represents, Nodes
<1>5. \A s \in Ashmem : dev[s].state = "INITIAL" /\ dev[s].content = NoContent /\ count[s] = 0
  BY FreshFacts DEF Init
<1>6. \A p \in Page : os[p] = Free
  BY DEF Init
<1>7. Sound({}, os, opened, dev, count)
  BY <1>5, <1>6 DEF Sound, Owned, Kept, Placed, Delayed, MappedOnce, ManyRefs
<1>8. NoAssertFails
  BY DEF Init, NoAssertFails
<1> QED BY <1>1, <1>3, <1>4, <1>7, <1>8 DEF Inv

\* Calls that leave map_ and the pages alone.
LEMMA ObjectChanged ==
  ASSUME NEW R, NEW fds, NEW d, Sound(R, os, opened, dev, count),
         \A t \in Ashmem :
           \/ Same(t, d, count)
           \/ /\ t \in opened /\ dev[t].content = NoContent /\ dev[t].state = "INITIAL"
              /\ d[t].content = NoContent /\ d[t].state = "MAPPED",
         \A t \in fds : t \in opened \/ count[t] = 0
  PROVE  Sound(R, os, fds, d, count)
<1> DEFINE Changed(t) == /\ t \in opened /\ dev[t].content = NoContent /\ dev[t].state = "INITIAL"
                         /\ d[t].content = NoContent /\ d[t].state = "MAPPED"
<1>0. /\ Owned(R, os) /\ Kept(R, os, dev) /\ Placed(opened, dev, count)
      /\ Delayed(R, os, dev, count) /\ MappedOnce(R, os, dev, count) /\ ManyRefs(R, dev)
  BY DEF Sound
<1>1. \A t \in Ashmem : Same(t, d, count) \/ Changed(t)
  OBVIOUS
<1>2. \A t \in Ashmem : Same(t, d, count) =>
        Content(d[t]) = Content(dev[t]) /\ d[t].state = dev[t].state
  BY SameContent
<1>3. \A t \in Ashmem : Same(t, d, count) =>
        /\ Intact(t, os, dev) => Intact(t, os, d)
        /\ \A r : Covers(r, t, dev) => Covers(r, t, d)
  BY <1>2 DEF Intact, Covers, Same
<1>4. Kept(R, os, d)
  <2>1. \A t \in Ashmem : dev[t].state = "UNMAP_DELAYED" => Same(t, d, count)
    BY <1>1
  <2> QED BY <1>0, <1>2, <2>1 DEF Kept
<1>5. Placed(fds, d, count)
  <2> SUFFICES ASSUME NEW t \in Ashmem
               PROVE  /\ d[t].content # NoContent =>
                           d[t].length >= 1 /\ d[t].content + d[t].length <= NumPages
                      /\ d[t].state = "INITIAL" => d[t].content = NoContent
                      /\ d[t].content = NoContent /\ (t \in fds \/ d[t].state = "MAPPED")
                           => count[t] = 0
    BY DEF Placed
  <2>1. /\ dev[t].content # NoContent =>
             dev[t].length >= 1 /\ dev[t].content + dev[t].length <= NumPages
        /\ dev[t].state = "INITIAL" => dev[t].content = NoContent
        /\ dev[t].content = NoContent /\ (t \in opened \/ dev[t].state = "MAPPED")
             => count[t] = 0
    BY <1>0 DEF Placed
  <2>2. CASE Same(t, d, count)
    BY <2>1, <2>2 DEF Same
  <2>3. CASE Changed(t)
    BY <2>1, <2>3
  <2> QED BY <1>1, <2>2, <2>3
<1>6. Delayed(R, os, d, count)
  <2> SUFFICES ASSUME NEW t \in Ashmem, d[t].state = "UNMAP_DELAYED"
               PROVE  /\ d[t].content # NoContent /\ count[t] = 0 /\ Intact(t, os, d)
                      /\ \A r \in R : PagesOf(r) \cap Content(d[t]) = {}
    BY DEF Delayed
  <2>1. Same(t, d, count)
    BY <1>1
  <2>2. dev[t].state = "UNMAP_DELAYED" /\ Content(d[t]) = Content(dev[t])
        /\ d[t].content = dev[t].content
    BY <1>2, <2>1 DEF Same
  <2>3. /\ dev[t].content # NoContent /\ count[t] = 0 /\ Intact(t, os, dev)
        /\ \A r \in R : PagesOf(r) \cap Content(dev[t]) = {}
    BY <1>0, <2>2 DEF Delayed
  <2> QED BY <1>3, <2>1, <2>2, <2>3
<1>7. MappedOnce(R, os, d, count)
  <2> SUFFICES ASSUME NEW t \in Ashmem, d[t].state = "MAPPED", d[t].content # NoContent
               PROVE  /\ count[t] > 0 /\ Intact(t, os, d)
                      /\ \E r \in R : Covers(r, t, d) /\ r.ref = count[t]
    BY DEF MappedOnce
  <2>1. Same(t, d, count)
    BY <1>1
  <2>2. dev[t].state = "MAPPED" /\ dev[t].content # NoContent
    BY <2>1 DEF Same
  <2>3. /\ count[t] > 0 /\ Intact(t, os, dev)
        /\ \E r \in R : Covers(r, t, dev) /\ r.ref = count[t]
    BY <1>0, <2>2 DEF MappedOnce
  <2> QED BY <1>3, <2>1, <2>3
<1>8. ManyRefs(R, d)
  <2> SUFFICES ASSUME NEW r \in R, r.ref > 1
               PROVE  /\ r.stream \in Ashmem /\ d[r.stream].state = "MAPPED"
                      /\ Covers(r, r.stream, d)
    BY DEF ManyRefs
  <2>1. PICK t : t = r.stream
    OBVIOUS
  <2>2. t \in Ashmem /\ dev[t].state = "MAPPED" /\ Covers(r, t, dev)
    BY <1>0, <2>1 DEF ManyRefs
  <2>3. Same(t, d, count)
    BY <1>1, <2>2
  <2> QED BY <1>2, <1>3, <2>1, <2>2, <2>3
<1> QED BY <1>0, <1>4, <1>5, <1>6, <1>7, <1>8 DEF Sound

LEMMA ObjectChangedInv ==
  ASSUME Inv, map_' = map_, os' = os, count' = count, failed' = failed,
         opened' \subseteq Ashmem, dev' \in [Ashmem -> Dev],
         \A t \in Ashmem :
           \/ Same(t, dev', count)
           \/ /\ t \in opened /\ dev[t].content = NoContent /\ dev[t].state = "INITIAL"
              /\ dev'[t].content = NoContent /\ dev'[t].state = "MAPPED",
         \A t \in opened' : t \in opened \/ count[t] = 0
  PROVE  Inv'
<1>1. Sound(Regions(map_), os, opened', dev', count)
  <2>1. Sound(Regions(map_), os, opened, dev, count)
    BY InvFacts
  <2>2. PICK d : d = dev'
    OBVIOUS
  <2>3. PICK fds : fds = opened'
    OBVIOUS
  <2>4. PICK R : R = Regions(map_)
    OBVIOUS
  <2>5. Sound(R, os, fds, d, count)
    BY <2>1, <2>2, <2>3, <2>4, ObjectChanged
  <2> QED BY <2>2, <2>3, <2>4, <2>5
<1>2. TypeOK'
  BY DEF Inv, TypeOK, Dev
<1>3. NoAssertFails'
  BY DEF Inv, NoAssertFails
<1> QED BY <1>1, <1>2, <1>3 DEF Inv

LEMMA SameIs ==
  ASSUME NEW t, NEW d, NEW n, d[t] = dev[t], n[t] = count[t]
  PROVE  Same(t, d, n)
BY DEF Same

LEMMA OpenInv ==
  ASSUME Inv, NEW s \in Ashmem, Open(s)
  PROVE  Inv'
<1>1. /\ opened' = opened \cup {s} /\ count[s] = 0
      /\ map_' = map_ /\ os' = os /\ dev' = dev /\ count' = count /\ failed' = failed
  BY DEF Open
<1>2. opened' \subseteq Ashmem /\ dev' \in [Ashmem -> Dev]
  BY <1>1, InvFacts DEF Typed
<1>3. \A t \in Ashmem : Same(t, dev', count)
  BY <1>1, SameIs
<1> QED BY <1>1, <1>2, <1>3, ObjectChangedInv

LEMMA SetSizeInv ==
  ASSUME Inv, NEW s \in Ashmem, NEW n \in Sizes, SetSize(s, n)
  PROVE  Inv'
<1>1. /\ opened' = opened /\ dev' = [dev EXCEPT ![s].size = n]
      /\ map_' = map_ /\ os' = os /\ count' = count /\ failed' = failed
  BY DEF SetSize
<1>2. opened \subseteq Ashmem /\ dev \in [Ashmem -> Dev]
  BY InvFacts DEF Typed
<1>3. \A t \in Ashmem : dev'[t] = dev[t] \/ dev'[t] = [dev[t] EXCEPT !.size = n]
  BY <1>1, <1>2
<1>4. \A x \in Dev : /\ [x EXCEPT !.size = n] \in Dev
                     /\ [x EXCEPT !.size = n].content = x.content
                     /\ [x EXCEPT !.size = n].length = x.length
                     /\ [x EXCEPT !.size = n].state = x.state
  BY DEF Dev
<1>5. \A t \in Ashmem : dev'[t] \in Dev /\ Same(t, dev', count)
  BY <1>2, <1>3, <1>4 DEF Same
<1>6. dev' \in [Ashmem -> Dev]
  BY <1>1, <1>2, <1>5
<1> QED BY <1>1, <1>2, <1>5, <1>6, ObjectChangedInv

LEMMA MmapSharedFailsInv ==
  ASSUME Inv, NEW s \in Ashmem, NEW l \in 1 .. NumPages, MmapSharedFails(s, l)
  PROVE  Inv'
<1>1. CASE dev[s].state # "INITIAL"
  BY <1>1, FailsInv DEF MmapSharedFails
<1>2. CASE dev[s].state = "INITIAL"
  <2>1. /\ dev' = [dev EXCEPT ![s].length = l, ![s].state = "MAPPED"]
        /\ opened' = opened /\ s \in opened /\ dev[s].content = NoContent
        /\ map_' = map_ /\ os' = os /\ count' = count /\ failed' = failed
    BY <1>2 DEF MmapSharedFails
  <2>2. opened \subseteq Ashmem /\ dev \in [Ashmem -> Dev]
    BY InvFacts DEF Typed
  <2>3. l \in 0 .. NumPages
    BY ConstantsAssumption
  <2>4. \A t \in Ashmem : t # s => dev'[t] = dev[t]
    BY <2>1, <2>2
  <2>5. dev'[s] = [dev[s] EXCEPT !.length = l, !.state = "MAPPED"]
    BY <2>1, <2>2
  <2>6. dev[s] \in Dev
    BY <2>2
  <2>7. dev'[s] \in Dev /\ dev'[s].content = NoContent /\ dev'[s].state = "MAPPED"
    <3>1. \A x \in Dev : /\ [x EXCEPT !.length = l, !.state = "MAPPED"] \in Dev
                         /\ [x EXCEPT !.length = l, !.state = "MAPPED"].content = x.content
                         /\ [x EXCEPT !.length = l, !.state = "MAPPED"].state = "MAPPED"
      BY <2>3 DEF Dev
    <3> QED BY <2>1, <2>5, <2>6, <3>1
  <2>8. dev' \in [Ashmem -> Dev]
    BY <2>1, <2>2, <2>4, <2>7
  <2>9. \A t \in Ashmem : t # s => Same(t, dev', count)
    BY <2>4, SameIs
  <2> QED BY <1>2, <2>1, <2>2, <2>7, <2>8, <2>9, ObjectChangedInv
<1> QED BY <1>1, <1>2

LEMMA CloseInv ==
  ASSUME Inv, NEW s \in Ashmem, Close(s)
  PROVE  Inv'
<1> DEFINE R == Regions(map_)
           fds == opened \ {s}
<1>0. /\ Typed(map_, os, opened, dev, count) /\ Disjoint(R) /\ Represents(map_, R)
      /\ Sound(R, os, opened, dev, count)
  BY InvFacts
<1>1. Running /\ Ends(map_, os, fds, dev)
  BY DEF Close
<1>2. PICK n : n = count'
  OBVIOUS
<1>3. count \in [Ashmem -> 0 .. MaxRef] /\ 0 \in 0 .. MaxRef
  BY <1>0, ConstantsAssumption DEF Typed
<1>4. n = IF s \in Unreferenced(map_, fds) THEN [count EXCEPT ![s] = 0] ELSE count
  BY <1>2 DEF Close
<1>5. /\ n \in [Ashmem -> 0 .. MaxRef] /\ \A t \in Ashmem : t # s => n[t] = count[t]
      /\ n[s] = count[s] \/ (n[s] = 0 /\ \A a \in Addr : map_[a].stream # s)
  <2>1. CASE s \in Unreferenced(map_, fds)
    <3>1. \A a \in Addr : map_[a].stream # s
      BY <2>1 DEF Unreferenced
    <3> QED BY <1>3, <1>4, <2>1, <3>1
  <2>2. CASE s \notin Unreferenced(map_, fds)
    BY <1>3, <1>4, <2>2
  <2> QED BY <2>1, <2>2
<1> HIDE DEF R
<1>6. /\ Owned(R, os) /\ Kept(R, os, dev) /\ Placed(opened, dev, count)
      /\ Delayed(R, os, dev, count) /\ MappedOnce(R, os, dev, count) /\ ManyRefs(R, dev)
  BY <1>0 DEF Sound
<1>7. n[s] = count[s] \/ (n[s] = 0 /\ \A r \in R : r.stream # s)
  <2>1. ASSUME NEW r \in R, \A a \in Addr : map_[a].stream # s PROVE r.stream # s
    <3>1. map_[StartNode(r.first)].stream = r.stream
      BY <1>0, RepresentsFields
    <3>2. StartNode(r.first) \in Addr
      BY <1>0, DisjointFacts, NodesAreAddresses
    <3> QED BY <2>1, <3>1, <3>2
  <2> QED BY <1>5, <2>1
<1>8. \A t \in Ashmem : n[t] = count[t] \/ n[t] = 0
  BY <1>5
<1>9. Placed(fds, dev, n)
  BY <1>6, <1>8 DEF Placed
<1>10. Delayed(R, os, dev, n)
  BY <1>6, <1>8 DEF Delayed
<1>11. MappedOnce(R, os, dev, n)
  <2> SUFFICES ASSUME NEW t \in Ashmem, dev[t].state = "MAPPED", dev[t].content # NoContent
               PROVE  /\ n[t] > 0 /\ Intact(t, os, dev)
                      /\ \E r \in R : Covers(r, t, dev) /\ r.ref = n[t]
    BY DEF MappedOnce
  <2>1. /\ count[t] > 0 /\ Intact(t, os, dev)
        /\ \E r \in R : Covers(r, t, dev) /\ r.ref = count[t]
    BY <1>6 DEF MappedOnce
  <2>2. \E r \in R : r.stream = t
    BY <2>1 DEF Covers
  <2>3. n[t] = count[t]
    BY <1>5, <1>7, <2>2
  <2> QED BY <2>1, <2>3
<1>12. Sound(R, os, fds, dev, n)
  BY <1>6, <1>9, <1>10, <1>11 DEF Sound
<1>13. Typed(map_, os, fds, dev, n)
  BY <1>0, <1>5 DEF Typed
<1> HIDE DEF fds
<1> QED BY <1>0, <1>1, <1>2, <1>12, <1>13, EndsSound

\* Where a mapping can go without MAP_FIXED on memory that was unmapped, no object
\* keeps memory, and without MAP_FIXED no region is.
LEMMA MappableFacts ==
  ASSUME Inv, ~ReusesUnmapped, NEW p \in Page, NEW l \in Nat \ {0}, NEW fixed \in BOOLEAN,
         Mappable(p, l, fixed)
  PROVE  /\ Span(p, l) \subseteq Page
         /\ \A t \in Ashmem : dev[t].state = "UNMAP_DELAYED" => Content(dev[t]) \cap Span(p, l) = {}
         /\ ~fixed => \A r \in Regions(map_) : ~Meets(r, p, l)
<1> DEFINE R == Regions(map_)
<1>0. /\ Typed(map_, os, opened, dev, count) /\ Disjoint(R) /\ Represents(map_, R)
      /\ Sound(R, os, opened, dev, count)
  BY InvFacts
<1>1. /\ Owned(R, os) /\ Placed(opened, dev, count) /\ Delayed(R, os, dev, count)
  BY <1>0 DEF Sound
<1>2. /\ Span(p, l) \subseteq Page
      /\ ~fixed => \A q \in Span(p, l) : os[q] = Free
      /\ fixed => Span(p, l) \cap DelayedPages = {}
  BY DEF Mappable
<1>3. DelayedPages = {q \in Page : os[q] # Free} \ UNION {PagesOf(r) : r \in R}
  BY DEF DelayedPages
<1> HIDE DEF R
<1>4. ASSUME NEW t \in Ashmem, dev[t].state = "UNMAP_DELAYED",
             NEW q \in Content(dev[t]), q \in Span(p, l)
      PROVE  FALSE
  <2>1. /\ dev[t].content # NoContent /\ Intact(t, os, dev)
        /\ \A r \in R : PagesOf(r) \cap Content(dev[t]) = {}
    BY <1>1, <1>4 DEF Delayed
  <2>2. os[q] = [by |-> t, kind |-> "shared"]
    BY <2>1 DEF Intact
  <2>3. os[q].by = t
    BY <2>2
  <2>4. os[q] # Free
    BY <2>3, NodeFields
  <2>5. q \in DelayedPages
    BY <1>2, <1>3, <1>4, <2>1, <2>4
  <2> QED BY <1>2, <1>4, <2>4, <2>5
<1>5. ASSUME ~fixed, NEW r \in R, Meets(r, p, l) PROVE FALSE
  <2>1. Touched(map_, p, l) = {x \in R : Meets(x, p, l)}
    BY <1>0, TouchedAre
  <2>2. Regions(map_) = R
    BY DEF R
  <2>3. PICK q \in PagesOf(r) : q \in Span(p, l)
    BY <1>5, <2>1, <2>2 DEF Touched
  <2>4. os[q].by = r.stream /\ r.stream \in Stream
    BY <1>0, <1>1, DisjointFacts DEF Owned
  <2>5. os[q] # Free
    BY <2>4, NodeFields
  <2> QED BY <1>2, <1>5, <2>3, <2>5
<1> QED BY <1>2, <1>4, <1>5 DEF R

LEMMA MmapFileInv ==
  ASSUME Inv, ~ReusesUnmapped, NEW p \in Page, NEW l \in 1 .. NumPages, NEW fixed \in BOOLEAN,
         NEW s \in File, MmapFile(s, p, l, fixed)
  PROVE  Inv'
<1>0. /\ l \in Nat \ {0} /\ s \in Stream /\ Running /\ Mappable(p, l, fixed)
      /\ Registers(s, p, l, fixed, Mapped(p, l, s, "file"), dev) /\ count' = count
  BY NodeFields, ConstantsAssumption DEF MmapFile
<1>1. dev \in [Ashmem -> Dev] /\ count \in [Ashmem -> 0 .. MaxRef]
  BY InvFacts DEF Typed
<1>2. \A t \in Ashmem : Same(t, dev, count)
  BY DEF Same
<1>3. /\ Span(p, l) \subseteq Page
      /\ \A t \in Ashmem : dev[t].state = "UNMAP_DELAYED" => Content(dev[t]) \cap Span(p, l) = {}
      /\ ~fixed => \A r \in Regions(map_) : ~Meets(r, p, l)
  BY <1>0, MappableFacts
<1> QED BY <1>0, <1>1, <1>2, <1>3, RegistersNew

LEMMA MmapPrivateInv ==
  ASSUME Inv, ~ReusesUnmapped, NEW p \in Page, NEW l \in 1 .. NumPages, NEW fixed \in BOOLEAN,
         NEW s \in Ashmem, MmapPrivate(s, p, l, fixed)
  PROVE  Inv'
<1> DEFINE d == [dev EXCEPT ![s].private = TRUE]
<1>0. /\ l \in Nat \ {0} /\ s \in Stream /\ Running /\ Mappable(p, l, fixed)
      /\ Registers(s, p, l, fixed, Mapped(p, l, s, "private"), d) /\ count' = count
  BY NodeFields, ConstantsAssumption DEF MmapPrivate
<1>1. dev \in [Ashmem -> Dev] /\ count \in [Ashmem -> 0 .. MaxRef]
  BY InvFacts DEF Typed
<1>2. \A t \in Ashmem : d[t] = dev[t] \/ d[t] = [dev[t] EXCEPT !.private = TRUE]
  BY <1>1
<1>3. \A x \in Dev : /\ [x EXCEPT !.private = TRUE] \in Dev
                     /\ [x EXCEPT !.private = TRUE].content = x.content
                     /\ [x EXCEPT !.private = TRUE].length = x.length
                     /\ [x EXCEPT !.private = TRUE].state = x.state
  BY DEF Dev
<1>4. d = [t \in Ashmem |-> d[t]]
  BY <1>1
<1> HIDE DEF d
<1>5. ASSUME NEW t \in Ashmem PROVE d[t] \in Dev /\ Same(t, d, count)
  <2>1. dev[t] \in Dev
    BY <1>1
  <2>2. CASE d[t] = dev[t]
    BY <2>1, <2>2, SameIs, Zenon
  <2>3. CASE d[t] = [dev[t] EXCEPT !.private = TRUE]
    <3> HIDE DEF Dev
    <3>1. /\ d[t] \in Dev /\ d[t].content = dev[t].content
          /\ d[t].length = dev[t].length /\ d[t].state = dev[t].state
      BY <1>3, <2>1, <2>3, Zenon
    <3> QED BY <3>1, Zenon DEF Same
  <2> QED BY <1>2, <2>2, <2>3
<1>6. d \in [Ashmem -> Dev]
  BY <1>4, <1>5
<1>7. /\ Span(p, l) \subseteq Page
      /\ \A t \in Ashmem : dev[t].state = "UNMAP_DELAYED" => Content(dev[t]) \cap Span(p, l) = {}
      /\ ~fixed => \A r \in Regions(map_) : ~Meets(r, p, l)
  BY <1>0, MappableFacts
<1> QED BY <1>0, <1>1, <1>5, <1>6, <1>7, RegistersNew

LEMMA MmapSharedInv ==
  ASSUME Inv, ~ReusesUnmapped, NEW p \in Page, NEW l \in 1 .. NumPages, NEW fixed \in BOOLEAN,
         NEW s \in Ashmem, MmapShared(s, p, l, fixed)
  PROVE  Inv'
<1> DEFINE d == [dev EXCEPT ![s].content = p, ![s].length = l, ![s].state = "MAPPED"]
           n == [count EXCEPT ![s] = 1]
<1>0. l \in Nat \ {0} /\ l \in 0 .. NumPages /\ s \in Stream /\ Running /\ Mappable(p, l, fixed)
  BY NodeFields, ConstantsAssumption DEF MmapShared
<1>1. CASE dev[s].state # "INITIAL"
  <2>1. Fails("initial")
    BY <1>1 DEF MmapShared
  <2> QED BY <2>1, FailsInv
<1>2. CASE dev[s].state = "INITIAL"
  <2>1. /\ Registers(s, p, l, fixed, Mapped(p, l, s, "shared"), d)
        /\ failed' = "none" => count' = n
    BY <1>2, Zenon DEF MmapShared
  <2>2. dev \in [Ashmem -> Dev] /\ count \in [Ashmem -> 0 .. MaxRef] /\ 1 \in 0 .. MaxRef
    BY InvFacts, ConstantsAssumption DEF Typed
  <2>3. /\ n \in [Ashmem -> 0 .. MaxRef] /\ n[s] = 1
        /\ \A t \in Ashmem : t # s => n[t] = count[t] /\ d[t] = dev[t]
    BY <2>2
  <2>4. d[s] = [dev[s] EXCEPT !.content = p, !.length = l, !.state = "MAPPED"]
    BY <2>2
  <2>5. d = [t \in Ashmem |-> d[t]]
    BY <2>2
  <2> HIDE DEF d, n
  <2>6. \A x \in Dev : /\ [x EXCEPT !.content = p, !.length = l, !.state = "MAPPED"] \in Dev
                       /\ [x EXCEPT !.content = p, !.length = l, !.state = "MAPPED"].content = p
                       /\ [x EXCEPT !.content = p, !.length = l, !.state = "MAPPED"].length = l
                       /\ [x EXCEPT !.content = p, !.length = l, !.state = "MAPPED"].state = "MAPPED"
    BY <1>0 DEF Dev
  <2>7. d[s] \in Dev /\ d[s].content = p /\ d[s].length = l /\ d[s].state = "MAPPED"
    <3>1. dev[s] \in Dev
      BY <2>2
    <3> HIDE DEF Dev
    <3> QED BY <2>4, <2>6, <3>1, Zenon
  <2>8. d \in [Ashmem -> Dev]
    BY <2>2, <2>3, <2>5, <2>7
  <2>9. IsNew(s, s, p, l, "shared", d, n)
    BY <1>2, <2>3, <2>7 DEF IsNew
  <2>10. \A t \in Ashmem : t # s => Same(t, d, n)
    BY <2>3, SameIs
  <2>11. /\ Span(p, l) \subseteq Page
         /\ \A t \in Ashmem : dev[t].state = "UNMAP_DELAYED" => Content(dev[t]) \cap Span(p, l) = {}
         /\ ~fixed => \A r \in Regions(map_) : ~Meets(r, p, l)
    BY <1>0, MappableFacts
  <2> QED BY <1>0, <2>1, <2>3, <2>8, <2>9, <2>10, <2>11, RegistersNew
<1> QED BY <1>1, <1>2

LEMMA MeetsTouched ==
  ASSUME NEW R, Disjoint(R), Represents(map_, R), NEW r \in R, NEW p \in Page,
         NEW l \in Nat \ {0}, PagesOf(r) \cap Span(p, l) = {}
  PROVE  ~Meets(r, p, l)
<1>1. Touched(map_, p, l) = {x \in R : Meets(x, p, l)} /\ Regions(map_) = R
  BY TouchedAre, RegionsAre
<1> QED BY <1>1 DEF Touched

LEMMA MmapSharedAgainInv ==
  ASSUME Inv, ~ReusesUnmapped, NEW s \in Ashmem, NEW fixed \in BOOLEAN,
         MmapSharedAgain(s, fixed)
  PROVE  Inv'
<1> DEFINE R == Regions(map_)
           p == dev[s].content
           l == dev[s].length
           d == [dev EXCEPT ![s].state = "MAPPED"]
<1>0. /\ Typed(map_, os, opened, dev, count) /\ Disjoint(R) /\ Represents(map_, R)
      /\ Sound(R, os, opened, dev, count)
  BY InvFacts
<1>1. /\ Running /\ s \in opened /\ p # NoContent
      /\ dev[s].state # "PARTIALLY_UNMAPPED" /\ count[s] < MaxRef
      /\ fixed => dev[s].state # "UNMAP_DELAYED"
      /\ Registers(s, p, l, fixed, os, d)
      /\ failed' = "none" => count' = IF fixed THEN count ELSE [count EXCEPT ![s] = @ + 1]
  BY Zenon DEF MmapSharedAgain
<1>2. /\ Owned(R, os) /\ Placed(opened, dev, count) /\ Delayed(R, os, dev, count)
      /\ MappedOnce(R, os, dev, count)
  BY <1>0 DEF Sound
<1>3. dev \in [Ashmem -> Dev] /\ count \in [Ashmem -> 0 .. MaxRef] /\ os \in Pages
  BY <1>0 DEF Typed
<1>4. dev[s] \in Dev /\ count[s] \in 0 .. MaxRef
  BY <1>3
<1>5. /\ p \in Page /\ l \in Nat \ {0} /\ s \in Stream
  <2>1. dev[s].length >= 1 /\ dev[s].length \in 0 .. NumPages /\ dev[s].content \in Page
    BY <1>1, <1>2, <1>4 DEF Placed, Dev
  <2> QED BY <2>1, NodeFields
<1>6. dev[s].state \in {"MAPPED", "UNMAP_DELAYED"}
  <2>1. dev[s].state # "INITIAL"
    BY <1>1, <1>2 DEF Placed
  <2>2. dev[s].state \in {"INITIAL", "MAPPED", "PARTIALLY_UNMAPPED", "UNMAP_DELAYED"}
    BY <1>4 DEF Dev
  <2> QED BY <1>1, <2>1, <2>2
<1>7. Content(dev[s]) = Span(p, l)
  BY <1>1 DEF Content
<1>8. Span(p, l) \subseteq Page
  BY <1>0, <1>1, <1>2, <1>7, ContentPages
<1>9. Intact(s, os, dev)
  BY <1>1, <1>2, <1>6 DEF Delayed, MappedOnce
<1>10. os = Mapped(p, l, s, "shared")
  <2>1. \A q \in Span(p, l) : os[q] = [by |-> s, kind |-> "shared"]
    BY <1>7, <1>9 DEF Intact
  <2>2. os = [q \in Page |-> os[q]]
    BY <1>3 DEF Pages
  <2> HIDE DEF p, l
  <2> QED BY <2>1, <2>2 DEF Mapped
<1>11. Registers(s, p, l, fixed, Mapped(p, l, s, "shared"), d)
  BY <1>1, <1>10
<1>12. CASE dev[s].state = "MAPPED"
  <2>1. d = dev
    <3>1. [dev[s] EXCEPT !.state = "MAPPED"] = dev[s]
      BY <1>4, <1>12 DEF Dev
    <3>2. d = [dev EXCEPT ![s] = [dev[s] EXCEPT !.state = "MAPPED"]]
      OBVIOUS
    <3> HIDE DEF d
    <3> QED BY <1>3, <3>1, <3>2
  <2>2. PICK r \in R : Covers(r, s, dev) /\ r.ref = count[s]
    BY <1>1, <1>2, <1>12 DEF MappedOnce
  <2>3. /\ PagesOf(r) = Span(p, l) /\ r.stream = s /\ r.first = p /\ r.last = p + l - 1
    BY <1>7, <2>2, CoversPages DEF Covers
  <2> HIDE DEF d, p, l, R
  <2>4. CASE fixed
    <3>1. \A t \in Ashmem : dev[t].state = "UNMAP_DELAYED" => Content(dev[t]) \cap Span(p, l) = {}
      BY <1>2, <2>3 DEF Delayed
    <3>2. \A t \in Ashmem : Same(t, dev, count)
      BY DEF Same
    <3>3. failed' = "none" => count' = count
      BY <1>1, <2>4
    <3>4. Registers(s, p, l, fixed, Mapped(p, l, s, "shared"), dev) /\ Running
      BY <1>1, <1>11, <2>1
    <3> QED BY <1>3, <1>5, <1>8, <2>4, <3>1, <3>2, <3>3, <3>4, RegistersNew
  <2>5. CASE ~fixed
    <3>1. FoundRegions(map_, p, l) = {x \in R : x.first = p /\ x.last = p + l - 1}
      BY <1>0, <1>5, TouchedAre
    <3>2. r \in FoundRegions(map_, p, l)
      BY <2>3, <3>1
    <3>3. \A x \in FoundRegions(map_, p, l) : x.stream = s
      <4> SUFFICES ASSUME NEW x \in R, x.first = p, x.last = p + l - 1 PROVE x.stream = s
        BY <3>1
      <4>1. x = r
        <5>1. PagesOf(x) = PagesOf(r)
          BY <2>3 DEF PagesOf
        <5>2. r.first \in PagesOf(r)
          <6>1. r.first \in Int /\ r.last \in Int /\ r.first <= r.last
            BY <1>0, DisjointFacts
          <6> QED BY <6>1 DEF PagesOf
        <5> QED BY <1>0, <5>1, <5>2, SamePage
      <4> QED BY <2>3, <4>1
    <3>4. Ends(RefChanged(map_, p, 1), os, opened, dev)
      BY <1>1, <2>1, <2>5, <3>2, <3>3 DEF Registers, RefAdded
    <3>5. count' = [count EXCEPT ![s] = @ + 1]
      BY <1>1, <2>5, <3>4 DEF Ends, Running
    <3> DEFINE n == [count EXCEPT ![s] = @ + 1]
    <3>6. /\ n \in [Ashmem -> 0 .. MaxRef] /\ n[s] = count[s] + 1
          /\ \A t \in Ashmem : t # s => n[t] = count[t]
      <4>1. count[s] + 1 \in 0 .. MaxRef
        BY <1>1, <1>4, ConstantsAssumption
      <4> QED BY <1>3, <4>1
    <3>7. r.ref + 1 \in 1 .. MaxRef /\ r \in Regions(map_)
      BY <1>1, <1>4, <2>2, ConstantsAssumption DEF R
    <3> HIDE DEF n
    <3>8. Ends(RefChanged(map_, r.first, 1), os, opened, dev) /\ count' = n
      BY <2>3, <3>4, <3>5 DEF n
    <3> QED BY <1>1, <1>12, <2>2, <3>6, <3>7, <3>8, ReferredEnds
  <2> QED BY <2>4, <2>5
<1>13. CASE dev[s].state = "UNMAP_DELAYED"
  <2> DEFINE n == [count EXCEPT ![s] = @ + 1]
  <2>1. ~fixed
    BY <1>1, <1>13
  <2>2. count[s] = 0 /\ \A r \in R : PagesOf(r) \cap Content(dev[s]) = {}
    BY <1>2, <1>13 DEF Delayed
  <2>3. failed' = "none" => count' = n
    BY <1>1, <2>1
  <2>4. n \in [Ashmem -> 0 .. MaxRef] /\ n[s] = 1 /\ \A t \in Ashmem : t # s => n[t] = count[t]
    <3>1. count[s] + 1 = 1 /\ 1 \in 0 .. MaxRef
      BY <2>2, ConstantsAssumption
    <3> QED BY <1>3, <3>1
  <2>5. d[s] = [dev[s] EXCEPT !.state = "MAPPED"] /\ \A t \in Ashmem : t # s => d[t] = dev[t]
    BY <1>3
  <2>6. d = [t \in Ashmem |-> d[t]]
    BY <1>3
  <2> HIDE DEF d, n
  <2>7. \A x \in Dev : /\ [x EXCEPT !.state = "MAPPED"] \in Dev
                       /\ [x EXCEPT !.state = "MAPPED"].content = x.content
                       /\ [x EXCEPT !.state = "MAPPED"].length = x.length
                       /\ [x EXCEPT !.state = "MAPPED"].state = "MAPPED"
    BY DEF Dev
  <2>8. d[s] \in Dev /\ d[s].content = p /\ d[s].length = l /\ d[s].state = "MAPPED"
    BY <1>4, <2>5, <2>7
  <2>9. d \in [Ashmem -> Dev]
    BY <1>3, <2>5, <2>6, <2>8
  <2>10. \A t \in Ashmem : t # s => Same(t, d, n)
    BY <2>4, <2>5, SameIs
  <2> HIDE DEF p, l, R
  <2>11. IsNew(s, s, p, l, "shared", d, n)
    BY <1>7, <1>13, <2>4, <2>8 DEF IsNew
  <2>12. ~Same(s, d, n)
    BY <1>13, <2>8 DEF Same
  <2>13. ASSUME NEW t \in Ashmem, t # s, dev[t].state = "UNMAP_DELAYED"
         PROVE  Content(dev[t]) \cap Span(p, l) = {}
    <3> SUFFICES ASSUME NEW q \in Content(dev[t]), q \in Content(dev[s]) PROVE FALSE
      BY <1>7
    <3>1. Intact(t, os, dev)
      BY <1>2, <2>13 DEF Delayed
    <3>2. os[q] = [by |-> t, kind |-> "shared"]
      BY <3>1 DEF Intact
    <3>3. os[q] = [by |-> s, kind |-> "shared"]
      BY <1>9 DEF Intact
    <3>4. os[q].by = t
      BY <3>2
    <3>5. os[q].by = s
      BY <3>3
    <3> QED BY <2>13, <3>4, <3>5
  <2>14. \A r \in Regions(map_) : ~Meets(r, p, l)
    <3>1. \A r \in R : ~Meets(r, p, l)
      BY <1>0, <1>5, <1>7, <2>2, MeetsTouched
    <3> QED BY <3>1 DEF R
  <2>15. \A t \in Ashmem : Same(t, d, n) \/ IsNew(t, s, p, l, "shared", d, n)
    BY <2>10, <2>11
  <2>16. \A t \in Ashmem : Same(t, d, n) /\ dev[t].state = "UNMAP_DELAYED" =>
                             Content(dev[t]) \cap Span(p, l) = {}
    BY <2>12, <2>13
  <2> QED BY <1>1, <1>5, <1>8, <1>11, <2>3, <2>4, <2>9, <2>14, <2>15, <2>16, RegistersNew
<1> QED BY <1>6, <1>12, <1>13

LEMMA MunmapInv ==
  ASSUME Inv, NEW p \in Page, NEW l \in 1 .. NumPages, Munmap(p, l)
  PROVE  Inv'
<1> DEFINE R == Regions(map_)
           same == FoundRegions(map_, p, l)
           P == [q \in Page |-> IF q \in Unmapped(p, l) THEN Free ELSE os[q]]
           d == [s \in Ashmem |-> [dev[s] EXCEPT !.state = AfterMunmap(map_, p, l, s)]]
           n == [s \in Ashmem |-> IF SharedClips(map_, p, l, s) # {} THEN 0 ELSE count[s]]
<1>0. /\ Typed(map_, os, opened, dev, count) /\ Disjoint(R) /\ Represents(map_, R)
      /\ Sound(R, os, opened, dev, count)
  BY InvFacts
<1>1. l \in Nat \ {0} /\ Running /\ Span(p, l) \subseteq Page
  BY ConstantsAssumption DEF Munmap
<1>2. p + l <= NumPages
  BY <1>1, SpanFits
<1>3. dev \in [Ashmem -> Dev] /\ count \in [Ashmem -> 0 .. MaxRef] /\ os \in Pages
  BY <1>0 DEF Typed
<1>4. \/ /\ \E r \in same : r.ref > 1
         /\ Ends(RefChanged(map_, p, -1), os, opened, dev)
         /\ count' = [s \in Ashmem |->
                        IF \E r \in same : r.stream = s THEN count[s] - 1 ELSE count[s]]
      \/ Fails("partial")
      \/ /\ \A r \in Touched(map_, p, l) : r.ref = 1
         /\ Ends(Removed(map_, p, l), P, opened, d) /\ count' = n
  BY Zenon DEF Munmap, Unmapped, RefDropped
<1>5. /\ Touched(map_, p, l) = {r \in R : Meets(r, p, l)}
      /\ same = {r \in R : r.first = p /\ r.last = p + l - 1}
  BY <1>0, <1>1, TouchedAre
<1> HIDE DEF R
<1>6. CASE /\ \E r \in same : r.ref > 1
           /\ Ends(RefChanged(map_, p, -1), os, opened, dev)
           /\ count' = [s \in Ashmem |->
                          IF \E r \in same : r.stream = s THEN count[s] - 1 ELSE count[s]]
  <2>1. PICK r \in R : r.first = p /\ r.last = p + l - 1 /\ r.ref > 1
    BY <1>5, <1>6
  <2>2. \A x \in same : x = r
    <3> SUFFICES ASSUME NEW x \in R, x.first = p, x.last = p + l - 1 PROVE x = r
      BY <1>5
    <3>1. PagesOf(x) = PagesOf(r)
      BY <2>1 DEF PagesOf
    <3>2. r.first \in PagesOf(r)
      <4>1. r.first \in Int /\ r.last \in Int /\ r.first <= r.last
        BY <1>0, DisjointFacts
      <4> QED BY <4>1 DEF PagesOf
    <3> QED BY <1>0, <3>1, <3>2, SamePage
  <2>3. r \in same
    BY <1>5, <2>1
  <2>4. PICK s : s = r.stream
    OBVIOUS
  <2>5. s \in Ashmem /\ dev[s].state = "MAPPED" /\ Covers(r, s, dev)
    BY <1>0, <2>1, <2>4 DEF Sound, ManyRefs
  <2>6. r.ref = count[s]
    BY <1>0, <2>5, CountIs
  <2>7. r.ref \in 1 .. MaxRef
    BY <1>0, DisjointFacts
  <2>8. \A t \in Ashmem : (\E x \in same : x.stream = t) <=> t = s
    BY <2>2, <2>3, <2>4
  <2> HIDE DEF same
  <2>9. PICK k : k = count'
    OBVIOUS
  <2>10. k = [t \in Ashmem |-> IF t = s THEN count[t] - 1 ELSE count[t]]
    BY <1>6, <2>8, <2>9
  <2>11. count[s] - 1 \in 0 .. MaxRef /\ r.ref + (-1) \in 1 .. MaxRef /\ count[s] - 1 = count[s] + (-1)
    BY <2>1, <2>6, <2>7, ConstantsAssumption
  <2>12. /\ k \in [Ashmem -> 0 .. MaxRef] /\ k[s] = count[s] + (-1)
         /\ \A t \in Ashmem : t # s => k[t] = count[t]
    BY <1>3, <2>5, <2>10, <2>11
  <2>13. Ends(RefChanged(map_, r.first, -1), os, opened, dev) /\ -1 \in Int
    BY <1>6, <2>1
  <2>14. r \in Regions(map_)
    BY DEF R
  <2> QED BY <1>1, <2>5, <2>9, <2>11, <2>12, <2>13, <2>14, ReferredEnds
<1>7. CASE Fails("partial")
  BY <1>7, FailsInv
<1>8. CASE /\ \A r \in Touched(map_, p, l) : r.ref = 1
           /\ Ends(Removed(map_, p, l), P, opened, d) /\ count' = n
  <2>1. \A r \in R : Meets(r, p, l) => r.ref = 1
    BY <1>5, <1>8
  <2>2. \A t \in Ashmem : AfterMunmap(map_, p, l, t) \in
          {"INITIAL", "MAPPED", "PARTIALLY_UNMAPPED", "UNMAP_DELAYED"}
    <3> SUFFICES ASSUME NEW t \in Ashmem
                 PROVE  AfterMunmap(map_, p, l, t) \in
                          {"INITIAL", "MAPPED", "PARTIALLY_UNMAPPED", "UNMAP_DELAYED"}
      OBVIOUS
    <3>1. dev[t] \in Dev
      BY <1>3
    <3>2. dev[t].state \in {"INITIAL", "MAPPED", "PARTIALLY_UNMAPPED", "UNMAP_DELAYED"}
      BY <3>1 DEF Dev
    <3> QED BY <3>2 DEF AfterMunmap
  <2>4. \A t \in Ashmem : d[t] = [dev[t] EXCEPT !.state = AfterMunmap(map_, p, l, t)]
    OBVIOUS
  <2>5. d = [t \in Ashmem |-> d[t]]
    OBVIOUS
  <2>6. \A t \in Ashmem :
          n[t] = IF SharedClips(map_, p, l, t) # {} THEN 0 ELSE count[t]
    OBVIOUS
  <2>7. n \in [Ashmem -> 0 .. MaxRef]
    <3>1. 0 \in 0 .. MaxRef
      BY ConstantsAssumption
    <3> QED BY <1>3, <3>1
  <2>8. P \in Pages
    BY <1>3, FreshFacts DEF Pages
  <2> HIDE DEF d, n
  <2>9. \A t \in Ashmem : /\ d[t] \in Dev
                          /\ d[t].content = dev[t].content /\ d[t].length = dev[t].length
                          /\ d[t].state = AfterMunmap(map_, p, l, t)
    <3> SUFFICES ASSUME NEW t \in Ashmem
                 PROVE  /\ d[t] \in Dev
                        /\ d[t].content = dev[t].content /\ d[t].length = dev[t].length
                        /\ d[t].state = AfterMunmap(map_, p, l, t)
      OBVIOUS
    <3>1. PICK x \in Dev : x = dev[t]
      BY <1>3
    <3>2. PICK y \in {"INITIAL", "MAPPED", "PARTIALLY_UNMAPPED", "UNMAP_DELAYED"} :
            y = AfterMunmap(map_, p, l, t)
      BY <2>2
    <3>3. d[t] = [x EXCEPT !.state = y]
      BY <2>4, <3>1, <3>2
    <3>4. PICK z : z = [x EXCEPT !.state = y]
      OBVIOUS
    <3>5. z \in Dev /\ z.content = x.content /\ z.length = x.length /\ z.state = y
      BY <3>4 DEF Dev
    <3> QED BY <3>1, <3>2, <3>3, <3>4, <3>5
  <2>10. d \in [Ashmem -> Dev]
    BY <2>5, <2>9
  <2>11. PICK pages : pages = P
    OBVIOUS
  <2>12. Sound(Trimmed(R, p, l), pages, opened, d, n)
    BY <1>0, <1>1, <1>2, <2>1, <2>6, <2>9, <2>11, RegionsUnmapped
  <2> HIDE DEF P
  <2>13. /\ Removed(map_, p, l) \in Map /\ Represents(Removed(map_, p, l), Trimmed(R, p, l))
         /\ Disjoint(Trimmed(R, p, l))
    <3>1. map_ \in Map
      BY <1>0 DEF Typed
    <3> QED BY <1>0, <1>1, <1>2, <3>1, RemovedRegions, TrimmedFacts
  <2>14. Typed(Removed(map_, p, l), pages, opened, d, n)
    BY <1>0, <2>7, <2>8, <2>10, <2>11, <2>13 DEF Typed
  <2>15. Ends(Removed(map_, p, l), pages, opened, d) /\ count' = n
    BY <1>8, <2>11
  <2> QED BY <1>1, <2>12, <2>13, <2>14, <2>15, EndsSound
<1> QED BY <1>4, <1>6, <1>7, <1>8

\* Where no region is and nothing is kept, there is nothing to unmap.
LEMMA MunmapFallbackInv ==
  ASSUME Inv, ~ReusesUnmapped, NEW p \in Page, NEW l \in 1 .. NumPages,
         MunmapFallback(p, l)
  PROVE  Inv'
<1>1. /\ Touched(map_, p, l) = {} /\ Span(p, l) \cap DelayedPages = {}
      /\ os' = [q \in Page |-> IF q \in Span(p, l) THEN Free ELSE os[q]]
      /\ map_' = map_ /\ opened' = opened /\ dev' = dev /\ count' = count /\ failed' = failed
  BY DEF MunmapFallback
<1>2. os \in [Page -> [by : Stream \cup {None}, kind : {"free", "shared", "private", "file"}]]
  BY DEF Inv, TypeOK
<1>3. ASSUME NEW q \in Page, q \in Span(p, l) PROVE os[q] = Free
  <2>1. \A r \in Regions(map_) : q \notin PagesOf(r)
    BY <1>1, <1>3 DEF Touched
  <2> QED BY <1>1, <1>3, <2>1 DEF DelayedPages
<1>4. os' = os
  BY <1>1, <1>2, <1>3
<1>5. TypeOK' /\ NoAssertFails'
  BY <1>1, <1>4 DEF Inv, TypeOK, NoAssertFails
<1> QED BY <1>1, <1>4, <1>5 DEF Inv

-----------------------------------------------------------------------------
(* The theorems *)

LEMMA NextInv ==
  ASSUME Inv, ~ReusesUnmapped, [Next]_vars
  PROVE  Inv'
<1>1. CASE UNCHANGED vars
  <2>1. /\ map_' = map_ /\ os' = os /\ opened' = opened /\ dev' = dev /\ count' = count
        /\ failed' = failed
    BY <1>1 DEF vars
  <2>2. TypeOK' /\ NoAssertFails'
    BY <2>1 DEF Inv, TypeOK, NoAssertFails
  <2> QED BY <2>1, <2>2 DEF Inv
<1>2. ASSUME NEW s \in Ashmem, Open(s) PROVE Inv'
  BY <1>2, OpenInv
<1>3. ASSUME NEW s \in Ashmem, Close(s) PROVE Inv'
  BY <1>3, CloseInv
<1>4. ASSUME NEW s \in Ashmem, NEW n \in Sizes, SetSize(s, n) PROVE Inv'
  BY <1>4, SetSizeInv
<1>5. ASSUME NEW s \in Ashmem, NEW l \in 1 .. NumPages, MmapSharedFails(s, l) PROVE Inv'
  BY <1>5, MmapSharedFailsInv
<1>6. ASSUME NEW fixed \in BOOLEAN, NEW s \in Ashmem, MmapSharedAgain(s, fixed) PROVE Inv'
  BY <1>6, MmapSharedAgainInv
<1>7. ASSUME NEW fixed \in BOOLEAN, NEW p \in Page, NEW l \in 1 .. NumPages, NEW s \in Ashmem,
             MmapPrivate(s, p, l, fixed)
      PROVE  Inv'
  BY <1>7, MmapPrivateInv
<1>8. ASSUME NEW fixed \in BOOLEAN, NEW p \in Page, NEW l \in 1 .. NumPages, NEW s \in Ashmem,
             MmapShared(s, p, l, fixed)
      PROVE  Inv'
  BY <1>8, MmapSharedInv
<1>9. ASSUME NEW fixed \in BOOLEAN, NEW p \in Page, NEW l \in 1 .. NumPages, NEW s \in File,
             MmapFile(s, p, l, fixed)
      PROVE  Inv'
  BY <1>9, MmapFileInv
<1>10. ASSUME NEW p \in Page, NEW l \in 1 .. NumPages, Munmap(p, l) PROVE Inv'
  BY <1>10, MunmapInv
<1>11. ASSUME NEW p \in Page, NEW l \in 1 .. NumPages, MunmapFallback(p, l) PROVE Inv'
  BY <1>11, MunmapFallbackInv
<1>12. Next => Inv'
  BY <1>2, <1>3, <1>4, <1>5, <1>6, <1>7, <1>8, <1>9, <1>10, <1>11, Zenon DEF Next
<1> QED BY <1>1, <1>12

LEMMA InvHolds == ~ReusesUnmapped => (Spec => []Inv)
<1> SUFFICES ASSUME ~ReusesUnmapped PROVE Spec => []Inv
  OBVIOUS
<1>1. Inv /\ [Next]_vars => Inv'
  BY NextInv
<1> QED BY InitInv, <1>1, PTL DEF Spec

\* When callers do not use memory again that they have unmapped: through
\* every mapping, overwriting, split and failure, the loops of memory_region.cc
\* can walk map_, and it names the owner of every page but those an ashmem stream
\* keeps after its last munmap.
THEOREM MapStaysSound == ~ReusesUnmapped => (Spec => []MapSound)
<1>1. Inv => MapSound
  <2> SUFFICES ASSUME Inv PROVE MapSound
    OBVIOUS
  <2>1. TypeOK
    BY DEF Inv
  <2>2. WellFormed
    BY InvFacts, WalkFacts
  <2>3. Owned(Regions(map_), os) /\ Kept(Regions(map_), os, dev)
    BY InvFacts DEF Sound
  <2>4. MapMatchesPages
    BY <2>3 DEF MapMatchesPages, Owned, Kept, DelayedPages
  <2> QED BY <2>1, <2>2, <2>4 DEF MapSound
<1> QED BY InvHolds, <1>1, PTL

\* Under the same assumption, every page DevAshmem::pread copies from is still the
\* shared memory of its own stream, or lies past the end of a mapping that is
\* shorter than size_.  (There pread copies whatever follows the mapping.)
THEOREM ReadsStayOwn == ~ReusesUnmapped => (Spec => []ReadsOwnPages)
<1>1. Inv => ReadsOwnPages
  <2> SUFFICES ASSUME Inv, NEW s \in opened, dev[s].state \in {"MAPPED", "UNMAP_DELAYED"},
                      NEW p \in Content(dev[s])
               PROVE  os[p] = [by |-> s, kind |-> "shared"]
    BY DEF ReadsOwnPages, Copied
  <2>1. s \in Ashmem
    BY InvFacts DEF Typed
  <2>2. dev[s].content # NoContent
    BY DEF Content
  <2>3. Delayed(Regions(map_), os, dev, count) /\ MappedOnce(Regions(map_), os, dev, count)
    BY InvFacts DEF Sound
  <2>4. Intact(s, os, dev)
    BY <2>1, <2>2, <2>3 DEF Delayed, MappedOnce
  <2> QED BY <2>4 DEF Intact
<1> QED BY InvHolds, <1>1, PTL

\* Under the same assumption, while shared memory is mapped as a whole, its region
\* has exactly as many references as mmap and munmap calls have left.
THEOREM ReferencesExact == ~ReusesUnmapped => (Spec => []RefCountExact)
<1>1. Inv => RefCountExact
  <2> SUFFICES ASSUME Inv, NEW s \in Ashmem, count[s] > 0, dev[s].state = "MAPPED"
               PROVE  \E r \in Regions(map_) :
                        PagesOf(r) = Content(dev[s]) /\ r.stream = s /\ r.ref = count[s]
    BY DEF RefCountExact
  <2>1. Placed(opened, dev, count) /\ MappedOnce(Regions(map_), os, dev, count)
    BY InvFacts DEF Sound
  <2>2. dev[s].content # NoContent
    BY <2>1 DEF Placed
  <2>3. PICK r \in Regions(map_) : Covers(r, s, dev) /\ r.ref = count[s]
    BY <2>1, <2>2 DEF MappedOnce
  <2>4. PagesOf(r) = Content(dev[s]) /\ r.stream = s
    BY <2>3, CoversPages
  <2> QED BY <2>3, <2>4
<1> QED BY InvHolds, <1>1, PTL

\* Under the same assumption, no assertion of mmap or munmap fails but those
\* against unsupported calls and that of a second mmap after ::mmap failed: every
\* new region finds its place in map_.
THEOREM AssertionsHold == ~ReusesUnmapped => (Spec => []NoAssertFails)
<1>1. Inv => NoAssertFails
  BY DEF Inv
<1> QED BY InvHolds, <1>1, PTL
=============================================================================
