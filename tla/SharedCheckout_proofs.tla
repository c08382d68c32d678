------------------------ MODULE SharedCheckout_proofs ------------------------
(***************************************************************************)
(* Theorems about the git checkouts of developer agents, for every set of  *)
(* work orders: what holds of every project, what a checkout of its own    *)
(* gives a work order, and what is left of that where work orders share    *)
(* one and take turns.                                                     *)
(***************************************************************************)
EXTENDS SharedCheckout, TLAPS

Repos == [head : Branches, tree : Trees, index : Trees,
          tips : [Branches -> Trees \cup {NoTree}]]

Rows == [at : Stations, phase : Phases, feedback : BOOLEAN,
         baseline : Trees \cup {NoTree}, targetKnown : BOOLEAN,
         base : Trees, guard : {"open", "blocked", "halted"},
         reviewed : Trees, flagged : BOOLEAN, pushed : Trees \cup {NoTree}]

-----------------------------------------------------------------------------
(* What the git commands do to a checkout. *)

\* A checkout as git leaves it: it is on a branch that exists, and the branches of
\* the team are what the team made them.
Sound(r) ==
    /\ r \in Repos
    /\ Tip(r) \in Trees
    /\ r.tips["main"] = MainTree
    /\ r.tips["staging"] \in {NoTree, StagingTree}

\* The content a work order may have: its own and the team's.
OnlyOf(w, t) == t # NoTree => \A p \in Paths : t[p] \cap WorkOrders \subseteq {w}

OwnRepo(w, r) ==
    /\ OnlyOf(w, r.tree) /\ OnlyOf(w, r.index)
    /\ \A b \in Branches : OnlyOf(w, r.tips[b])

\* Nothing is changed that is not committed.
Clean(r) == r.tree = r.index /\ r.index = Tip(r)

\* The work order branches have names of their own, and trees are not what stands for none.
LEMMA Names ==
    /\ "main" \in Branches /\ "staging" \in Branches /\ WorkOrders \subseteq Branches
    /\ "main" \notin WorkOrders /\ "staging" \notin WorkOrders /\ "main" # "staging"
    /\ NoTree \notin Trees
    /\ WorkOrders \subseteq Authors
<1>1. NoTree \notin Trees
  <2>1. "planned" \in Paths /\ "planned" \notin {}
    BY DEF Paths, Tracked
  <2>2. DOMAIN NoTree = {} /\ \A t \in Trees : DOMAIN t = Paths
    BY DEF NoTree, Trees
  <2> QED
    BY <2>1, <2>2
<1> QED
  BY <1>1, NamesAssumption DEF Branches, Authors

\* The team's branches have nothing of a work order.
LEMMA TeamTrees ==
    /\ Pristine \in Trees /\ MainTree \in Trees /\ StagingTree \in Trees
    /\ \A p \in Paths : /\ Pristine[p] = {}
                        /\ MainTree[p] \cap WorkOrders = {}
                        /\ StagingTree[p] \cap WorkOrders = {}
    /\ "drift" \notin Environment => MainTree = Pristine /\ StagingTree = Pristine
<1>1. Pristine \in Trees /\ \A p \in Paths : Pristine[p] = {}
  BY DEF Pristine, Trees
<1>2. ASSUME NEW who \in {"team", "hotfix"}
      PROVE  /\ [Pristine EXCEPT !["planned"] = {who}] \in Trees
             /\ \A p \in Paths : [Pristine EXCEPT !["planned"] = {who}][p] \in {{}, {who}}
  BY <1>1 DEF Pristine, Trees, Authors
<1>3. /\ MainTree \in Trees /\ StagingTree \in Trees
      /\ \A p \in Paths : MainTree[p] \in {{}, {"hotfix"}} /\ StagingTree[p] \in {{}, {"team"}}
  <2>1. CASE "drift" \in Environment
    BY <1>2, <2>1 DEF MainTree, StagingTree
  <2>2. CASE "drift" \notin Environment
    BY <1>1, <2>2 DEF MainTree, StagingTree
  <2> QED
    BY <2>1, <2>2
<1>4. "hotfix" \notin WorkOrders /\ "team" \notin WorkOrders
  BY NamesAssumption
<1>5. "drift" \notin Environment => MainTree = Pristine /\ StagingTree = Pristine
  BY DEF MainTree, StagingTree
<1> QED
  BY <1>1, <1>3, <1>4, <1>5

\* Checking out a branch changes what is not carried along.
LEMMA CheckoutEffect ==
    ASSUME NEW r \in Repos, NEW b \in Branches, NEW t \in Trees
    PROVE  /\ Checkout(r, b, t) \in Repos
           /\ Checkout(r, b, t).head = b
           /\ Tip(Checkout(r, b, t)) = t
           /\ \A x \in Branches : Checkout(r, b, t).tips[x] = IF x = b THEN t ELSE r.tips[x]
           /\ \A p \in Paths :
                 /\ Checkout(r, b, t).tree[p] = IF Carried(r, p, t) THEN r.tree[p] ELSE t[p]
                 /\ Checkout(r, b, t).index[p] = IF Carried(r, p, t) THEN r.index[p] ELSE t[p]
<1> DEFINE tree  == [p \in Paths |-> IF Carried(r, p, t) THEN r.tree[p] ELSE t[p]]
           index == [p \in Paths |-> IF Carried(r, p, t) THEN r.index[p] ELSE t[p]]
           tips  == [r.tips EXCEPT ![b] = t]
<1>1. r.tree \in Trees /\ r.index \in Trees /\ r.tips \in [Branches -> Trees \cup {NoTree}]
  BY DEF Repos
<1>2. tree \in Trees /\ index \in Trees
  BY <1>1 DEF Trees
<1>3. tips \in [Branches -> Trees \cup {NoTree}] /\ tips[b] = t
      /\ \A x \in Branches : tips[x] = IF x = b THEN t ELSE r.tips[x]
  BY <1>1
<1>4. \A p \in Paths : /\ tree[p] = IF Carried(r, p, t) THEN r.tree[p] ELSE t[p]
                       /\ index[p] = IF Carried(r, p, t) THEN r.index[p] ELSE t[p]
  OBVIOUS
<1>5. Checkout(r, b, t) = [head |-> b, tree |-> tree, index |-> index, tips |-> tips]
  BY DEF Checkout
<1> HIDE DEF tree, index, tips
<1> QED
  BY <1>2, <1>3, <1>4, <1>5 DEF Repos, Tip

\* A checkout keeps a sound repository sound if the branch has that tree.
LEMMA CheckoutSound ==
    ASSUME NEW r, Sound(r), NEW b \in Branches, NEW t \in Trees,
           b = "main" => t = MainTree, b = "staging" => t = StagingTree
    PROVE  /\ Sound(Checkout(r, b, t))
           /\ Checkout(r, b, t).head = b
           /\ \A w \in WorkOrders : OwnRepo(w, r) /\ OnlyOf(w, t) => OwnRepo(w, Checkout(r, b, t))
<1> DEFINE c == Checkout(r, b, t)
<1>1. r \in Repos
  BY DEF Sound
<1>2. /\ c \in Repos /\ c.head = b /\ Tip(c) = t
      /\ \A x \in Branches : c.tips[x] = IF x = b THEN t ELSE r.tips[x]
      /\ \A p \in Paths : /\ c.tree[p] \in {r.tree[p], t[p]}
                          /\ c.index[p] \in {r.index[p], t[p]}
  BY <1>1, CheckoutEffect
<1> HIDE DEF c
<1>3. Sound(c)
  BY <1>2, Names DEF Sound
<1>4. ASSUME NEW w \in WorkOrders, OwnRepo(w, r), OnlyOf(w, t)
      PROVE  OwnRepo(w, c)
  <2>1. r.tree # NoTree /\ r.index # NoTree /\ t # NoTree
    BY <1>1, Names DEF Repos
  <2>2. \A p \in Paths : /\ r.tree[p] \cap WorkOrders \subseteq {w}
                         /\ r.index[p] \cap WorkOrders \subseteq {w}
                         /\ t[p] \cap WorkOrders \subseteq {w}
    BY <1>4, <2>1 DEF OwnRepo, OnlyOf
  <2>3. OnlyOf(w, c.tree) /\ OnlyOf(w, c.index)
    BY <1>2, <2>2 DEF OnlyOf
  <2>4. \A x \in Branches : OnlyOf(w, c.tips[x])
    BY <1>2, <1>4 DEF OwnRepo
  <2> QED
    BY <2>3, <2>4 DEF OwnRepo
<1> QED
  BY <1>2, <1>3, <1>4 DEF c

\* Between branches with one tree nothing is lost.
LEMMA CheckoutOfSame ==
    ASSUME NEW r \in Repos, NEW b \in Branches, NEW t \in Trees, Tip(r) = t
    PROVE  /\ MayCheckout(r, t)
           /\ Checkout(r, b, t).tree = r.tree
           /\ Checkout(r, b, t).index = r.index
<1> DEFINE c == Checkout(r, b, t)
<1>1. \A p \in Paths : Carried(r, p, t)
  BY DEF Carried
<1>2. c \in Repos /\ \A p \in Paths : c.tree[p] = r.tree[p] /\ c.index[p] = r.index[p]
  BY <1>1, CheckoutEffect
<1> HIDE DEF c
<1>3. c.tree = r.tree /\ c.index = r.index
  BY <1>2 DEF Repos, Trees
<1> QED
  BY <1>1, <1>3 DEF MayCheckout, c

\* A clean checkout follows every branch.
LEMMA CheckoutOfClean ==
    ASSUME NEW r \in Repos, NEW b \in Branches, NEW t \in Trees, Clean(r)
    PROVE  /\ MayCheckout(r, t)
           /\ Clean(Checkout(r, b, t))
<1> DEFINE c == Checkout(r, b, t)
<1>1. c \in Repos /\ Tip(c) = t
      /\ \A p \in Paths : /\ c.tree[p] = IF Carried(r, p, t) THEN r.tree[p] ELSE t[p]
                          /\ c.index[p] = IF Carried(r, p, t) THEN r.index[p] ELSE t[p]
  BY CheckoutEffect
<1>2. \A p \in Paths : Carried(r, p, t) => r.tree[p] = t[p] /\ r.index[p] = t[p]
  BY DEF Carried, Clean
<1> HIDE DEF c
<1>3. \A p \in Paths : c.tree[p] = t[p] /\ c.index[p] = t[p]
  BY <1>1, <1>2
<1>4. Clean(c)
  BY <1>1, <1>3 DEF Clean, Repos, Trees
<1> QED
  BY <1>4 DEF MayCheckout, Clean, c

\* Looking for the merge target may move the checkout to it.
LEMMA ResolveEffect ==
    ASSUME NEW r, Sound(r)
    PROVE  /\ Sound(ResolveTarget(r))
           /\ ResolveTarget(r).head \in {r.head, "staging"}
           /\ \A x \in Branches \ {"staging"} : ResolveTarget(r).tips[x] = r.tips[x]
           /\ \A w \in WorkOrders : OwnRepo(w, r) => OwnRepo(w, ResolveTarget(r))
           /\ ~TargetIsRemote(ResolveTarget(r))
           /\ ~TargetIsRemote(r) => ResolveTarget(r) = r
<1>1. CASE TargetIsRemote(r)
  <2> DEFINE m == Checkout(r, "staging", StagingTree)
  <2>1. ResolveTarget(r) = m
    BY <1>1 DEF ResolveTarget
  <2>2. Sound(m) /\ m.head = "staging"
        /\ \A w \in WorkOrders : OwnRepo(w, r) => OwnRepo(w, m)
    BY CheckoutSound, Names, TeamTrees DEF OnlyOf
  <2>3. \A x \in Branches : m.tips[x] = IF x = "staging" THEN StagingTree ELSE r.tips[x]
    BY CheckoutEffect, Names, TeamTrees DEF Sound
  <2> HIDE DEF m
  <2>4. m.tips["staging"] # NoTree
    BY <2>3, Names, TeamTrees
  <2> QED
    BY <1>1, <2>1, <2>2, <2>3, <2>4 DEF TargetIsRemote
<1>2. CASE ~TargetIsRemote(r)
  BY <1>2 DEF ResolveTarget
<1> QED
  BY <1>1, <1>2

\* ... which loses nothing where the target has the tree of the current branch, nor
\* where nothing is changed.
LEMMA ResolveKeeps ==
    ASSUME NEW r, Sound(r)
    PROVE  /\ Tip(r) = StagingTree =>
                 /\ ~TargetRefused(r)
                 /\ ResolveTarget(r).tree = r.tree /\ ResolveTarget(r).index = r.index
                 /\ Tip(ResolveTarget(r)) = StagingTree
           /\ Clean(r) => ~TargetRefused(r) /\ Clean(ResolveTarget(r))
<1> DEFINE m == Checkout(r, "staging", StagingTree)
<1>1. r \in Repos /\ "staging" \in Branches /\ StagingTree \in Trees
  BY Names, TeamTrees DEF Sound
<1>2. Tip(m) = StagingTree
  BY <1>1, CheckoutEffect
<1>3. Tip(r) = StagingTree =>
          MayCheckout(r, StagingTree) /\ m.tree = r.tree /\ m.index = r.index
  BY <1>1, CheckoutOfSame
<1>4. Clean(r) => MayCheckout(r, StagingTree) /\ Clean(m)
  BY <1>1, CheckoutOfClean
<1>5. ResolveTarget(r) = m \/ ResolveTarget(r) = r
  BY DEF ResolveTarget
<1> HIDE DEF m
<1> QED
  BY <1>2, <1>3, <1>4, <1>5 DEF TargetRefused

\* A delivery branch starts from the integration branch.
LEMMA EnsureEffect ==
    ASSUME NEW r, Sound(r), NEW w \in WorkOrders
    PROVE  /\ Sound(EnsureDeliveryBranch(r, w))
           /\ EnsureDeliveryBranch(r, w).head = w
           /\ Tip(EnsureDeliveryBranch(r, w)) = MainTree
           /\ \A x \in Branches \ {"staging", w} : EnsureDeliveryBranch(r, w).tips[x] = r.tips[x]
           /\ EnsureDeliveryBranch(r, w).tips[w] = MainTree
           /\ \A u \in WorkOrders : OwnRepo(u, r) => OwnRepo(u, EnsureDeliveryBranch(r, w))
           /\ ~TargetIsRemote(EnsureDeliveryBranch(r, w))
<1> DEFINE n == ResolveTarget(r)
           m == Checkout(n, "main", MainTree)
           d == [m EXCEPT !.head = w, !.tips = [m.tips EXCEPT ![w] = Tip(m)]]
<1>1. EnsureDeliveryBranch(r, w) = d
  BY Names DEF EnsureDeliveryBranch, Sound
<1>2. /\ Sound(n) /\ ~TargetIsRemote(n)
      /\ \A x \in Branches \ {"staging"} : n.tips[x] = r.tips[x]
      /\ \A u \in WorkOrders : OwnRepo(u, r) => OwnRepo(u, n)
  BY ResolveEffect
<1> HIDE DEF n
<1>3. /\ Sound(m) /\ m.head = "main" /\ Tip(m) = MainTree
      /\ \A x \in Branches : m.tips[x] = IF x = "main" THEN MainTree ELSE n.tips[x]
      /\ \A u \in WorkOrders : OwnRepo(u, n) => OwnRepo(u, m)
  <2>1. n \in Repos
    BY <1>2 DEF Sound
  <2>2. \A x \in Branches : m.tips[x] = IF x = "main" THEN MainTree ELSE n.tips[x]
    BY <2>1, CheckoutEffect, Names, TeamTrees
  <2>3. Tip(m) = MainTree
    BY <2>1, CheckoutEffect, Names, TeamTrees
  <2>4. /\ Sound(m) /\ m.head = "main"
        /\ \A u \in WorkOrders : OwnRepo(u, n) => OwnRepo(u, m)
    BY <1>2, CheckoutSound, Names, TeamTrees DEF OnlyOf
  <2> QED
    BY <2>2, <2>3, <2>4
<1> HIDE DEF m
<1>4. m \in Repos
  BY <1>3 DEF Sound
<1>5. /\ d \in Repos /\ d.head = w /\ d.tree = m.tree /\ d.index = m.index
      /\ \A x \in Branches : d.tips[x] = IF x = w THEN MainTree ELSE m.tips[x]
  BY <1>3, <1>4, Names, TeamTrees DEF Repos
<1> HIDE DEF d
<1>6. Sound(d) /\ Tip(d) = MainTree
  BY <1>3, <1>5, Names, TeamTrees DEF Sound, Tip
<1>7. \A u \in WorkOrders : OwnRepo(u, m) => OwnRepo(u, d)
  BY <1>5, TeamTrees DEF OwnRepo, OnlyOf
<1>8. ~TargetIsRemote(d)
  BY <1>2, <1>3, <1>5, Names DEF TargetIsRemote
<1> QED
  <2>1. \A x \in Branches \ {"staging", w} : d.tips[x] = r.tips[x]
    BY <1>2, <1>3, <1>5, Names DEF Sound
  <2>2. d.tips[w] = MainTree
    BY <1>5, Names
  <2>3. \A u \in WorkOrders : OwnRepo(u, r) => OwnRepo(u, d)
    BY <1>2, <1>3, <1>7
  <2> QED
    BY <1>1, <1>5, <1>6, <1>8, <2>1, <2>2, <2>3

\* ... and takes along what was changed on a branch with the same tree, or nothing.
LEMMA EnsureKeeps ==
    ASSUME NEW r, Sound(r), NEW w \in WorkOrders
    PROVE  /\ Tip(r) = MainTree /\ MainTree = StagingTree =>
                 /\ ~EnsureRefused(r)
                 /\ EnsureDeliveryBranch(r, w).tree = r.tree
                 /\ EnsureDeliveryBranch(r, w).index = r.index
           /\ Clean(r) => ~EnsureRefused(r) /\ Clean(EnsureDeliveryBranch(r, w))
<1> DEFINE n == ResolveTarget(r)
           m == Checkout(n, "main", MainTree)
           d == [m EXCEPT !.head = w, !.tips = [m.tips EXCEPT ![w] = Tip(m)]]
<1>1. EnsureDeliveryBranch(r, w) = d /\ r.tips["main"] = MainTree
  BY Names DEF EnsureDeliveryBranch, Sound
<1>2. /\ n \in Repos
      /\ Tip(r) = StagingTree => /\ ~TargetRefused(r) /\ n.tree = r.tree /\ n.index = r.index
                                 /\ Tip(n) = StagingTree
      /\ Clean(r) => ~TargetRefused(r) /\ Clean(n)
  BY ResolveEffect, ResolveKeeps DEF Sound
<1> HIDE DEF n
<1>3. /\ m \in Repos /\ Tip(m) = MainTree
      /\ Tip(n) = MainTree => /\ MayCheckout(n, MainTree)
                              /\ m.tree = n.tree /\ m.index = n.index
      /\ Clean(n) => MayCheckout(n, MainTree) /\ Clean(m)
  <2>1. m \in Repos /\ Tip(m) = MainTree
    BY <1>2, CheckoutEffect, Names, TeamTrees
  <2>2. ASSUME Tip(n) = MainTree
        PROVE  MayCheckout(n, MainTree) /\ m.tree = n.tree /\ m.index = n.index
    BY <1>2, <2>2, CheckoutOfSame, Names, TeamTrees
  <2>3. ASSUME Clean(n) PROVE MayCheckout(n, MainTree) /\ Clean(m)
    BY <1>2, <2>3, CheckoutOfClean, Names, TeamTrees
  <2> QED
    BY <2>1, <2>2, <2>3
<1> HIDE DEF m
<1>4. d.tree = m.tree /\ d.index = m.index /\ Tip(d) = MainTree
  BY <1>3, Names DEF Repos, Tip
<1> HIDE DEF d
<1> QED
  BY <1>1, <1>2, <1>3, <1>4 DEF EnsureRefused, Clean, n

\* The merge check comes back to the branch it found, or stays on the target.
LEMMA ThereAndBackEffect ==
    ASSUME NEW r, Sound(r)
    PROVE  /\ Sound(ThereAndBack(r))
           /\ ThereAndBack(r).head \in {r.head, "staging"}
           /\ \A x \in Branches : ThereAndBack(r).tips[x] = r.tips[x]
           /\ \A w \in WorkOrders : OwnRepo(w, r) => OwnRepo(w, ThereAndBack(r))
           /\ Tip(r) = StagingTree =>
                 /\ ThereAndBack(r).tree = r.tree /\ ThereAndBack(r).index = r.index
                 /\ ThereAndBack(r).head = r.head
<1> DEFINE s == Checkout(r, "staging", StagingTree)
           b == Checkout(s, r.head, Tip(r))
<1>1. CASE r.tips["staging"] = NoTree \/ ~MayCheckout(r, r.tips["staging"])
  <2>1. ThereAndBack(r) = r
    BY <1>1 DEF ThereAndBack
  <2> QED
    BY <2>1
<1>2. CASE r.tips["staging"] # NoTree /\ MayCheckout(r, r.tips["staging"])
  <2>1. /\ r \in Repos /\ r.tips["staging"] = StagingTree /\ r.head \in Branches
        /\ Tip(r) \in Trees
    BY <1>2 DEF Sound, Repos
  <2>2. ThereAndBack(r) = IF MayCheckout(s, Tip(r)) THEN b ELSE s
    BY <1>2, <2>1 DEF ThereAndBack
  <2>3. /\ Sound(s) /\ s.head = "staging"
        /\ \A w \in WorkOrders : OwnRepo(w, r) => OwnRepo(w, s)
    BY CheckoutSound, Names, TeamTrees DEF OnlyOf
  <2>4. Tip(s) = StagingTree /\ \A x \in Branches : s.tips[x] = r.tips[x]
    <3>1. /\ Tip(s) = StagingTree
          /\ \A x \in Branches : s.tips[x] = IF x = "staging" THEN StagingTree ELSE r.tips[x]
      BY <2>1, CheckoutEffect, Names, TeamTrees
    <3> QED
      BY <2>1, <3>1
  <2>5. Tip(r) = StagingTree => s.tree = r.tree /\ s.index = r.index
    BY <2>1, CheckoutOfSame, Names, TeamTrees
  <2> HIDE DEF s
  <2>6. r.head = "main" => Tip(r) = MainTree
    BY DEF Sound, Tip
  <2>7. r.head = "staging" => Tip(r) = StagingTree
    BY <2>1 DEF Tip
  <2>8. /\ Sound(b) /\ b.head = r.head
        /\ \A w \in WorkOrders : OwnRepo(w, s) /\ OnlyOf(w, Tip(r)) => OwnRepo(w, b)
    BY <2>1, <2>3, <2>6, <2>7, CheckoutSound
  <2>9. \A x \in Branches : b.tips[x] = r.tips[x]
    <3>1. s \in Repos
      BY <2>3 DEF Sound
    <3> QED
      BY <2>1, <2>4, <3>1, CheckoutEffect DEF Tip
  <2>10. Tip(r) = StagingTree => MayCheckout(s, Tip(r)) /\ b.tree = s.tree /\ b.index = s.index
    <3>1. s \in Repos
      BY <2>3 DEF Sound
    <3> QED
      BY <2>1, <2>4, <3>1, CheckoutOfSame
  <2> HIDE DEF b
  <2>11. \A w \in WorkOrders : OwnRepo(w, r) => OwnRepo(w, s) /\ OwnRepo(w, b)
    BY <2>1, <2>3, <2>8 DEF OwnRepo, Tip
  <2> QED
    BY <2>2, <2>3, <2>4, <2>5, <2>8, <2>9, <2>10, <2>11
<1> QED
  BY <1>1, <1>2

\* ... and, looking for a target that was not there before, it may end up on that.
LEMMA MergeCheckEffect ==
    ASSUME NEW r, Sound(r)
    PROVE  /\ Sound(AfterMergeCheck(r))
           /\ AfterMergeCheck(r).head \in {r.head, "staging"}
           /\ \A x \in Branches \ {"staging"} : AfterMergeCheck(r).tips[x] = r.tips[x]
           /\ \A w \in WorkOrders : OwnRepo(w, r) => OwnRepo(w, AfterMergeCheck(r))
           /\ Tip(r) = StagingTree =>
                 AfterMergeCheck(r).tree = r.tree /\ AfterMergeCheck(r).index = r.index
           /\ ~TargetIsRemote(r) =>
                 \A x \in Branches : AfterMergeCheck(r).tips[x] = r.tips[x]
           /\ ~TargetIsRemote(r) /\ Tip(r) = StagingTree => AfterMergeCheck(r).head = r.head
<1> DEFINE n == ResolveTarget(r)
           a == ThereAndBack(n)
<1>1. /\ Sound(n) /\ n.head \in {r.head, "staging"}
      /\ \A x \in Branches \ {"staging"} : n.tips[x] = r.tips[x]
      /\ \A w \in WorkOrders : OwnRepo(w, r) => OwnRepo(w, n)
      /\ ~TargetIsRemote(r) => n = r
  BY ResolveEffect
<1>2. Tip(r) = StagingTree => n.tree = r.tree /\ n.index = r.index /\ Tip(n) = StagingTree
  BY ResolveKeeps
<1> HIDE DEF n
<1>3. /\ Sound(a) /\ a.head \in {n.head, "staging"}
      /\ \A x \in Branches : a.tips[x] = n.tips[x]
      /\ \A w \in WorkOrders : OwnRepo(w, n) => OwnRepo(w, a)
      /\ Tip(n) = StagingTree => a.tree = n.tree /\ a.index = n.index /\ a.head = n.head
  BY <1>1, ThereAndBackEffect
<1> HIDE DEF a
<1>4. AfterMergeCheck(r) = r \/ AfterMergeCheck(r) = a
  BY DEF AfterMergeCheck, a, n
<1>5. CASE AfterMergeCheck(r) = r
  BY <1>5
<1>6. CASE AfterMergeCheck(r) = a
  BY <1>1, <1>2, <1>3, <1>6
<1> QED
  BY <1>4, <1>5, <1>6

\* What is merged into a target with the same tree does not conflict.
LEMMA NoConflict ==
    ASSUME NEW r, Sound(r), Tip(r) = Pristine, StagingTree = Pristine
    PROVE  ~Conflicts(ResolveTarget(r))
<1>1. Tip(ResolveTarget(r)) = Pristine
  BY ResolveKeeps
<1> QED
  BY <1>1, TeamTrees DEF Conflicts, Merges

\* What a change of the tree and of the index leaves.
LEMMA Edited ==
    ASSUME NEW r, Sound(r), NEW e \in Repos, e.head = r.head, e.tips = r.tips
    PROVE  /\ Sound(e) /\ Tip(e) = Tip(r)
           /\ TargetIsRemote(e) = TargetIsRemote(r)
           /\ \A w \in WorkOrders :
                 OwnRepo(w, r) /\ OnlyOf(w, e.tree) /\ OnlyOf(w, e.index) => OwnRepo(w, e)
<1>1. Tip(e) = Tip(r)
  BY DEF Tip
<1> QED
  BY <1>1 DEF Sound, TargetIsRemote, OwnRepo

\* An author's change of a file.
LEMMA ChangeEffect ==
    ASSUME NEW r \in Repos, NEW w \in WorkOrders, NEW p \in Paths
    PROVE  /\ Change(r, w, p) \in Repos
           /\ Change(r, w, p).head = r.head /\ Change(r, w, p).tips = r.tips
           /\ Change(r, w, p).index = r.index
           /\ \A x \in Paths :
                 Change(r, w, p).tree[x] = IF x = p THEN r.tree[x] \cup {w} ELSE r.tree[x]
           /\ OnlyOf(w, r.tree) => OnlyOf(w, Change(r, w, p).tree)
<1> DEFINE t == [r.tree EXCEPT ![p] = r.tree[p] \cup {w}]
           e == [r EXCEPT !.tree = t]
<1>1. Change(r, w, p) = e
  BY DEF Change
<1>2. r.tree \in Trees
  BY DEF Repos
<1>3. t \in Trees /\ \A x \in Paths : t[x] = IF x = p THEN r.tree[x] \cup {w} ELSE r.tree[x]
  BY <1>2, Names DEF Trees
<1> HIDE DEF t
<1>4. e \in Repos /\ e.head = r.head /\ e.tips = r.tips /\ e.index = r.index /\ e.tree = t
  BY <1>3 DEF Repos
<1> HIDE DEF e
<1>5. OnlyOf(w, r.tree) => OnlyOf(w, t)
  BY <1>2, <1>3, Names DEF OnlyOf
<1> QED
  BY <1>1, <1>3, <1>4, <1>5

\* A rollback leaves the baseline's files, and new ones that were staged.
LEMMA RollbackEffect ==
    ASSUME NEW r \in Repos, NEW base \in Trees
    PROVE  /\ RollbackToClean(r, base) \in Repos
           /\ RollbackToClean(r, base).head = r.head /\ RollbackToClean(r, base).tips = r.tips
           /\ \A w \in WorkOrders :
                 OnlyOf(w, r.tree) /\ OnlyOf(w, r.index) /\ OnlyOf(w, base) =>
                     OnlyOf(w, RollbackToClean(r, base).tree) /\ OnlyOf(w, RollbackToClean(r, base).index)
<1> DEFINE i == [p \in Paths |-> IF InTree(base, p) THEN base[p] ELSE r.index[p]]
           t == [p \in Paths |-> IF InTree(base, p) THEN base[p]
                                 ELSE IF r.index[p] # {} THEN r.tree[p] ELSE {}]
           e == [r EXCEPT !.index = i, !.tree = t]
<1>1. RollbackToClean(r, base) = e
  BY DEF RollbackToClean
<1>2. r.tree \in Trees /\ r.index \in Trees
  BY DEF Repos
<1>3. /\ i \in Trees /\ t \in Trees
      /\ \A p \in Paths : i[p] \in {base[p], r.index[p]} /\ t[p] \in {base[p], r.tree[p], {}}
  BY <1>2 DEF Trees
<1> HIDE DEF i, t
<1>4. e \in Repos /\ e.head = r.head /\ e.tips = r.tips /\ e.index = i /\ e.tree = t
  BY <1>3 DEF Repos
<1> HIDE DEF e
<1>5. ASSUME NEW w \in WorkOrders, OnlyOf(w, r.tree), OnlyOf(w, r.index), OnlyOf(w, base)
      PROVE  OnlyOf(w, t) /\ OnlyOf(w, i)
  <2>1. \A p \in Paths : /\ r.tree[p] \cap WorkOrders \subseteq {w}
                         /\ r.index[p] \cap WorkOrders \subseteq {w}
                         /\ base[p] \cap WorkOrders \subseteq {w}
    BY <1>2, <1>5, Names DEF OnlyOf
  <2> QED
    BY <1>3, <2>1 DEF OnlyOf
<1> QED
  BY <1>1, <1>4, <1>5

\* Staging everything makes the index the tree.
LEMMA CollectEffect ==
    ASSUME NEW r \in Repos
    PROVE  /\ Collect(r) \in Repos
           /\ Collect(r).head = r.head /\ Collect(r).tips = r.tips /\ Collect(r).tree = r.tree
           /\ Collect(r).index = r.tree /\ Collected(r) = r.tree
  BY DEF Collect, Collected, StageAll, Repos

\* A commit moves the current branch to the tree.
LEMMA CommitEffect ==
    ASSUME NEW r, Sound(r), r.head \notin {"main", "staging"}
    PROVE  /\ Sound(CommitAll(r)) /\ CommitAll(r).head = r.head
           /\ CommitAll(r).tree = r.tree /\ CommitAll(r).index = r.tree
           /\ \A x \in Branches : CommitAll(r).tips[x] = IF x = r.head THEN r.tree ELSE r.tips[x]
           /\ \A w \in WorkOrders : OwnRepo(w, r) => OwnRepo(w, CommitAll(r))
<1> DEFINE tips == [r.tips EXCEPT ![r.head] = r.tree]
           e == [r EXCEPT !.index = r.tree, !.tips = tips]
<1>1. CommitAll(r) = e
  BY DEF CommitAll
<1>2. r \in Repos /\ r.head \in Branches /\ r.tree \in Trees
      /\ r.tips \in [Branches -> Trees \cup {NoTree}]
  BY DEF Sound, Repos
<1>3. tips \in [Branches -> Trees \cup {NoTree}]
      /\ \A x \in Branches : tips[x] = IF x = r.head THEN r.tree ELSE r.tips[x]
  BY <1>2
<1> HIDE DEF tips
<1>4. e \in Repos /\ e.head = r.head /\ e.tips = tips /\ e.index = r.tree /\ e.tree = r.tree
  BY <1>2, <1>3 DEF Repos
<1> HIDE DEF e
<1>5. Sound(e)
  BY <1>2, <1>3, <1>4, Names DEF Sound, Tip
<1>6. ASSUME NEW w \in WorkOrders, OwnRepo(w, r) PROVE OwnRepo(w, e)
  BY <1>3, <1>4, <1>6 DEF OwnRepo
<1> QED
  BY <1>1, <1>3, <1>4, <1>5, <1>6

\* A reset loses what was not committed.
LEMMA ResetEffect ==
    ASSUME NEW r, Sound(r)
    PROVE  /\ Sound(ResetHard(r))
           /\ ResetHard(r).head = r.head /\ ResetHard(r).tips = r.tips
           /\ \A w \in WorkOrders : OwnRepo(w, r) => OwnRepo(w, ResetHard(r))
           /\ Clean(r) => Clean(ResetHard(r))
<1> DEFINE t == [p \in Paths |-> IF InTree(Tip(r), p) \/ r.index[p] # {}
                                 THEN Tip(r)[p] ELSE r.tree[p]]
           e == [r EXCEPT !.index = Tip(r), !.tree = t]
<1>1. ResetHard(r) = e
  BY DEF ResetHard
<1>2. r \in Repos /\ Tip(r) \in Trees /\ r.tree \in Trees /\ r.head \in Branches
  BY DEF Sound, Repos
<1>3. t \in Trees /\ \A p \in Paths : t[p] \in {Tip(r)[p], r.tree[p]}
  BY <1>2 DEF Trees
<1> HIDE DEF t
<1>4. e \in Repos /\ e.head = r.head /\ e.tips = r.tips /\ e.index = Tip(r) /\ e.tree = t
  BY <1>2, <1>3 DEF Repos
<1> HIDE DEF e
<1>5. ASSUME NEW w \in WorkOrders, OwnRepo(w, r) PROVE OnlyOf(w, e.tree) /\ OnlyOf(w, e.index)
  <2>1. OnlyOf(w, Tip(r)) /\ OnlyOf(w, r.tree)
    BY <1>2, <1>5 DEF OwnRepo, Tip
  <2>2. Tip(r) # NoTree /\ r.tree # NoTree
    BY <1>2, Names
  <2>3. OnlyOf(w, t)
    BY <1>3, <2>1, <2>2 DEF OnlyOf
  <2> QED
    BY <1>4, <2>1, <2>3
<1>6. ASSUME Clean(r) PROVE Clean(e)
  <2>1. t = Tip(r)
    BY <1>2, <1>3, <1>6 DEF Trees, Clean
  <2> QED
    BY <1>4, <2>1 DEF Clean, Tip
<1> QED
  BY <1>1, <1>4, <1>5, <1>6, Edited

-----------------------------------------------------------------------------
(* The invariant of every project. *)

\* No two work orders share a checkout.
OwnSpaces == \A u, w \in WorkOrders : Space(u) = Space(w) => u = w

\* The checkout is on the integration branch before a work order has its own only.
AtMain(row) ==
    /\ row.phase = "implement"
    /\ row.at \in {"queued", "requeued", "development_failed"}
    /\ ~(row.feedback /\ row.baseline # NoTree)

\* In a checkout of its own, all a work order knows and has is its own.
Own(w, r, row) ==
    /\ OwnRepo(w, r)
    /\ OnlyOf(w, row.base) /\ OnlyOf(w, row.baseline)
    /\ OnlyOf(w, row.reviewed) /\ OnlyOf(w, row.pushed)

BeforePublication ==
    {"queued", "requeued", "developing", "development_failed", "code_review", "draft_review"}
FromReview == {"code_review", "draft_review", "publishing", "publication_failed"}

\* While the team's branches agree nothing is committed before the publication, and
\* the delivery branch keeps the tree that was reviewed.
Kept(w, r, row) ==
    /\ row.phase = "implement"
    /\ row.at \in BeforePublication => \A x \in Branches : r.tips[x] \in {NoTree, Pristine}
    /\ row.at \in FromReview /\ ~row.flagged /\ r.head = w => r.tree = row.reviewed
    /\ row.pushed # NoTree => /\ row.at = "published"
                              /\ ~row.flagged => row.pushed = row.reviewed

CheckoutInv ==
    /\ repo \in [Spaces -> Repos] /\ remoteTarget \in BOOLEAN /\ wo \in [WorkOrders -> Rows]
    /\ \A s \in Spaces : Sound(repo[s])
    /\ \A w \in WorkOrders : repo[Space(w)].head = "main" => AtMain(wo[w])
    /\ OwnSpaces => \A w \in WorkOrders : Own(w, repo[Space(w)], wo[w])
    /\ OwnSpaces /\ "drift" \notin Environment =>
           \A w \in WorkOrders : Kept(w, repo[Space(w)], wo[w])

\* A step of w that leaves its checkout and its row as they may be.
Follows(w, r, row) ==
    /\ repo' = [repo EXCEPT ![Space(w)] = r]
    /\ wo' = [wo EXCEPT ![w] = row]
    /\ UNCHANGED remoteTarget
    /\ Sound(r) /\ row \in Rows
    /\ r.head = "main" => AtMain(row) /\ (Managed => repo[Space(w)].head = "main")
    /\ Own(w, repo[Space(w)], wo[w]) => Own(w, r, row)
    /\ "drift" \notin Environment /\ Kept(w, repo[Space(w)], wo[w]) => Kept(w, r, row)

LEMMA SpaceOf == \A w \in WorkOrders : Space(w) \in Spaces
  BY DEF Space, Spaces

\* Such a step keeps the invariant.
LEMMA FollowsKeeps ==
    ASSUME CheckoutInv, NEW w \in WorkOrders, NEW r, NEW row, Follows(w, r, row)
    PROVE  CheckoutInv'
<1>1. r \in Repos /\ row \in Rows /\ Space(w) \in Spaces
  BY SpaceOf DEF Follows, Sound
<1>2. /\ repo' \in [Spaces -> Repos] /\ wo' \in [WorkOrders -> Rows] /\ remoteTarget' \in BOOLEAN
      /\ \A s \in Spaces : repo'[s] = IF s = Space(w) THEN r ELSE repo[s]
      /\ \A u \in WorkOrders : wo'[u] = IF u = w THEN row ELSE wo[u]
  BY <1>1 DEF Follows, CheckoutInv
<1>3. \A s \in Spaces : Sound(repo'[s])
  BY <1>2 DEF Follows, CheckoutInv
<1>4. ASSUME NEW u \in WorkOrders, repo'[Space(u)].head = "main"
      PROVE  AtMain(wo'[u])
  <2>1. CASE u = w
    BY <1>1, <1>2, <1>4, <2>1 DEF Follows
  <2>2. CASE u # w /\ Space(u) = Space(w)
    <3>1. Managed
      BY <2>2, ManagedAssumption DEF Space
    <3> QED
      BY <1>1, <1>2, <1>4, <2>2, <3>1 DEF Follows, CheckoutInv
  <2>3. CASE u # w /\ Space(u) # Space(w)
    BY <1>2, <1>4, <2>3, SpaceOf DEF CheckoutInv
  <2> QED
    BY <2>1, <2>2, <2>3
<1>5. ASSUME OwnSpaces, NEW u \in WorkOrders
      PROVE  Own(u, repo'[Space(u)], wo'[u])
  <2>1. CASE u = w
    BY <1>1, <1>2, <1>5, <2>1 DEF Follows, CheckoutInv
  <2>2. CASE u # w
    BY <1>2, <1>5, <2>2, SpaceOf DEF OwnSpaces, CheckoutInv
  <2> QED
    BY <2>1, <2>2
<1>6. ASSUME OwnSpaces, "drift" \notin Environment, NEW u \in WorkOrders
      PROVE  Kept(u, repo'[Space(u)], wo'[u])
  <2>1. CASE u = w
    BY <1>1, <1>2, <1>6, <2>1 DEF Follows, CheckoutInv
  <2>2. CASE u # w
    BY <1>2, <1>6, <2>2, SpaceOf DEF OwnSpaces, CheckoutInv
  <2> QED
    BY <2>1, <2>2
<1> QED
  BY <1>2, <1>3, <1>4, <1>5, <1>6 DEF CheckoutInv, Space, Spaces

\* What the invariant says of one work order.
LEMMA Facts ==
    ASSUME CheckoutInv, NEW w \in WorkOrders
    PROVE  /\ Space(w) \in Spaces /\ Sound(repo[Space(w)]) /\ repo[Space(w)] \in Repos
           /\ wo[w] \in Rows /\ wo \in [WorkOrders -> Rows] /\ repo \in [Spaces -> Repos]
           /\ repo[Space(w)].head = "main" => AtMain(wo[w])
  BY SpaceOf DEF CheckoutInv

LEMMA CloneIsSound ==
    /\ Sound(Clone) /\ Clone.head = "main" /\ Clean(Clone) /\ Tip(Clone) = MainTree
    /\ \A x \in Branches : Clone.tips[x] \in {NoTree, MainTree}
    /\ \A w \in WorkOrders : OwnRepo(w, Clone)
<1> DEFINE tips == [b \in Branches |-> IF b = "main" THEN MainTree ELSE NoTree]
<1>1. /\ tips \in [Branches -> Trees \cup {NoTree}]
      /\ \A b \in Branches : tips[b] = IF b = "main" THEN MainTree ELSE NoTree
  BY TeamTrees
<1>2. Clone = [head |-> "main", tree |-> MainTree, index |-> MainTree, tips |-> tips]
  BY DEF Clone
<1> HIDE DEF tips
<1>3. Clone \in Repos /\ Clone.head = "main" /\ Clone.tree = MainTree /\ Clone.index = MainTree
      /\ Clone.tips = tips
  BY <1>1, <1>2, Names, TeamTrees DEF Repos
<1>4. Sound(Clone) /\ Clean(Clone) /\ Tip(Clone) = MainTree
  BY <1>1, <1>3, Names, TeamTrees DEF Sound, Clean, Tip
<1>5. \A w \in WorkOrders : OwnRepo(w, Clone)
  BY <1>1, <1>3, TeamTrees DEF OwnRepo, OnlyOf
<1> QED
  BY <1>1, <1>3, <1>4, <1>5

LEMMA InitKeeps == ASSUME Init PROVE CheckoutInv
<1> DEFINE row == [at |-> "queued", phase |-> "implement", feedback |-> FALSE,
                   baseline |-> NoTree, targetKnown |-> FALSE, base |-> MainTree,
                   guard |-> "open", reviewed |-> MainTree, flagged |-> FALSE, pushed |-> NoTree]
<1>1. /\ row \in Rows /\ row.phase = "implement" /\ row.at = "queued" /\ ~row.feedback
      /\ row.baseline = NoTree /\ row.base = MainTree /\ row.reviewed = MainTree
      /\ row.pushed = NoTree
  BY TeamTrees DEF Rows, Stations, Idle, Phases
<1>2. wo = [w \in WorkOrders |-> row] /\ repo = [s \in Spaces |-> Clone]
      /\ remoteTarget \in BOOLEAN
  BY DEF Init
<1> HIDE DEF row
<1>3. \A w \in WorkOrders : wo[w] = row /\ repo[Space(w)] = Clone
  BY <1>2, SpaceOf
<1>4. AtMain(row)
  BY <1>1 DEF AtMain
<1>5. \A w \in WorkOrders : Own(w, Clone, row)
  BY <1>1, CloneIsSound, TeamTrees DEF Own, OnlyOf
<1>6. ASSUME "drift" \notin Environment, NEW w \in WorkOrders PROVE Kept(w, Clone, row)
  <2>1. \A x \in Branches : Clone.tips[x] \in {NoTree, Pristine}
    BY <1>6, CloneIsSound, TeamTrees
  <2> QED
    BY <1>1, <2>1 DEF Kept, FromReview
<1>7. repo \in [Spaces -> Repos] /\ wo \in [WorkOrders -> Rows]
      /\ \A s \in Spaces : Sound(repo[s])
  BY <1>1, <1>2, CloneIsSound DEF Sound
<1> QED
  BY <1>2, <1>3, <1>4, <1>5, <1>6, <1>7 DEF CheckoutInv

\* What a fresh run starts from.
LEMMA FreshFacts ==
    ASSUME CheckoutInv, NEW w \in WorkOrders
    PROVE  /\ Sound(FreshCheckout(w))
           /\ Managed => FreshCheckout(w) = repo[Space(w)]
           /\ OwnRepo(w, repo[Space(w)]) => OwnRepo(w, FreshCheckout(w))
           /\ /\ "drift" \notin Environment
              /\ \A x \in Branches : repo[Space(w)].tips[x] \in {NoTree, Pristine}
              => \A x \in Branches : FreshCheckout(w).tips[x] \in {NoTree, Pristine}
<1>1. CASE Managed
  <2>1. FreshCheckout(w) = repo[Space(w)]
    BY <1>1 DEF FreshCheckout, Space
  <2> QED
    BY <2>1, Facts
<1>2. CASE ~Managed
  <2>1. FreshCheckout(w) = Clone
    BY <1>2 DEF FreshCheckout
  <2> QED
    BY <1>2, <2>1, CloneIsSound, TeamTrees
<1> QED
  BY <1>1, <1>2

LEMMA PrepareFreshKeeps ==
    ASSUME CheckoutInv, NEW w \in WorkOrders, wo[w].at \in {"queued", "requeued"},
           PrepareFresh(w), UNCHANGED remoteTarget
    PROVE  CheckoutInv'
<1> DEFINE r == FreshCheckout(w)
           now == repo[Space(w)]
<1>1. /\ Sound(r) /\ (Managed => r = now) /\ (OwnRepo(w, now) => OwnRepo(w, r))
      /\ "drift" \notin Environment /\ (\A x \in Branches : now.tips[x] \in {NoTree, Pristine})
         => \A x \in Branches : r.tips[x] \in {NoTree, Pristine}
  BY FreshFacts
<1>2. wo[w] \in Rows /\ now \in Repos
  BY Facts
<1>3. wo[w].phase = "implement" /\ ~(wo[w].feedback /\ wo[w].baseline # NoTree)
  BY <1>2 DEF PrepareFresh, ReusesWorkspace, Rows, Phases
<1>4. Kept(w, now, wo[w]) => /\ \A x \in Branches : now.tips[x] \in {NoTree, Pristine}
                             /\ wo[w].pushed = NoTree
  BY DEF Kept, BeforePublication
<1>5. CASE EnsureRefused(r)
  <2> DEFINE n == IF TargetRefused(r) THEN r ELSE ResolveTarget(r)
             row == [wo[w] EXCEPT !.at = "development_failed"]
  <2>1. /\ repo' = [repo EXCEPT ![Space(w)] = n]
        /\ wo' = [wo EXCEPT ![w] = row]
    BY <1>5 DEF PrepareFresh, Fails
  <2>2. /\ row \in Rows /\ row.at = "development_failed" /\ row.phase = wo[w].phase
        /\ row.feedback = wo[w].feedback /\ row.baseline = wo[w].baseline
        /\ row.base = wo[w].base /\ row.reviewed = wo[w].reviewed
        /\ row.pushed = wo[w].pushed /\ row.flagged = wo[w].flagged
    BY <1>2 DEF Rows, Stations, Idle
  <2>3. /\ Sound(n) /\ n.head \in {r.head, "staging"}
        /\ \A x \in Branches \ {"staging"} : n.tips[x] = r.tips[x]
        /\ OwnRepo(w, r) => OwnRepo(w, n)
    BY <1>1, ResolveEffect
  <2> HIDE DEF n, row, r
  <2>4. n.head = "main" => AtMain(row) /\ (Managed => now.head = "main")
    BY <1>1, <1>3, <2>2, <2>3, Names DEF AtMain
  <2>5. Own(w, now, wo[w]) => Own(w, n, row)
    BY <1>1, <2>2, <2>3 DEF Own
  <2>6. ASSUME "drift" \notin Environment, Kept(w, now, wo[w]) PROVE Kept(w, n, row)
    <3>1. \A x \in Branches : n.tips[x] \in {NoTree, Pristine}
      BY <1>1, <1>4, <2>3, <2>6, TeamTrees DEF Sound
    <3> QED
      BY <1>3, <1>4, <2>2, <2>6, <3>1 DEF Kept, FromReview
  <2>7. Follows(w, n, row)
    BY <2>1, <2>2, <2>3, <2>4, <2>5, <2>6 DEF Follows
  <2> QED
    BY <2>7, FollowsKeeps
<1>6. CASE ~EnsureRefused(r)
  <2> DEFINE d == EnsureDeliveryBranch(r, w)
             row == [wo[w] EXCEPT !.at = "developing", !.base = Tip(d), !.guard = "open"]
  <2>1. /\ repo' = [repo EXCEPT ![Space(w)] = d]
        /\ wo' = [wo EXCEPT ![w] = row]
    BY <1>6 DEF PrepareFresh, StartRun
  <2>2. /\ Sound(d) /\ d.head = w /\ Tip(d) = MainTree
        /\ \A x \in Branches \ {"staging", w} : d.tips[x] = r.tips[x]
        /\ d.tips[w] = MainTree
        /\ OwnRepo(w, r) => OwnRepo(w, d)
    BY <1>1, EnsureEffect
  <2> HIDE DEF d, r
  <2>3. /\ row \in Rows /\ row.at = "developing" /\ row.phase = wo[w].phase
        /\ row.baseline = wo[w].baseline
        /\ row.base = MainTree /\ row.reviewed = wo[w].reviewed
        /\ row.pushed = wo[w].pushed /\ row.flagged = wo[w].flagged
    BY <1>2, <2>2, TeamTrees DEF Rows, Stations
  <2> HIDE DEF row
  <2>4. d.head # "main"
    BY <2>2, Names
  <2>5. Own(w, now, wo[w]) => Own(w, d, row)
    BY <1>1, <2>2, <2>3, TeamTrees DEF Own, OnlyOf
  <2>6. ASSUME "drift" \notin Environment, Kept(w, now, wo[w]) PROVE Kept(w, d, row)
    <3>1. \A x \in Branches : d.tips[x] \in {NoTree, Pristine}
      BY <1>1, <1>4, <2>2, <2>6, TeamTrees DEF Sound
    <3> QED
      BY <1>3, <1>4, <2>3, <2>6, <3>1 DEF Kept, FromReview
  <2>7. Follows(w, d, row)
    BY <2>1, <2>2, <2>3, <2>4, <2>5, <2>6 DEF Follows
  <2> QED
    BY <2>7, FollowsKeeps
<1> QED
  BY <1>5, <1>6

LEMMA PrepareReusedKeeps ==
    ASSUME CheckoutInv, NEW w \in WorkOrders, wo[w].at \in {"queued", "requeued"},
           PrepareReused(w), UNCHANGED remoteTarget
    PROVE  CheckoutInv'
<1> DEFINE now == repo[Space(w)]
           look == ~wo[w].targetKnown
           base == IF wo[w].baseline # NoTree THEN wo[w].baseline ELSE Tip(now)
<1>1. wo[w] \in Rows /\ Sound(now) /\ now.head # "main"
  BY Facts DEF PrepareReused, ReusesWorkspace, AtMain
<1>2. Kept(w, now, wo[w]) => /\ \A x \in Branches : now.tips[x] \in {NoTree, Pristine}
                             /\ wo[w].pushed = NoTree /\ wo[w].phase = "implement"
  BY DEF Kept, BeforePublication
<1>3. base \in Trees /\ (Own(w, now, wo[w]) => OnlyOf(w, base))
  <2>1. now.head \in Branches
    BY <1>1 DEF Sound, Repos
  <2> QED
    BY <1>1, <2>1 DEF Rows, Sound, Own, OwnRepo, Tip
<1>4. CASE look /\ TargetRefused(now)
  <2> DEFINE row == [wo[w] EXCEPT !.at = "development_failed"]
  <2>1. /\ repo' = [repo EXCEPT ![Space(w)] = now]
        /\ wo' = [wo EXCEPT ![w] = row]
    BY <1>4 DEF PrepareReused, Fails
  <2>2. /\ row \in Rows /\ row.at = "development_failed" /\ row.phase = wo[w].phase
        /\ row.baseline = wo[w].baseline
        /\ row.base = wo[w].base /\ row.reviewed = wo[w].reviewed
        /\ row.pushed = wo[w].pushed /\ row.flagged = wo[w].flagged
    BY <1>1 DEF Rows, Stations, Idle
  <2> HIDE DEF row, now
  <2>3. Own(w, now, wo[w]) => Own(w, now, row)
    BY <2>2 DEF Own
  <2>4. Kept(w, now, wo[w]) => Kept(w, now, row)
    BY <1>2, <2>2 DEF Kept, FromReview
  <2>5. Follows(w, now, row)
    BY <1>1, <2>1, <2>2, <2>3, <2>4 DEF Follows, now
  <2> QED
    BY <2>5, FollowsKeeps
<1>5. CASE ~(look /\ TargetRefused(now))
  <2> DEFINE n == IF look THEN ResolveTarget(now) ELSE now
             row == [wo[w] EXCEPT !.at = "developing", !.base = base, !.guard = "open"]
  <2>1. /\ repo' = [repo EXCEPT ![Space(w)] = n]
        /\ wo' = [wo EXCEPT ![w] = row]
    BY <1>5 DEF PrepareReused, StartRun
  <2>2. /\ Sound(n) /\ n.head \in {now.head, "staging"}
        /\ \A x \in Branches \ {"staging"} : n.tips[x] = now.tips[x]
        /\ OwnRepo(w, now) => OwnRepo(w, n)
    BY <1>1, ResolveEffect
  <2> HIDE DEF n, base
  <2>3. /\ row \in Rows /\ row.at = "developing" /\ row.phase = wo[w].phase
        /\ row.baseline = wo[w].baseline
        /\ row.base = base /\ row.reviewed = wo[w].reviewed
        /\ row.pushed = wo[w].pushed /\ row.flagged = wo[w].flagged
    BY <1>1, <1>3 DEF Rows, Stations
  <2> HIDE DEF row, now
  <2>4. n.head # "main"
    BY <1>1, <2>2, Names
  <2>5. Own(w, now, wo[w]) => Own(w, n, row)
    BY <1>3, <2>2, <2>3 DEF Own
  <2>6. ASSUME "drift" \notin Environment, Kept(w, now, wo[w]) PROVE Kept(w, n, row)
    <3>1. \A x \in Branches : n.tips[x] \in {NoTree, Pristine}
      BY <1>2, <2>2, <2>6, TeamTrees DEF Sound
    <3> QED
      BY <1>2, <2>3, <2>6, <3>1 DEF Kept, FromReview
  <2>7. Follows(w, n, row)
    BY <2>1, <2>2, <2>3, <2>4, <2>5, <2>6 DEF Follows, now
  <2> QED
    BY <2>7, FollowsKeeps
<1> QED
  BY <1>4, <1>5

\* While the agent runs, the checkout is edited and nothing is decided.
LEMMA EditKeeps ==
    ASSUME CheckoutInv, NEW w \in WorkOrders, wo[w].at = "developing",
           NEW e \in Repos, NEW row \in Rows,
           repo' = [repo EXCEPT ![Space(w)] = e], wo' = [wo EXCEPT ![w] = row],
           UNCHANGED remoteTarget,
           e.head = repo[Space(w)].head, e.tips = repo[Space(w)].tips,
           Own(w, repo[Space(w)], wo[w]) => OnlyOf(w, e.tree) /\ OnlyOf(w, e.index),
           row.at \in {"developing", "development_failed"}, row.phase = wo[w].phase,
           row.base = wo[w].base, row.baseline = wo[w].baseline,
           row.reviewed = wo[w].reviewed, row.pushed = wo[w].pushed
    PROVE  CheckoutInv'
<1> DEFINE now == repo[Space(w)]
<1>1. Sound(now) /\ now.head # "main"
  BY Facts DEF AtMain
<1>2. Sound(e) /\ (OwnRepo(w, now) /\ OnlyOf(w, e.tree) /\ OnlyOf(w, e.index) => OwnRepo(w, e))
  BY <1>1, Edited
<1>3. Own(w, now, wo[w]) => Own(w, e, row)
  BY <1>2 DEF Own
<1>4. Kept(w, now, wo[w]) => Kept(w, e, row)
  BY DEF Kept, BeforePublication, FromReview
<1>5. Follows(w, e, row)
  BY <1>1, <1>2, <1>3, <1>4 DEF Follows
<1> QED
  BY <1>5, FollowsKeeps

LEMMA WriteFileKeeps ==
    ASSUME CheckoutInv, NEW w \in WorkOrders, WriteFile(w) PROVE CheckoutInv'
<1> DEFINE now == repo[Space(w)]
<1>1. /\ wo[w] \in Rows /\ now \in Repos /\ wo \in [WorkOrders -> Rows]
      /\ repo \in [Spaces -> Repos] /\ wo[w].at = "developing"
  BY Facts DEF WriteFile, Working
<1>2. PICK p \in Paths :
         IF OutOfScope({p}) # {}
         THEN wo' = [wo EXCEPT ![w].guard = "blocked"] /\ repo' = repo
         ELSE repo' = [repo EXCEPT ![Space(w)] = Change(now, w, p)] /\ wo' = wo
  BY DEF WriteFile
<1>3. CASE OutOfScope({p}) # {}
  <2> DEFINE row == [wo[w] EXCEPT !.guard = "blocked"]
  <2>1. /\ row \in Rows /\ row.at = wo[w].at /\ row.phase = wo[w].phase
        /\ row.baseline = wo[w].baseline /\ row.base = wo[w].base
        /\ row.reviewed = wo[w].reviewed /\ row.pushed = wo[w].pushed
    BY <1>1 DEF Rows
  <2>2. wo' = [wo EXCEPT ![w] = row] /\ repo' = [repo EXCEPT ![Space(w)] = now]
    BY <1>1, <1>2, <1>3
  <2> HIDE DEF row
  <2> QED
    BY <1>1, <2>1, <2>2, EditKeeps DEF WriteFile, Own, OwnRepo
<1>4. CASE ~(OutOfScope({p}) # {})
  <2> DEFINE e == Change(now, w, p)
  <2>1. /\ e \in Repos /\ e.head = now.head /\ e.tips = now.tips /\ e.index = now.index
        /\ OnlyOf(w, now.tree) => OnlyOf(w, e.tree)
    BY <1>1, ChangeEffect
  <2>2. wo' = [wo EXCEPT ![w] = wo[w]] /\ repo' = [repo EXCEPT ![Space(w)] = e]
    BY <1>1, <1>2, <1>4
  <2> HIDE DEF e
  <2> QED
    BY <1>1, <2>1, <2>2, EditKeeps DEF WriteFile, Own, OwnRepo
<1> QED
  BY <1>3, <1>4

LEMMA RunCommandKeeps ==
    ASSUME CheckoutInv, NEW w \in WorkOrders, RunCommand(w) PROVE CheckoutInv'
<1> DEFINE now == repo[Space(w)]
<1>1. /\ wo[w] \in Rows /\ now \in Repos /\ wo \in [WorkOrders -> Rows]
      /\ repo \in [Spaces -> Repos] /\ wo[w].at = "developing" /\ wo[w].base \in Trees
  BY Facts DEF RunCommand, Working, Rows
<1>2. PICK p \in Paths \ Planned :
         IF OutOfScope(Touched(Change(now, w, p), wo[w].base)) # {}
         THEN /\ wo' = [wo EXCEPT ![w].guard = "blocked"]
              /\ repo' = [repo EXCEPT ![Space(w)] = RollbackToClean(Change(now, w, p), wo[w].base)]
         ELSE repo' = [repo EXCEPT ![Space(w)] = Change(now, w, p)] /\ wo' = wo
  BY DEF RunCommand
<1> DEFINE c == Change(now, w, p)
           e == RollbackToClean(c, wo[w].base)
<1>3. /\ c \in Repos /\ c.head = now.head /\ c.tips = now.tips /\ c.index = now.index
      /\ OnlyOf(w, now.tree) => OnlyOf(w, c.tree)
  BY <1>1, ChangeEffect
<1> HIDE DEF c
<1>4. /\ e \in Repos /\ e.head = now.head /\ e.tips = now.tips
      /\ OnlyOf(w, c.tree) /\ OnlyOf(w, c.index) /\ OnlyOf(w, wo[w].base) =>
             OnlyOf(w, e.tree) /\ OnlyOf(w, e.index)
  BY <1>1, <1>3, RollbackEffect
<1> HIDE DEF e
<1>5. CASE OutOfScope(Touched(c, wo[w].base)) # {}
  <2> DEFINE row == [wo[w] EXCEPT !.guard = "blocked"]
  <2>1. /\ row \in Rows /\ row.at = wo[w].at /\ row.phase = wo[w].phase
        /\ row.baseline = wo[w].baseline /\ row.base = wo[w].base
        /\ row.reviewed = wo[w].reviewed /\ row.pushed = wo[w].pushed
    BY <1>1 DEF Rows
  <2>2. wo' = [wo EXCEPT ![w] = row] /\ repo' = [repo EXCEPT ![Space(w)] = e]
    BY <1>2, <1>5 DEF c, e
  <2> HIDE DEF row
  <2> QED
    BY <1>1, <1>3, <1>4, <2>1, <2>2, EditKeeps DEF RunCommand, Own, OwnRepo
<1>6. CASE ~(OutOfScope(Touched(c, wo[w].base)) # {})
  <2>1. wo' = [wo EXCEPT ![w] = wo[w]] /\ repo' = [repo EXCEPT ![Space(w)] = c]
    BY <1>1, <1>2, <1>6 DEF c
  <2> QED
    BY <1>1, <1>3, <2>1, EditKeeps DEF RunCommand, Own, OwnRepo
<1> QED
  BY <1>5, <1>6

\* The guard stops the run; nothing is touched.
LEMMA GuardStopKeeps ==
    ASSUME CheckoutInv, NEW w \in WorkOrders, DeniedCommand(w) \/ LeaveWorkspace(w) \/ AgentFails(w)
    PROVE  CheckoutInv'
<1> DEFINE now == repo[Space(w)]
<1>1. /\ wo[w] \in Rows /\ now \in Repos /\ wo \in [WorkOrders -> Rows]
      /\ repo \in [Spaces -> Repos] /\ wo[w].at = "developing"
  BY Facts DEF DeniedCommand, LeaveWorkspace, AgentFails, Working
<1>2. UNCHANGED remoteTarget
  BY DEF DeniedCommand, LeaveWorkspace, AgentFails
<1>3. ASSUME NEW row \in Rows, row.at \in {"developing", "development_failed"},
             row.phase = wo[w].phase, row.baseline = wo[w].baseline, row.base = wo[w].base,
             row.reviewed = wo[w].reviewed, row.pushed = wo[w].pushed,
             wo' = [wo EXCEPT ![w] = row], repo' = [repo EXCEPT ![Space(w)] = now]
      PROVE  CheckoutInv'
  BY <1>1, <1>2, <1>3, EditKeeps DEF Own, OwnRepo
<1>4. CASE DeniedCommand(w)
  <2> DEFINE row == [wo[w] EXCEPT !.guard = "blocked"]
  <2>1. /\ row \in Rows /\ row.at = wo[w].at /\ row.phase = wo[w].phase
        /\ row.baseline = wo[w].baseline /\ row.base = wo[w].base
        /\ row.reviewed = wo[w].reviewed /\ row.pushed = wo[w].pushed
    BY <1>1 DEF Rows
  <2>2. wo' = [wo EXCEPT ![w] = row] /\ repo' = [repo EXCEPT ![Space(w)] = now]
    BY <1>1, <1>4 DEF DeniedCommand
  <2> HIDE DEF row
  <2> QED
    BY <1>1, <1>3, <2>1, <2>2
<1>5. CASE LeaveWorkspace(w)
  <2> DEFINE row == [wo[w] EXCEPT !.guard = "halted"]
  <2>1. /\ row \in Rows /\ row.at = wo[w].at /\ row.phase = wo[w].phase
        /\ row.baseline = wo[w].baseline /\ row.base = wo[w].base
        /\ row.reviewed = wo[w].reviewed /\ row.pushed = wo[w].pushed
    BY <1>1 DEF Rows
  <2>2. wo' = [wo EXCEPT ![w] = row] /\ repo' = [repo EXCEPT ![Space(w)] = now]
    BY <1>1, <1>5 DEF LeaveWorkspace
  <2> HIDE DEF row
  <2> QED
    BY <1>1, <1>3, <2>1, <2>2
<1>6. CASE AgentFails(w)
  <2> DEFINE row == [wo[w] EXCEPT !.at = "development_failed"]
  <2>1. /\ row \in Rows /\ row.at = "development_failed" /\ row.phase = wo[w].phase
        /\ row.baseline = wo[w].baseline /\ row.base = wo[w].base
        /\ row.reviewed = wo[w].reviewed /\ row.pushed = wo[w].pushed
    BY <1>1 DEF Rows, Stations, Idle
  <2>2. wo' = [wo EXCEPT ![w] = row] /\ repo' = [repo EXCEPT ![Space(w)] = now]
    BY <1>6 DEF AgentFails, Fails
  <2> HIDE DEF row
  <2> QED
    BY <1>3, <2>1, <2>2
<1> QED
  BY <1>4, <1>5, <1>6

LEMMA MergeTargetKeeps ==
    ASSUME CheckoutInv, NEW w \in WorkOrders, MergeTarget(w) PROVE CheckoutInv'
<1> DEFINE now == repo[Space(w)]
           t == [p \in Paths |-> now.tree[p] \cup now.tips["staging"][p]]
           m == [now EXCEPT !.tree = t]
           c == CommitAll(m)
<1>1. /\ wo[w] \in Rows /\ Sound(now) /\ wo \in [WorkOrders -> Rows] /\ wo[w].at = "developing"
      /\ wo[w].phase = "merge" /\ now.head # "main"
  BY Facts DEF MergeTarget, Working, AtMain
<1>2. /\ now.tips["staging"] # NoTree /\ now.head # "staging"
      /\ repo' = [repo EXCEPT ![Space(w)] = c] /\ wo' = [wo EXCEPT ![w] = wo[w]]
      /\ UNCHANGED remoteTarget
  BY <1>1 DEF MergeTarget
<1>3. now.tips["staging"] = StagingTree /\ now.tree \in Trees /\ now \in Repos
  BY <1>1, <1>2 DEF Sound, Repos
<1>4. t \in Trees /\ (OnlyOf(w, now.tree) => OnlyOf(w, t))
  <2>1. t = [p \in Paths |-> now.tree[p] \cup StagingTree[p]]
    BY <1>3
  <2>2. t \in Trees /\ \A p \in Paths : t[p] = now.tree[p] \cup StagingTree[p]
    BY <1>3, <2>1, TeamTrees DEF Trees
  <2> HIDE DEF t
  <2> QED
    BY <1>3, <2>2, TeamTrees, Names DEF OnlyOf
<1> HIDE DEF t
<1>5. m \in Repos /\ m.head = now.head /\ m.tips = now.tips /\ m.tree = t /\ m.index = now.index
  BY <1>3, <1>4 DEF Repos
<1> HIDE DEF m
<1>6. Sound(m) /\ (OwnRepo(w, now) => OwnRepo(w, m))
  BY <1>1, <1>4, <1>5, Edited DEF OwnRepo
<1>7. Sound(c) /\ c.head = now.head /\ (OwnRepo(w, m) => OwnRepo(w, c))
  BY <1>1, <1>2, <1>5, <1>6, CommitEffect
<1> HIDE DEF c
<1>8. Follows(w, c, wo[w])
  BY <1>1, <1>2, <1>6, <1>7 DEF Follows, Own, Kept
<1> QED
  BY <1>8, FollowsKeeps

LEMMA FinishBlockedKeeps ==
    ASSUME CheckoutInv, NEW w \in WorkOrders, FinishBlocked(w) PROVE CheckoutInv'
<1> DEFINE now == repo[Space(w)]
           e == IF wo[w].guard = "blocked" THEN RollbackToClean(now, wo[w].base) ELSE now
           row == [wo[w] EXCEPT !.at = "code_review", !.reviewed = wo[w].base, !.flagged = TRUE]
<1>1. /\ wo[w] \in Rows /\ Sound(now) /\ wo[w].base \in Trees /\ wo[w].at = "developing"
      /\ now.head # "main" /\ now \in Repos /\ repo \in [Spaces -> Repos]
  BY Facts DEF FinishBlocked, AtMain, Rows
<1>2. /\ repo' = [repo EXCEPT ![Space(w)] = e] /\ wo' = [wo EXCEPT ![w] = row]
      /\ UNCHANGED remoteTarget
  BY <1>1 DEF FinishBlocked, OpenCodeReview
<1>3. /\ e \in Repos /\ e.head = now.head /\ e.tips = now.tips
      /\ OnlyOf(w, now.tree) /\ OnlyOf(w, now.index) /\ OnlyOf(w, wo[w].base) =>
             OnlyOf(w, e.tree) /\ OnlyOf(w, e.index)
  BY <1>1, RollbackEffect
<1> HIDE DEF e
<1>4. /\ row \in Rows /\ row.at = "code_review" /\ row.phase = wo[w].phase
      /\ row.baseline = wo[w].baseline /\ row.base = wo[w].base /\ row.flagged
      /\ row.reviewed = wo[w].base /\ row.pushed = wo[w].pushed
  BY <1>1 DEF Rows, Stations
<1> HIDE DEF row
<1>5. Sound(e) /\ (OwnRepo(w, now) /\ OnlyOf(w, e.tree) /\ OnlyOf(w, e.index) => OwnRepo(w, e))
  BY <1>1, <1>3, Edited
<1>6. Own(w, now, wo[w]) => Own(w, e, row)
  BY <1>3, <1>4, <1>5 DEF Own, OwnRepo
<1>7. Kept(w, now, wo[w]) => Kept(w, e, row)
  BY <1>1, <1>3, <1>4 DEF Kept, BeforePublication
<1>8. Follows(w, e, row)
  BY <1>1, <1>2, <1>3, <1>4, <1>5, <1>6, <1>7 DEF Follows
<1> QED
  BY <1>8, FollowsKeeps

LEMMA CleanUpEffect ==
    ASSUME NEW r \in Repos, NEW base \in Trees
    PROVE  /\ CleanUp(r, base) \in Repos
           /\ CleanUp(r, base).head = r.head /\ CleanUp(r, base).tips = r.tips
           /\ \A w \in WorkOrders :
                 OnlyOf(w, r.tree) /\ OnlyOf(w, r.index) /\ OnlyOf(w, base) =>
                     OnlyOf(w, CleanUp(r, base).tree) /\ OnlyOf(w, CleanUp(r, base).index)
<1>1. CleanUp(r, base) = r \/ CleanUp(r, base) = RollbackToClean(r, base)
  BY DEF CleanUp
<1> QED
  BY <1>1, RollbackEffect

LEMMA FinishKeeps ==
    ASSUME CheckoutInv, NEW w \in WorkOrders, Finish(w) PROVE CheckoutInv'
<1> DEFINE now == repo[Space(w)]
           base == wo[w].base
<1>1. /\ wo[w] \in Rows /\ Sound(now) /\ base \in Trees /\ wo[w].at = "developing"
      /\ now.head # "main" /\ now \in Repos /\ repo \in [Spaces -> Repos]
  BY Facts DEF Finish, Working, AtMain, Rows
<1>2. PICK tested \in AfterTests(now, w) :
         LET r     == CleanUp(tested, base)
             clean == OutOfScope(Touched(r, base)) = {}
             patch == IF clean THEN Collected(r) ELSE base
             s     == IF clean THEN Collect(r) ELSE r
         IN  IF patch = base /\ wo[w].phase = "implement"
             THEN Fails(w, s)
             ELSE /\ repo' = [repo EXCEPT ![Space(w)] = s]
                  /\ wo' = [wo EXCEPT ![w] =
                               [@ EXCEPT !.at = "code_review", !.reviewed = patch,
                                         !.flagged = FALSE, !.baseline = base,
                                         !.targetKnown = s.tips["staging"] # NoTree]]
  BY DEF Finish
<1> DEFINE r     == CleanUp(tested, base)
           clean == OutOfScope(Touched(r, base)) = {}
           patch == IF clean THEN Collected(r) ELSE base
           s     == IF clean THEN Collect(r) ELSE r
<1>3. /\ tested \in Repos /\ tested.head = now.head /\ tested.tips = now.tips
      /\ OnlyOf(w, now.tree) /\ OnlyOf(w, now.index) =>
             OnlyOf(w, tested.tree) /\ OnlyOf(w, tested.index)
  <2>1. tested = now \/ tested = Change(now, w, "new")
    BY <1>2 DEF AfterTests
  <2> QED
    BY <1>1, <2>1, ChangeEffect DEF Paths
<1>4. /\ r \in Repos /\ r.head = now.head /\ r.tips = now.tips
      /\ OnlyOf(w, now.tree) /\ OnlyOf(w, now.index) /\ OnlyOf(w, base) =>
             OnlyOf(w, r.tree) /\ OnlyOf(w, r.index)
  BY <1>1, <1>3, CleanUpEffect
<1> HIDE DEF r
<1>5. /\ s \in Repos /\ s.head = now.head /\ s.tips = now.tips /\ s.tree = r.tree
      /\ s.index \in {r.tree, r.index} /\ patch \in Trees /\ patch \in {base, r.tree}
      /\ patch # base => patch = s.tree
  BY <1>1, <1>4, CollectEffect DEF Repos
<1>6. IF patch = base /\ wo[w].phase = "implement"
      THEN Fails(w, s)
      ELSE /\ repo' = [repo EXCEPT ![Space(w)] = s]
           /\ wo' = [wo EXCEPT ![w] =
                        [wo[w] EXCEPT !.at = "code_review", !.reviewed = patch,
                                      !.flagged = FALSE, !.baseline = base,
                                      !.targetKnown = s.tips["staging"] # NoTree]]
  BY <1>2 DEF r
<1> HIDE DEF s, patch
<1>7. UNCHANGED remoteTarget
  BY DEF Finish
<1>8. CASE patch = base /\ wo[w].phase = "implement"
  <2> DEFINE row == [wo[w] EXCEPT !.at = "development_failed"]
  <2>1. /\ row \in Rows /\ row.at = "development_failed" /\ row.phase = wo[w].phase
        /\ row.baseline = wo[w].baseline /\ row.base = wo[w].base
        /\ row.reviewed = wo[w].reviewed /\ row.pushed = wo[w].pushed
    BY <1>1 DEF Rows, Stations, Idle
  <2>2. wo' = [wo EXCEPT ![w] = row] /\ repo' = [repo EXCEPT ![Space(w)] = s]
    BY <1>6, <1>8 DEF Fails
  <2> HIDE DEF row
  <2>3. Own(w, now, wo[w]) => OnlyOf(w, s.tree) /\ OnlyOf(w, s.index)
    BY <1>4, <1>5 DEF Own, OwnRepo
  <2> QED
    BY <1>1, <1>5, <1>7, <2>1, <2>2, <2>3, EditKeeps
<1>9. CASE ~(patch = base /\ wo[w].phase = "implement")
  <2> DEFINE row == [wo[w] EXCEPT !.at = "code_review", !.reviewed = patch,
                                  !.flagged = FALSE, !.baseline = base,
                                  !.targetKnown = s.tips["staging"] # NoTree]
  <2>1. /\ row \in Rows /\ row.at = "code_review" /\ row.phase = wo[w].phase
        /\ row.baseline = base /\ row.base = base
        /\ row.reviewed = patch /\ row.pushed = wo[w].pushed
    BY <1>1, <1>5 DEF Rows, Stations
  <2>2. wo' = [wo EXCEPT ![w] = row] /\ repo' = [repo EXCEPT ![Space(w)] = s]
    BY <1>6, <1>9
  <2> HIDE DEF row
  <2>3. Sound(s) /\ (OwnRepo(w, now) /\ OnlyOf(w, s.tree) /\ OnlyOf(w, s.index) => OwnRepo(w, s))
    BY <1>1, <1>5, Edited
  <2>4. Own(w, now, wo[w]) => Own(w, s, row)
    BY <1>4, <1>5, <2>1, <2>3 DEF Own, OwnRepo
  <2>5. Kept(w, now, wo[w]) => Kept(w, s, row)
    BY <1>1, <1>5, <1>9, <2>1 DEF Kept, BeforePublication
  <2>6. Follows(w, s, row)
    BY <1>1, <1>5, <1>7, <2>1, <2>2, <2>3, <2>4, <2>5 DEF Follows
  <2> QED
    BY <2>6, FollowsKeeps
<1> QED
  BY <1>8, <1>9

\* Decisions and resumptions move a work order on and touch nothing.
LEMMA MoveOnKeeps ==
    ASSUME CheckoutInv, NEW w \in WorkOrders,
           NEW row \in Rows, wo' = [wo EXCEPT ![w] = row], UNCHANGED <<repo, remoteTarget>>,
           \/ wo[w].at = "code_review" /\ row.at \in {"draft_review", "requeued"}
           \/ wo[w].at = "development_failed" /\ row.at = "requeued" /\ row.feedback = wo[w].feedback
           \/ wo[w].at = "publication_failed" /\ row.at = "publishing",
           row.phase = wo[w].phase, row.base = wo[w].base, row.baseline = wo[w].baseline,
           row.reviewed = wo[w].reviewed, row.flagged = wo[w].flagged, row.pushed = wo[w].pushed
    PROVE  CheckoutInv'
<1> DEFINE now == repo[Space(w)]
<1>1. Sound(now) /\ repo \in [Spaces -> Repos] /\ (now.head = "main" => AtMain(wo[w]))
  BY Facts
<1>2. repo' = [repo EXCEPT ![Space(w)] = now]
  BY <1>1
<1>3. now.head = "main" => AtMain(row)
  BY <1>1 DEF AtMain
<1>4. Own(w, now, wo[w]) => Own(w, now, row)
  BY DEF Own
<1>5. Kept(w, now, wo[w]) => Kept(w, now, row)
  BY DEF Kept, BeforePublication, FromReview
<1>6. Follows(w, now, row)
  BY <1>1, <1>2, <1>3, <1>4, <1>5 DEF Follows
<1> QED
  BY <1>6, FollowsKeeps

LEMMA DecisionKeeps ==
    ASSUME CheckoutInv, NEW w \in WorkOrders, ApproveReview(w) \/ RejectReview(w) \/ Resume(w)
    PROVE  CheckoutInv'
<1>1. wo[w] \in Rows
  BY Facts
<1>2. CASE ApproveReview(w)
  <2> DEFINE row == [wo[w] EXCEPT !.at = "draft_review"]
  <2>1. /\ row \in Rows /\ row.at = "draft_review" /\ row.phase = wo[w].phase
        /\ row.base = wo[w].base /\ row.baseline = wo[w].baseline /\ row.reviewed = wo[w].reviewed
        /\ row.flagged = wo[w].flagged /\ row.pushed = wo[w].pushed
    BY <1>1 DEF Rows, Stations
  <2>2. /\ wo[w].at = "code_review" /\ wo' = [wo EXCEPT ![w] = row]
        /\ UNCHANGED <<repo, remoteTarget>>
    BY <1>2 DEF ApproveReview
  <2> HIDE DEF row
  <2> QED
    BY <2>1, <2>2, MoveOnKeeps
<1>3. CASE RejectReview(w)
  <2> DEFINE row == [wo[w] EXCEPT !.at = "requeued", !.feedback = TRUE]
  <2>1. /\ row \in Rows /\ row.at = "requeued" /\ row.phase = wo[w].phase
        /\ row.base = wo[w].base /\ row.baseline = wo[w].baseline /\ row.reviewed = wo[w].reviewed
        /\ row.flagged = wo[w].flagged /\ row.pushed = wo[w].pushed
    BY <1>1 DEF Rows, Stations
  <2>2. /\ wo[w].at = "code_review" /\ wo' = [wo EXCEPT ![w] = row]
        /\ UNCHANGED <<repo, remoteTarget>>
    BY <1>3 DEF RejectReview
  <2> HIDE DEF row
  <2> QED
    BY <2>1, <2>2, MoveOnKeeps
<1>4. CASE Resume(w)
  <2> DEFINE at  == IF wo[w].at = "development_failed" THEN "requeued" ELSE "publishing"
             row == [wo[w] EXCEPT !.at = at]
  <2>1. at \in {"requeued", "publishing"}
    OBVIOUS
  <2>2. /\ wo[w].at \in {"development_failed", "publication_failed"}
        /\ wo' = [wo EXCEPT ![w] = row] /\ UNCHANGED <<repo, remoteTarget>>
    BY <1>4 DEF Resume
  <2>3. /\ wo[w].at = "development_failed" => at = "requeued"
        /\ wo[w].at = "publication_failed" => at = "publishing"
    OBVIOUS
  <2> HIDE DEF at
  <2>4. /\ row \in Rows /\ row.at = at /\ row.phase = wo[w].phase /\ row.feedback = wo[w].feedback
        /\ row.base = wo[w].base /\ row.baseline = wo[w].baseline /\ row.reviewed = wo[w].reviewed
        /\ row.flagged = wo[w].flagged /\ row.pushed = wo[w].pushed
    BY <1>1, <2>1 DEF Rows, Stations
  <2> HIDE DEF row
  <2> QED
    BY <2>2, <2>3, <2>4, MoveOnKeeps
<1> QED
  BY <1>2, <1>3, <1>4

LEMMA ApproveDraftKeeps ==
    ASSUME CheckoutInv, NEW w \in WorkOrders, ApproveDraft(w) PROVE CheckoutInv'
<1> DEFINE now == repo[Space(w)]
           a == AfterMergeCheck(now)
           conflict == ~TargetRefused(now) /\ Conflicts(ResolveTarget(now))
<1>1. /\ wo[w] \in Rows /\ Sound(now) /\ wo[w].at = "draft_review" /\ now.head # "main"
  BY Facts DEF ApproveDraft, AtMain
<1>2. /\ Sound(a) /\ a.head \in {now.head, "staging"}
      /\ \A x \in Branches \ {"staging"} : a.tips[x] = now.tips[x]
      /\ OwnRepo(w, now) => OwnRepo(w, a)
      /\ Tip(now) = StagingTree => a.tree = now.tree
  BY <1>1, MergeCheckEffect
<1>3. /\ repo' = [repo EXCEPT ![Space(w)] = a] /\ UNCHANGED remoteTarget
      /\ wo' = IF conflict THEN [wo EXCEPT ![w] = [wo[w] EXCEPT !.at = "requeued", !.phase = "merge"]]
               ELSE [wo EXCEPT ![w] = [wo[w] EXCEPT !.at = "publishing"]]
  BY DEF ApproveDraft
<1>4. ASSUME "drift" \notin Environment, Kept(w, now, wo[w])
      PROVE  /\ Tip(now) = Pristine /\ StagingTree = Pristine /\ ~conflict
             /\ wo[w].pushed = NoTree /\ wo[w].phase = "implement"
  <2>1. now.head \in Branches /\ Tip(now) \in Trees
    BY <1>1 DEF Sound, Repos
  <2>2. Tip(now) = Pristine
    BY <1>1, <1>4, <2>1, Names DEF Kept, BeforePublication, Tip
  <2> QED
    BY <1>1, <1>4, <2>2, NoConflict, TeamTrees DEF Kept
<1> HIDE DEF a, conflict
<1>5. a.head # "main"
  BY <1>1, <1>2, Names
<1>6. CASE conflict
  <2> DEFINE row == [wo[w] EXCEPT !.at = "requeued", !.phase = "merge"]
  <2>1. /\ row \in Rows /\ row.base = wo[w].base /\ row.baseline = wo[w].baseline
        /\ row.reviewed = wo[w].reviewed /\ row.pushed = wo[w].pushed
    BY <1>1 DEF Rows, Stations, Phases
  <2>2. wo' = [wo EXCEPT ![w] = row]
    BY <1>3, <1>6
  <2> HIDE DEF row
  <2>3. Own(w, now, wo[w]) => Own(w, a, row)
    BY <1>2, <2>1 DEF Own
  <2>4. Follows(w, a, row)
    BY <1>2, <1>3, <1>4, <1>5, <1>6, <2>1, <2>2, <2>3 DEF Follows
  <2> QED
    BY <2>4, FollowsKeeps
<1>7. CASE ~conflict
  <2> DEFINE row == [wo[w] EXCEPT !.at = "publishing"]
  <2>1. /\ row \in Rows /\ row.base = wo[w].base /\ row.baseline = wo[w].baseline
        /\ row.reviewed = wo[w].reviewed /\ row.pushed = wo[w].pushed
        /\ row.at = "publishing" /\ row.phase = wo[w].phase /\ row.flagged = wo[w].flagged
    BY <1>1 DEF Rows, Stations
  <2>2. wo' = [wo EXCEPT ![w] = row]
    BY <1>3, <1>7
  <2> HIDE DEF row
  <2>3. Own(w, now, wo[w]) => Own(w, a, row)
    BY <1>2, <2>1 DEF Own
  <2>4. ASSUME "drift" \notin Environment, Kept(w, now, wo[w]) PROVE Kept(w, a, row)
    <3>1. a.tree = now.tree
      BY <1>2, <1>4, <2>4
    <3>2. a.head = w => now.head = w
      BY <1>2, Names
    <3> QED
      BY <1>1, <1>4, <2>1, <2>4, <3>1, <3>2 DEF Kept, BeforePublication, FromReview
  <2>5. Follows(w, a, row)
    BY <1>2, <1>3, <1>5, <2>1, <2>2, <2>3, <2>4 DEF Follows
  <2> QED
    BY <2>5, FollowsKeeps
<1> QED
  BY <1>6, <1>7

LEMMA PublishKeeps ==
    ASSUME CheckoutInv, NEW w \in WorkOrders, Publish(w) PROVE CheckoutInv'
<1> DEFINE now == repo[Space(w)]
           c == CommitAll(now)
<1>1. /\ wo[w] \in Rows /\ Sound(now) /\ wo[w].at = "publishing" /\ now.head # "main"
      /\ repo \in [Spaces -> Repos] /\ now \in Repos /\ now.tree \in Trees
  BY Facts DEF Publish, AtMain, Repos
<1>2. UNCHANGED remoteTarget
  BY DEF Publish
<1> DEFINE failed == [wo[w] EXCEPT !.at = "publication_failed"]
           done   == [wo[w] EXCEPT !.at = "published", !.pushed = c.tips[w]]
<1>3. \/ /\ now.head = w /\ repo' = [repo EXCEPT ![Space(w)] = c]
         /\ wo' = [wo EXCEPT ![w] = done] \/ wo' = [wo EXCEPT ![w] = failed]
      \/ repo' = repo /\ wo' = [wo EXCEPT ![w] = failed]
  BY DEF Publish, OnDeliveryBranch
<1>4. now.head = w => /\ Sound(c) /\ c.head = w /\ c.tree = now.tree /\ c.tips[w] = now.tree
                      /\ OwnRepo(w, now) => OwnRepo(w, c)
  BY <1>1, CommitEffect, Names
<1>5. /\ failed \in Rows /\ failed.at = "publication_failed" /\ failed.phase = wo[w].phase
      /\ failed.base = wo[w].base /\ failed.baseline = wo[w].baseline
      /\ failed.reviewed = wo[w].reviewed /\ failed.flagged = wo[w].flagged
      /\ failed.pushed = wo[w].pushed
  BY <1>1 DEF Rows, Stations, Idle
<1>6. now.head = w =>
      /\ done \in Rows /\ done.at = "published" /\ done.phase = wo[w].phase
      /\ done.base = wo[w].base /\ done.baseline = wo[w].baseline
      /\ done.reviewed = wo[w].reviewed /\ done.flagged = wo[w].flagged
      /\ done.pushed = now.tree
  BY <1>1, <1>4 DEF Rows, Stations, Idle
<1> HIDE DEF c, failed, done
<1>7. CASE now.head = w /\ repo' = [repo EXCEPT ![Space(w)] = c] /\ wo' = [wo EXCEPT ![w] = done]
  <2>1. Own(w, now, wo[w]) => Own(w, c, done)
    BY <1>4, <1>6, <1>7 DEF Own, OwnRepo
  <2>2. Kept(w, now, wo[w]) => Kept(w, c, done)
    BY <1>1, <1>4, <1>6, <1>7 DEF Kept, BeforePublication, FromReview
  <2>3. Follows(w, c, done)
    BY <1>1, <1>2, <1>4, <1>6, <1>7, <2>1, <2>2 DEF Follows
  <2> QED
    BY <2>3, FollowsKeeps
<1>8. CASE now.head = w /\ repo' = [repo EXCEPT ![Space(w)] = c] /\ wo' = [wo EXCEPT ![w] = failed]
  <2>1. Own(w, now, wo[w]) => Own(w, c, failed)
    BY <1>4, <1>5, <1>8 DEF Own
  <2>2. Kept(w, now, wo[w]) => Kept(w, c, failed)
    BY <1>1, <1>4, <1>5, <1>8 DEF Kept, BeforePublication, FromReview
  <2>3. Follows(w, c, failed)
    BY <1>1, <1>2, <1>4, <1>5, <1>8, <2>1, <2>2 DEF Follows
  <2> QED
    BY <2>3, FollowsKeeps
<1>9. CASE repo' = repo /\ wo' = [wo EXCEPT ![w] = failed]
  <2>1. repo' = [repo EXCEPT ![Space(w)] = now]
    BY <1>1, <1>9
  <2>2. Own(w, now, wo[w]) => Own(w, now, failed)
    BY <1>5 DEF Own
  <2>3. Kept(w, now, wo[w]) => Kept(w, now, failed)
    BY <1>1, <1>5 DEF Kept, BeforePublication, FromReview
  <2>4. Follows(w, now, failed)
    BY <1>1, <1>2, <1>5, <1>9, <2>1, <2>2, <2>3 DEF Follows
  <2> QED
    BY <2>4, FollowsKeeps
<1> QED
  BY <1>3, <1>7, <1>8, <1>9

LEMMA RefreshKeeps == ASSUME CheckoutInv, Refresh PROVE CheckoutInv'
<1> DEFINE now == repo["shared"]
           e == ResetHard(now)
<1>1. /\ Managed /\ now.head \in {"main", "staging"} /\ repo' = [repo EXCEPT !["shared"] = e]
      /\ UNCHANGED <<remoteTarget, wo>>
  BY DEF Refresh
<1>2. Spaces = {"shared"} /\ \A w \in WorkOrders : Space(w) = "shared"
  BY <1>1 DEF Spaces, Space
<1>3. Sound(now) /\ repo \in [Spaces -> Repos]
  BY <1>2 DEF CheckoutInv
<1>4. /\ Sound(e) /\ e \in Repos /\ e.head = now.head /\ e.tips = now.tips
      /\ \A w \in WorkOrders : OwnRepo(w, now) => OwnRepo(w, e)
  BY <1>3, ResetEffect DEF Sound
<1> HIDE DEF e
<1>5. repo'["shared"] = e /\ repo' \in [Spaces -> Repos]
  BY <1>1, <1>2, <1>3, <1>4
<1>6. ASSUME NEW w \in WorkOrders, Own(w, now, wo[w]) PROVE Own(w, e, wo[w])
  BY <1>4, <1>6 DEF Own
<1>7. ASSUME NEW w \in WorkOrders, Kept(w, now, wo[w]) PROVE Kept(w, e, wo[w])
  BY <1>1, <1>4, <1>7, Names DEF Kept
<1>8. wo' = wo /\ remoteTarget' = remoteTarget
  BY <1>1
<1> QED
  BY <1>2, <1>4, <1>5, <1>6, <1>7, <1>8 DEF CheckoutInv

LEMMA NextKeeps == ASSUME CheckoutInv, [Next]_vars PROVE CheckoutInv'
<1>1. CASE Refresh
  BY <1>1, RefreshKeeps
<1>2. CASE TargetAppears
  <2>1. repo' = repo /\ wo' = wo /\ remoteTarget' = TRUE
    BY <1>2 DEF TargetAppears
  <2> QED
    BY <2>1 DEF CheckoutInv
<1>3. ASSUME NEW w \in WorkOrders, Prepare(w) PROVE CheckoutInv'
  BY <1>3, PrepareFreshKeeps, PrepareReusedKeeps DEF Prepare
<1>4. ASSUME NEW w \in WorkOrders,
             \/ WriteFile(w) \/ RunCommand(w) \/ DeniedCommand(w) \/ MergeTarget(w)
             \/ LeaveWorkspace(w) \/ AgentFails(w) \/ FinishBlocked(w) \/ Finish(w)
      PROVE  CheckoutInv'
  BY <1>4, WriteFileKeeps, RunCommandKeeps, GuardStopKeeps, MergeTargetKeeps,
     FinishBlockedKeeps, FinishKeeps
<1>5. ASSUME NEW w \in WorkOrders,
             \/ ApproveReview(w) \/ RejectReview(w) \/ ApproveDraft(w) \/ Publish(w) \/ Resume(w)
      PROVE  CheckoutInv'
  BY <1>5, DecisionKeeps, ApproveDraftKeeps, PublishKeeps
<1>6. CASE UNCHANGED vars
  <2>1. repo' = repo /\ wo' = wo /\ remoteTarget' = remoteTarget
    BY <1>6 DEF vars
  <2> QED
    BY <2>1 DEF CheckoutInv
<1> QED
  BY <1>1, <1>2, <1>3, <1>4, <1>5, <1>6 DEF Next

LEMMA CheckoutAlways == Spec => []CheckoutInv
<1>1. Init => CheckoutInv
  BY InitKeeps
<1>2. CheckoutInv /\ [Next]_vars => CheckoutInv'
  BY NextKeeps
<1> QED
  BY <1>1, <1>2, PTL DEF Spec

\* Checkouts and work orders stay well formed.
THEOREM TypeCorrect == Spec => []TypeOK
<1>1. CheckoutInv => TypeOK
  BY DEF CheckoutInv, TypeOK, Repos, Rows
<1> QED
  BY <1>1, CheckoutAlways, PTL

\* No delivery is ever committed on the integration branch or on the merge target,
\* whatever fails or gets in between, and however many work orders share a checkout.
THEOREM BranchesStayClean == Spec => []IntegrationStaysClean
<1>1. ASSUME CheckoutInv, NEW s \in DOMAIN repo, NEW b \in {"main", "staging"},
             repo[s].tips[b] # NoTree, NEW p \in Paths
      PROVE  repo[s].tips[b][p] \cap WorkOrders = {}
  <2>1. Sound(repo[s])
    BY <1>1 DEF CheckoutInv
  <2>2. repo[s].tips[b] \in {MainTree, StagingTree}
    BY <1>1, <2>1 DEF Sound
  <2> QED
    BY <2>2, TeamTrees
<1>2. CheckoutInv => IntegrationStaysClean
  BY <1>1 DEF IntegrationStaysClean
<1> QED
  BY <1>2, CheckoutAlways, PTL

\* A work order that has a checkout of its own is never reviewed or published with the
\* work of another, whatever fails and whatever the merge target does.
THEOREM OwnCheckoutIsOwn == ASSUME OwnSpaces PROVE Spec => []PatchIsOwn
<1>1. ASSUME CheckoutInv, NEW w \in DOMAIN wo, NEW p \in Paths
      PROVE  /\ wo[w].reviewed[p] \cap WorkOrders \subseteq {w}
             /\ wo[w].pushed # NoTree => wo[w].pushed[p] \cap WorkOrders \subseteq {w}
  <2>1. w \in WorkOrders /\ wo[w] \in Rows
    BY <1>1 DEF CheckoutInv
  <2>2. OnlyOf(w, wo[w].reviewed) /\ OnlyOf(w, wo[w].pushed)
    BY <1>1, <2>1, OwnSpaces DEF CheckoutInv, Own
  <2>3. wo[w].reviewed # NoTree
    BY <2>1, Names DEF Rows
  <2> QED
    BY <2>2, <2>3 DEF OnlyOf
<1>2. CheckoutInv => PatchIsOwn
  BY <1>1 DEF PatchIsOwn
<1> QED
  BY <1>2, CheckoutAlways, PTL

\* ... and what is pushed for it is what its human reviewed, as long as the integration
\* branch and the merge target agree.
THEOREM ReviewedIsPublished ==
    ASSUME OwnSpaces, "drift" \notin Environment PROVE Spec => []PublishesWhatWasReviewed
<1>1. ASSUME CheckoutInv, NEW w \in DOMAIN wo, wo[w].pushed # NoTree, ~wo[w].flagged
      PROVE  wo[w].pushed = wo[w].reviewed
  <2>1. w \in WorkOrders
    BY <1>1 DEF CheckoutInv
  <2> QED
    BY <1>1, <2>1, OwnSpaces, "drift" \notin Environment DEF CheckoutInv, Kept
<1>2. CheckoutInv => PublishesWhatWasReviewed
  BY <1>1 DEF PublishesWhatWasReviewed
<1> QED
  BY <1>2, CheckoutAlways, PTL

-----------------------------------------------------------------------------
(* Work orders that take turns in one checkout. *)

\* A checkout LivingColor manages, one active work order at a time, no run that breaks
\* off half-way, and a merge target that is the integration branch's equal from the start.
InTurns ==
    /\ Managed
    /\ Environment \cap {"agent_failure", "block", "late_target", "overlap", "drift"} = {}

\* The checkout is on w's branch with nothing committed, and what is changed is w's.
Ours(w, r) ==
    /\ r.head = w /\ Tip(r) = Pristine
    /\ OnlyOf(w, r.tree) /\ OnlyOf(w, r.index)

\* What a work order knows is its own ...
KnowsItsOwn(w, r, row) ==
    /\ OnlyOf(w, r.tips[w]) /\ OnlyOf(w, row.reviewed) /\ OnlyOf(w, row.pushed)
    /\ row.phase = "implement" /\ row.guard # "blocked"
    /\ row.baseline \in {NoTree, Pristine} /\ row.base = Pristine
    /\ row.at = "queued" => ~row.feedback /\ row.baseline = NoTree
    /\ row.at = "development_failed" => row.baseline = NoTree
    /\ row.pushed # NoTree => /\ row.at = "published"
                              /\ ~row.flagged => row.pushed = row.reviewed

\* ... and while it is active so is the checkout.
HasItsOwn(w, r, row) ==
    /\ row.at = "requeued" => \/ Clean(r) /\ row.baseline = NoTree
                              \/ Ours(w, r) /\ row.feedback
    /\ row.at \in {"developing", "code_review", "draft_review"} => Ours(w, r)
    /\ row.at = "publishing" => IF r.head = w THEN OnlyOf(w, r.tree) ELSE Clean(r)
    /\ row.at \in {"requeued", "developing", "code_review", "draft_review"} =>
           (row.baseline # NoTree => r.tree # Pristine)
    /\ row.at \in {"code_review", "draft_review"} /\ ~row.flagged => r.tree = row.reviewed
    /\ row.at \in {"publishing", "publication_failed"} /\ ~row.flagged /\ r.head = w =>
           r.tree = row.reviewed

\* Between two turns nothing is left in the checkout, and it is on a delivery branch
\* from the first turn on.
TurnInv ==
    /\ \A u, w \in WorkOrders : wo[u].at \notin Idle /\ wo[w].at \notin Idle => u = w
    /\ (\A w \in WorkOrders : wo[w].at \in Idle) => Clean(repo["shared"])
    /\ repo["shared"].head \notin WorkOrders => \A w \in WorkOrders : wo[w].at = "queued"
    /\ (\E w \in WorkOrders : wo[w].at # "queued") => ~TargetIsRemote(repo["shared"])
    /\ \A w \in WorkOrders : /\ KnowsItsOwn(w, repo["shared"], wo[w])
                             /\ HasItsOwn(w, repo["shared"], wo[w])

OthersIdle(w) == \A u \in WorkOrders \ {w} : wo[u].at \in Idle

\* A step of the work order whose turn it is keeps this when what it leaves is its own.
LEMMA TurnStep ==
    ASSUME InTurns, CheckoutInv, TurnInv, NEW w \in WorkOrders, OthersIdle(w),
           NEW e, NEW row,
           repo' = [repo EXCEPT !["shared"] = e], wo' = [wo EXCEPT ![w] = row],
           UNCHANGED remoteTarget,
           e.head = w \/ (e = repo["shared"] /\ e.head \in WorkOrders),
           \A x \in WorkOrders \ {w} : e.tips[x] = repo["shared"].tips[x],
           ~TargetIsRemote(e),
           row.at # "queued", row.at \in Idle => Clean(e),
           KnowsItsOwn(w, e, row), HasItsOwn(w, e, row)
    PROVE  TurnInv'
<1> DEFINE r == repo["shared"]
<1>1. /\ repo'["shared"] = e
      /\ \A u \in WorkOrders : wo'[u] = IF u = w THEN row ELSE wo[u]
  BY DEF CheckoutInv, InTurns, Spaces
<1>2. \A u, v \in WorkOrders : wo'[u].at \notin Idle /\ wo'[v].at \notin Idle => u = v
  BY <1>1 DEF OthersIdle
<1>3. (\A u \in WorkOrders : wo'[u].at \in Idle) => Clean(e)
  BY <1>1
<1>4. e.head \in WorkOrders
  OBVIOUS
<1>5. ASSUME NEW u \in WorkOrders
      PROVE  KnowsItsOwn(u, e, wo'[u]) /\ HasItsOwn(u, e, wo'[u])
  <2>1. CASE u = w
    BY <1>1, <2>1
  <2>2. CASE u # w
    <3>1. /\ wo'[u] = wo[u] /\ wo[u].at \in Idle /\ e.tips[u] = r.tips[u]
          /\ KnowsItsOwn(u, r, wo[u]) /\ HasItsOwn(u, r, wo[u])
      BY <1>1, <2>2 DEF OthersIdle, TurnInv
    <3>2. KnowsItsOwn(u, e, wo[u])
      BY <3>1 DEF KnowsItsOwn
    <3>3. HasItsOwn(u, e, wo[u])
      <4>1. CASE e = r
        BY <3>1, <4>1
      <4>2. CASE e.head = w
        BY <2>2, <3>1, <4>2 DEF HasItsOwn, Idle
      <4> QED
        BY <4>1, <4>2
    <3> QED
      BY <3>1, <3>2, <3>3
  <2> QED
    BY <2>1, <2>2
<1>6. ~TargetIsRemote(e)'
  BY DEF TargetIsRemote
<1>7. TargetIsRemote(repo["shared"])' = TargetIsRemote(e)'
  BY <1>1 DEF TargetIsRemote
<1> QED
  BY <1>1, <1>2, <1>3, <1>4, <1>5, <1>6, <1>7 DEF TurnInv

\* What holds of the work order whose turn it is.
LEMMA TurnFacts ==
    ASSUME InTurns, CheckoutInv, TurnInv, NEW w \in WorkOrders
    PROVE  /\ Space(w) = "shared" /\ Sound(repo["shared"]) /\ repo["shared"] \in Repos
           /\ repo \in [Spaces -> Repos] /\ Spaces = {"shared"}
           /\ wo[w] \in Rows /\ wo \in [WorkOrders -> Rows]
           /\ MainTree = Pristine /\ StagingTree = Pristine /\ Pristine \in Trees
           /\ KnowsItsOwn(w, repo["shared"], wo[w]) /\ HasItsOwn(w, repo["shared"], wo[w])
           /\ wo[w].at \notin Idle => OthersIdle(w)
           /\ OthersIdle(w) /\ wo[w].at \in Idle => Clean(repo["shared"])
           /\ wo[w].at # "queued" => /\ ~TargetIsRemote(repo["shared"])
                                     /\ repo["shared"].head \in WorkOrders
           /\ \A paths : OutOfScope(paths) = {}
<1>1. Space(w) = "shared" /\ Spaces = {"shared"} /\ \A paths : OutOfScope(paths) = {}
  BY DEF InTurns, Space, Spaces, OutOfScope
<1>2. Sound(repo["shared"]) /\ repo \in [Spaces -> Repos] /\ wo \in [WorkOrders -> Rows]
  BY <1>1 DEF CheckoutInv
<1>3. MainTree = Pristine /\ StagingTree = Pristine /\ Pristine \in Trees
  BY TeamTrees DEF InTurns
<1>4. wo[w].at \notin Idle => OthersIdle(w)
  BY DEF TurnInv, OthersIdle
<1>5. OthersIdle(w) /\ wo[w].at \in Idle => Clean(repo["shared"])
  BY DEF TurnInv, OthersIdle
<1> QED
  BY <1>1, <1>2, <1>3, <1>4, <1>5 DEF TurnInv, Sound

LEMMA TurnInit == ASSUME InTurns, Init PROVE TurnInv
<1>1. CheckoutInv
  BY InitKeeps
<1>2. repo["shared"] = Clone
  BY DEF Init, InTurns, Spaces
<1>3. \A w \in WorkOrders :
         /\ wo[w].at = "queued" /\ wo[w].phase = "implement" /\ wo[w].guard = "open"
         /\ ~wo[w].feedback /\ wo[w].baseline = NoTree /\ wo[w].pushed = NoTree
         /\ wo[w].base = MainTree /\ wo[w].reviewed = MainTree
  BY DEF Init
<1>4. MainTree = Pristine
  BY TeamTrees DEF InTurns
<1>5. ASSUME NEW w \in WorkOrders PROVE KnowsItsOwn(w, Clone, wo[w]) /\ HasItsOwn(w, Clone, wo[w])
  <2>1. OnlyOf(w, Clone.tips[w])
    BY CloneIsSound, Names DEF OwnRepo
  <2>2. OnlyOf(w, wo[w].reviewed) /\ OnlyOf(w, wo[w].pushed)
    BY <1>3, TeamTrees DEF OnlyOf
  <2> QED
    BY <1>3, <1>4, <2>1, <2>2 DEF KnowsItsOwn, HasItsOwn
<1> QED
  BY <1>2, <1>3, <1>5, CloneIsSound DEF TurnInv, Idle

LEMMA TurnPrepare ==
    ASSUME InTurns, CheckoutInv, TurnInv, NEW w \in WorkOrders, Prepare(w) PROVE TurnInv'
<1> DEFINE r == repo["shared"]
<1>1. OthersIdle(w) /\ wo[w].at \in {"queued", "requeued"} /\ UNCHANGED remoteTarget
  BY DEF Prepare, Alone, InTurns, OthersIdle
<1>2. /\ Space(w) = "shared" /\ Sound(r) /\ r \in Repos /\ wo[w] \in Rows
      /\ MainTree = Pristine /\ StagingTree = Pristine /\ Pristine \in Trees
      /\ KnowsItsOwn(w, r, wo[w]) /\ HasItsOwn(w, r, wo[w])
      /\ wo[w].at = "queued" => Clean(r)
  BY <1>1, TurnFacts DEF Idle
<1>3. CASE PrepareFresh(w)
  <2> DEFINE d == EnsureDeliveryBranch(r, w)
             row == [wo[w] EXCEPT !.at = "developing", !.base = Tip(d), !.guard = "open"]
  <2>1. FreshCheckout(w) = r
    BY DEF FreshCheckout, InTurns
  <2>2. wo[w].baseline = NoTree /\ (Clean(r) \/ Ours(w, r))
    BY <1>1, <1>2, <1>3
       DEF PrepareFresh, ReusesWorkspace, KnowsItsOwn, HasItsOwn
  <2>3. /\ Sound(d) /\ d.head = w /\ Tip(d) = Pristine
        /\ \A x \in Branches \ {"staging", w} : d.tips[x] = r.tips[x]
        /\ d.tips[w] = Pristine /\ ~TargetIsRemote(d)
    BY <1>2, EnsureEffect
  <2>4. /\ Tip(r) = Pristine => ~EnsureRefused(r) /\ d.tree = r.tree /\ d.index = r.index
        /\ Clean(r) => ~EnsureRefused(r) /\ Clean(d)
    BY <1>2, EnsureKeeps
  <2>5. ~EnsureRefused(r)
    BY <2>2, <2>4 DEF Ours
  <2>6. /\ repo' = [repo EXCEPT !["shared"] = d]
        /\ wo' = [wo EXCEPT ![w] = row]
    BY <1>2, <1>3, <2>1, <2>5 DEF PrepareFresh, StartRun
  <2> HIDE DEF d
  <2>7. /\ row.at = "developing" /\ row.phase = wo[w].phase /\ row.guard = "open"
        /\ row.baseline = wo[w].baseline /\ row.feedback = wo[w].feedback
        /\ row.base = Pristine /\ row.reviewed = wo[w].reviewed
        /\ row.pushed = wo[w].pushed /\ row.flagged = wo[w].flagged
    BY <1>2, <2>3 DEF Rows
  <2> HIDE DEF row
  <2>8. OnlyOf(w, Pristine)
    BY TeamTrees DEF OnlyOf
  <2>9. Ours(w, d)
    <3>1. CASE Clean(r)
      BY <2>3, <2>4, <2>8, <3>1 DEF Ours, Clean
    <3>2. CASE Ours(w, r)
      BY <2>3, <2>4, <3>2 DEF Ours
    <3> QED
      BY <2>2, <3>1, <3>2
  <2>10. KnowsItsOwn(w, d, row)
    BY <1>1, <1>2, <2>3, <2>7, <2>8 DEF KnowsItsOwn
  <2>11. HasItsOwn(w, d, row)
    BY <2>2, <2>7, <2>9 DEF HasItsOwn
  <2>12. \A x \in WorkOrders \ {w} : d.tips[x] = r.tips[x]
    BY <2>3, Names
  <2>13. row.at \notin Idle
    BY <2>7 DEF Idle
  <2> QED
    BY <1>1, <2>3, <2>6, <2>7, <2>10, <2>11, <2>12, <2>13, TurnStep
<1>4. CASE PrepareReused(w)
  <2>1. /\ wo[w].feedback /\ wo[w].baseline = Pristine /\ wo[w].at = "requeued"
        /\ wo[w].baseline # NoTree
    BY <1>1, <1>2, <1>4 DEF PrepareReused, ReusesWorkspace, KnowsItsOwn
  <2>2. Ours(w, r) /\ r.tree # Pristine
    BY <1>2, <2>1 DEF HasItsOwn
  <2>3. ~TargetIsRemote(r)
    BY <2>1, TurnFacts
  <2>4. ~TargetRefused(r) /\ ResolveTarget(r) = r
    BY <2>3 DEF TargetRefused, ResolveTarget
  <2> DEFINE row == [wo[w] EXCEPT !.at = "developing", !.base = Pristine, !.guard = "open"]
  <2>5. /\ repo' = [repo EXCEPT !["shared"] = r]
        /\ wo' = [wo EXCEPT ![w] = row]
    BY <1>2, <1>4, <2>1, <2>4 DEF PrepareReused, StartRun
  <2>6. /\ row.at = "developing" /\ row.phase = wo[w].phase /\ row.guard = "open"
        /\ row.baseline = wo[w].baseline /\ row.feedback = wo[w].feedback
        /\ row.base = Pristine /\ row.reviewed = wo[w].reviewed
        /\ row.pushed = wo[w].pushed /\ row.flagged = wo[w].flagged
    BY <1>2 DEF Rows
  <2> HIDE DEF row
  <2>7. KnowsItsOwn(w, r, row)
    BY <1>2, <2>1, <2>6 DEF KnowsItsOwn
  <2>8. HasItsOwn(w, r, row)
    BY <2>2, <2>6 DEF HasItsOwn
  <2>9. row.at \notin Idle
    BY <2>6 DEF Idle
  <2> QED
    BY <1>1, <2>2, <2>3, <2>5, <2>6, <2>7, <2>8, <2>9, TurnStep DEF Ours
<1> QED
  BY <1>3, <1>4 DEF Prepare

\* What w does to its files is its own.
LEMMA TurnChange ==
    ASSUME NEW w \in WorkOrders, NEW r \in Repos, Ours(w, r), NEW p \in Paths
    PROVE  /\ Ours(w, Change(r, w, p)) /\ Change(r, w, p) \in Repos
           /\ Change(r, w, p).tips = r.tips /\ Change(r, w, p).tree # Pristine
           /\ TargetIsRemote(Change(r, w, p)) = TargetIsRemote(r)
<1> DEFINE c == Change(r, w, p)
<1>1. /\ c \in Repos /\ c.head = r.head /\ c.tips = r.tips /\ c.index = r.index
      /\ \A x \in Paths : c.tree[x] = IF x = p THEN r.tree[x] \cup {w} ELSE r.tree[x]
      /\ OnlyOf(w, r.tree) => OnlyOf(w, c.tree)
  BY ChangeEffect
<1> HIDE DEF c
<1>2. w \in c.tree[p]
  BY <1>1
<1>3. c.tree # Pristine
  BY <1>2, TeamTrees
<1>4. Ours(w, c)
  BY <1>1 DEF Ours, Tip
<1> QED
  BY <1>1, <1>3, <1>4 DEF TargetIsRemote, c

LEMMA TurnEdit ==
    ASSUME InTurns, CheckoutInv, TurnInv, NEW w \in WorkOrders, WriteFile(w) \/ RunCommand(w)
    PROVE  TurnInv'
<1> DEFINE r == repo["shared"]
<1>1. wo[w].at = "developing" /\ UNCHANGED remoteTarget
  BY DEF WriteFile, RunCommand, Working
<1>2. /\ Space(w) = "shared" /\ Sound(r) /\ r \in Repos
      /\ KnowsItsOwn(w, r, wo[w]) /\ HasItsOwn(w, r, wo[w]) /\ wo[w].at \notin Idle
      /\ OthersIdle(w) /\ ~TargetIsRemote(r) /\ wo \in [WorkOrders -> Rows]
      /\ \A paths : OutOfScope(paths) = {}
  BY <1>1, TurnFacts DEF Idle
<1>3. PICK p \in Paths : repo' = [repo EXCEPT !["shared"] = Change(r, w, p)] /\ wo' = wo
  <2>1. CASE WriteFile(w)
    BY <1>2, <2>1 DEF WriteFile
  <2>2. CASE RunCommand(w)
    BY <1>2, <2>2 DEF RunCommand
  <2> QED
    BY <2>1, <2>2
<1>4. Ours(w, r)
  BY <1>1, <1>2 DEF HasItsOwn
<1> DEFINE c == Change(r, w, p)
<1>5. Ours(w, c) /\ c.tips = r.tips /\ c.tree # Pristine /\ ~TargetIsRemote(c)
  BY <1>2, <1>4, TurnChange
<1> HIDE DEF c
<1>6. KnowsItsOwn(w, c, wo[w]) /\ HasItsOwn(w, c, wo[w])
  BY <1>1, <1>2, <1>5 DEF KnowsItsOwn, HasItsOwn
<1>7. wo' = [wo EXCEPT ![w] = wo[w]] /\ repo' = [repo EXCEPT !["shared"] = c]
  BY <1>2, <1>3 DEF c
<1> QED
  BY <1>1, <1>2, <1>5, <1>6, <1>7, TurnStep DEF Ours

LEMMA TurnStop ==
    ASSUME InTurns, CheckoutInv, TurnInv, NEW w \in WorkOrders, LeaveWorkspace(w) \/ FinishBlocked(w)
    PROVE  TurnInv'
<1> DEFINE r == repo["shared"]
<1>1. wo[w].at = "developing" /\ UNCHANGED remoteTarget
  BY DEF LeaveWorkspace, FinishBlocked, Working
<1>2. /\ wo[w] \in Rows /\ repo \in [Spaces -> Repos] /\ Spaces = {"shared"}
      /\ KnowsItsOwn(w, r, wo[w]) /\ HasItsOwn(w, r, wo[w])
      /\ OthersIdle(w) /\ ~TargetIsRemote(r)
  BY <1>1, TurnFacts DEF Idle
<1>3. Ours(w, r)
  BY <1>1, <1>2 DEF HasItsOwn
<1>4. CASE LeaveWorkspace(w)
  <2> DEFINE row == [wo[w] EXCEPT !.guard = "halted"]
  <2>1. /\ row.at = "developing" /\ row.phase = wo[w].phase /\ row.guard = "halted"
        /\ row.baseline = wo[w].baseline /\ row.feedback = wo[w].feedback
        /\ row.base = wo[w].base /\ row.reviewed = wo[w].reviewed
        /\ row.pushed = wo[w].pushed /\ row.flagged = wo[w].flagged
    BY <1>1, <1>2 DEF Rows
  <2>2. wo' = [wo EXCEPT ![w] = row] /\ repo' = [repo EXCEPT !["shared"] = r]
    BY <1>2, <1>4 DEF LeaveWorkspace
  <2> HIDE DEF row
  <2>3. KnowsItsOwn(w, r, row) /\ HasItsOwn(w, r, row) /\ row.at \notin Idle
    BY <1>1, <1>2, <2>1 DEF KnowsItsOwn, HasItsOwn, Idle
  <2> QED
    BY <1>1, <1>2, <1>3, <2>1, <2>2, <2>3, TurnStep DEF Ours
<1>5. CASE FinishBlocked(w)
  <2> DEFINE row == [wo[w] EXCEPT !.at = "code_review", !.reviewed = wo[w].base, !.flagged = TRUE]
  <2>1. /\ row.at = "code_review" /\ row.phase = wo[w].phase /\ row.guard = wo[w].guard
        /\ row.baseline = wo[w].baseline /\ row.feedback = wo[w].feedback
        /\ row.base = wo[w].base /\ row.reviewed = wo[w].base
        /\ row.pushed = wo[w].pushed /\ row.flagged
    BY <1>2 DEF Rows
  <2>2. wo' = [wo EXCEPT ![w] = row] /\ repo' = [repo EXCEPT !["shared"] = r]
    <3>1. wo[w].guard # "blocked"
      BY <1>2 DEF KnowsItsOwn
    <3> QED
      BY <1>2, <1>5, <3>1 DEF FinishBlocked, OpenCodeReview
  <2> HIDE DEF row
  <2>3. OnlyOf(w, wo[w].base)
    BY <1>2, TeamTrees DEF KnowsItsOwn, OnlyOf
  <2>4. KnowsItsOwn(w, r, row) /\ HasItsOwn(w, r, row) /\ row.at \notin Idle
    BY <1>1, <1>2, <2>1, <2>3 DEF KnowsItsOwn, HasItsOwn, Idle
  <2> QED
    BY <1>1, <1>2, <1>3, <2>1, <2>2, <2>4, TurnStep DEF Ours
<1> QED
  BY <1>4, <1>5

LEMMA TurnFinish ==
    ASSUME InTurns, CheckoutInv, TurnInv, NEW w \in WorkOrders, Finish(w) PROVE TurnInv'
<1> DEFINE r == repo["shared"]
<1>1. wo[w].at = "developing" /\ UNCHANGED remoteTarget
  BY DEF Finish, Working
<1>2. /\ wo[w] \in Rows /\ r \in Repos /\ Space(w) = "shared"
      /\ KnowsItsOwn(w, r, wo[w]) /\ HasItsOwn(w, r, wo[w])
      /\ OthersIdle(w) /\ ~TargetIsRemote(r)
      /\ \A paths : OutOfScope(paths) = {}
  BY <1>1, TurnFacts DEF Idle
<1>3. Ours(w, r) /\ wo[w].base = Pristine /\ wo[w].phase = "implement"
  BY <1>1, <1>2 DEF HasItsOwn, KnowsItsOwn
<1>4. PICK tested \in AfterTests(r, w) :
         LET t     == CleanUp(tested, wo[w].base)
             clean == OutOfScope(Touched(t, wo[w].base)) = {}
             patch == IF clean THEN Collected(t) ELSE wo[w].base
             s     == IF clean THEN Collect(t) ELSE t
         IN  IF patch = wo[w].base /\ wo[w].phase = "implement"
             THEN Fails(w, s)
             ELSE /\ repo' = [repo EXCEPT ![Space(w)] = s]
                  /\ wo' = [wo EXCEPT ![w] =
                               [@ EXCEPT !.at = "code_review", !.reviewed = patch,
                                         !.flagged = FALSE, !.baseline = wo[w].base,
                                         !.targetKnown = s.tips["staging"] # NoTree]]
  BY <1>2 DEF Finish
<1> DEFINE s == Collect(tested)
<1>5. /\ tested \in Repos /\ Ours(w, tested) /\ tested.tips = r.tips
      /\ tested.tree = Pristine => r.tree = Pristine
      /\ ~TargetIsRemote(tested)
  <2>1. tested = r \/ tested = Change(r, w, "new")
    BY <1>4 DEF AfterTests
  <2>2. "new" \in Paths
    BY DEF Paths
  <2> QED
    BY <1>2, <1>3, <2>1, <2>2, TurnChange
<1>6. CleanUp(tested, wo[w].base) = tested
  BY <1>2 DEF CleanUp
<1>7. /\ s \in Repos /\ s.head = tested.head /\ s.tips = tested.tips /\ s.tree = tested.tree
      /\ s.index = tested.tree /\ Collected(tested) = tested.tree
  BY <1>5, CollectEffect
<1>8. IF tested.tree = Pristine
      THEN Fails(w, s)
      ELSE /\ repo' = [repo EXCEPT !["shared"] = s]
           /\ wo' = [wo EXCEPT ![w] =
                        [wo[w] EXCEPT !.at = "code_review", !.reviewed = tested.tree,
                                      !.flagged = FALSE, !.baseline = Pristine,
                                      !.targetKnown = s.tips["staging"] # NoTree]]
  BY <1>2, <1>3, <1>4, <1>6, <1>7
<1> HIDE DEF s
<1>9. Ours(w, s) /\ s.tips = r.tips /\ ~TargetIsRemote(s)
  BY <1>5, <1>7 DEF Ours, Tip, TargetIsRemote
<1>10. CASE tested.tree = Pristine
  <2> DEFINE row == [wo[w] EXCEPT !.at = "development_failed"]
  <2>1. wo' = [wo EXCEPT ![w] = row] /\ repo' = [repo EXCEPT !["shared"] = s]
    BY <1>2, <1>8, <1>10 DEF Fails
  <2>2. /\ row.at = "development_failed" /\ row.phase = wo[w].phase /\ row.guard = wo[w].guard
        /\ row.baseline = wo[w].baseline /\ row.feedback = wo[w].feedback
        /\ row.base = wo[w].base /\ row.reviewed = wo[w].reviewed
        /\ row.pushed = wo[w].pushed /\ row.flagged = wo[w].flagged
    BY <1>2 DEF Rows
  <2> HIDE DEF row
  <2>3. wo[w].baseline = NoTree
    BY <1>1, <1>2, <1>5, <1>10 DEF HasItsOwn
  <2>4. KnowsItsOwn(w, s, row)
    BY <1>1, <1>2, <1>9, <2>2, <2>3 DEF KnowsItsOwn
  <2>5. HasItsOwn(w, s, row)
    BY <2>2 DEF HasItsOwn
  <2>6. Clean(s)
    BY <1>7, <1>9, <1>10 DEF Clean, Ours
  <2> QED
    BY <1>1, <1>2, <1>9, <2>1, <2>2, <2>4, <2>5, <2>6, TurnStep DEF Ours
<1>11. CASE tested.tree # Pristine
  <2> DEFINE row == [wo[w] EXCEPT !.at = "code_review", !.reviewed = tested.tree,
                                  !.flagged = FALSE, !.baseline = Pristine,
                                  !.targetKnown = s.tips["staging"] # NoTree]
  <2>1. wo' = [wo EXCEPT ![w] = row] /\ repo' = [repo EXCEPT !["shared"] = s]
    BY <1>8, <1>11
  <2>2. /\ row.at = "code_review" /\ row.phase = wo[w].phase /\ row.guard = wo[w].guard
        /\ row.baseline = Pristine /\ row.feedback = wo[w].feedback
        /\ row.base = wo[w].base /\ row.reviewed = tested.tree
        /\ row.pushed = wo[w].pushed
    BY <1>2 DEF Rows
  <2> HIDE DEF row
  <2>3. KnowsItsOwn(w, s, row)
    BY <1>1, <1>2, <1>5, <1>9, <2>2 DEF KnowsItsOwn, Ours
  <2>4. HasItsOwn(w, s, row) /\ row.at \notin Idle
    BY <1>7, <1>9, <1>11, <2>2 DEF HasItsOwn, Idle
  <2> QED
    BY <1>1, <1>2, <1>9, <2>1, <2>2, <2>3, <2>4, TurnStep DEF Ours
<1> QED
  BY <1>10, <1>11

LEMMA TurnDecision ==
    ASSUME InTurns, CheckoutInv, TurnInv, NEW w \in WorkOrders, ApproveReview(w) \/ RejectReview(w)
    PROVE  TurnInv'
<1> DEFINE r == repo["shared"]
<1>1. wo[w].at = "code_review" /\ UNCHANGED <<repo, remoteTarget>>
  BY DEF ApproveReview, RejectReview
<1>2. /\ wo[w] \in Rows /\ repo \in [Spaces -> Repos] /\ Spaces = {"shared"}
      /\ KnowsItsOwn(w, r, wo[w]) /\ HasItsOwn(w, r, wo[w])
      /\ OthersIdle(w) /\ ~TargetIsRemote(r)
  BY <1>1, TurnFacts DEF Idle
<1>3. Ours(w, r) /\ repo' = [repo EXCEPT !["shared"] = r]
  BY <1>1, <1>2 DEF HasItsOwn
<1>4. ASSUME NEW row, wo' = [wo EXCEPT ![w] = row],
             row.at = "draft_review" \/ (row.at = "requeued" /\ row.feedback),
             row.phase = wo[w].phase, row.guard = wo[w].guard,
             row.baseline = wo[w].baseline, row.base = wo[w].base, row.reviewed = wo[w].reviewed,
             row.pushed = wo[w].pushed, row.flagged = wo[w].flagged
      PROVE  TurnInv'
  <2>1. KnowsItsOwn(w, r, row)
    BY <1>1, <1>2, <1>4 DEF KnowsItsOwn
  <2>2. HasItsOwn(w, r, row) /\ row.at \notin Idle /\ row.at # "queued"
    BY <1>1, <1>2, <1>3, <1>4 DEF HasItsOwn, Idle
  <2> QED
    BY <1>1, <1>2, <1>3, <1>4, <2>1, <2>2, TurnStep DEF Ours
<1>5. CASE ApproveReview(w)
  <2> DEFINE row == [wo[w] EXCEPT !.at = "draft_review"]
  <2>1. wo' = [wo EXCEPT ![w] = row]
    BY <1>5 DEF ApproveReview
  <2>2. /\ row.at = "draft_review" /\ row.phase = wo[w].phase /\ row.guard = wo[w].guard
        /\ row.baseline = wo[w].baseline
        /\ row.base = wo[w].base /\ row.reviewed = wo[w].reviewed
        /\ row.pushed = wo[w].pushed /\ row.flagged = wo[w].flagged
    BY <1>2 DEF Rows
  <2> HIDE DEF row
  <2> QED
    BY <1>4, <2>1, <2>2
<1>6. CASE RejectReview(w)
  <2> DEFINE row == [wo[w] EXCEPT !.at = "requeued", !.feedback = TRUE]
  <2>1. wo' = [wo EXCEPT ![w] = row]
    BY <1>6 DEF RejectReview
  <2>2. /\ row.at = "requeued" /\ row.phase = wo[w].phase /\ row.guard = wo[w].guard
        /\ row.baseline = wo[w].baseline /\ row.feedback
        /\ row.base = wo[w].base /\ row.reviewed = wo[w].reviewed
        /\ row.pushed = wo[w].pushed /\ row.flagged = wo[w].flagged
    BY <1>2 DEF Rows
  <2> HIDE DEF row
  <2> QED
    BY <1>4, <2>1, <2>2
<1> QED
  BY <1>5, <1>6

LEMMA TurnApproveDraft ==
    ASSUME InTurns, CheckoutInv, TurnInv, NEW w \in WorkOrders, ApproveDraft(w) PROVE TurnInv'
<1> DEFINE r == repo["shared"]
           a == AfterMergeCheck(r)
           row == [wo[w] EXCEPT !.at = "publishing"]
<1>1. wo[w].at = "draft_review" /\ UNCHANGED remoteTarget
  BY DEF ApproveDraft
<1>2. /\ wo[w] \in Rows /\ Space(w) = "shared" /\ Sound(r) /\ StagingTree = Pristine
      /\ KnowsItsOwn(w, r, wo[w]) /\ HasItsOwn(w, r, wo[w])
      /\ OthersIdle(w) /\ ~TargetIsRemote(r)
  BY <1>1, TurnFacts DEF Idle
<1>3. Ours(w, r)
  BY <1>1, <1>2 DEF HasItsOwn
<1>4. /\ a.head = w /\ a.tree = r.tree /\ a.index = r.index
      /\ \A x \in Branches : a.tips[x] = r.tips[x]
  BY <1>2, <1>3, MergeCheckEffect DEF Ours
<1>5. ~Conflicts(ResolveTarget(r))
  BY <1>2, <1>3, NoConflict DEF Ours
<1>6. repo' = [repo EXCEPT !["shared"] = a] /\ wo' = [wo EXCEPT ![w] = row]
  BY <1>2, <1>5 DEF ApproveDraft
<1> HIDE DEF a
<1>7. /\ row.at = "publishing" /\ row.phase = wo[w].phase /\ row.guard = wo[w].guard
      /\ row.baseline = wo[w].baseline
      /\ row.base = wo[w].base /\ row.reviewed = wo[w].reviewed
      /\ row.pushed = wo[w].pushed /\ row.flagged = wo[w].flagged
  BY <1>2 DEF Rows
<1> HIDE DEF row
<1>8. ~TargetIsRemote(a)
  BY <1>2, <1>4, Names DEF TargetIsRemote
<1>9. KnowsItsOwn(w, a, row)
  BY <1>1, <1>2, <1>4, <1>7, Names DEF KnowsItsOwn
<1>10. HasItsOwn(w, a, row) /\ row.at \notin Idle
  BY <1>1, <1>2, <1>3, <1>4, <1>7 DEF HasItsOwn, Ours, Idle
<1>11. \A x \in WorkOrders \ {w} : a.tips[x] = r.tips[x]
  BY <1>4, Names
<1> QED
  BY <1>1, <1>2, <1>4, <1>6, <1>7, <1>8, <1>9, <1>10, <1>11, TurnStep

LEMMA TurnPublish ==
    ASSUME InTurns, CheckoutInv, TurnInv, NEW w \in WorkOrders, Publish(w) PROVE TurnInv'
<1> DEFINE r == repo["shared"]
           c == CommitAll(r)
           failed == [wo[w] EXCEPT !.at = "publication_failed"]
           done   == [wo[w] EXCEPT !.at = "published", !.pushed = c.tips[w]]
<1>1. wo[w].at = "publishing" /\ UNCHANGED remoteTarget
  BY DEF Publish
<1>2. /\ wo[w] \in Rows /\ Space(w) = "shared" /\ Sound(r) /\ r \in Repos
      /\ KnowsItsOwn(w, r, wo[w]) /\ HasItsOwn(w, r, wo[w])
      /\ OthersIdle(w) /\ ~TargetIsRemote(r) /\ r.head \in WorkOrders
      /\ repo \in [Spaces -> Repos] /\ Spaces = {"shared"}
  BY <1>1, TurnFacts DEF Idle
<1>3. \/ /\ r.head = w /\ repo' = [repo EXCEPT !["shared"] = c]
         /\ wo' = [wo EXCEPT ![w] = done] \/ wo' = [wo EXCEPT ![w] = failed]
      \/ r.head # w /\ repo' = repo /\ wo' = [wo EXCEPT ![w] = failed]
  BY <1>2 DEF Publish, OnDeliveryBranch
<1>4. r.head = w =>
        /\ c.head = w /\ c.tree = r.tree /\ c.index = r.tree
        /\ \A x \in Branches : c.tips[x] = IF x = w THEN r.tree ELSE r.tips[x]
  BY <1>2, CommitEffect, Names
<1>5. /\ failed.at = "publication_failed" /\ failed.phase = wo[w].phase
      /\ failed.guard = wo[w].guard /\ failed.baseline = wo[w].baseline
      /\ failed.base = wo[w].base /\ failed.reviewed = wo[w].reviewed
      /\ failed.pushed = wo[w].pushed /\ failed.flagged = wo[w].flagged
  BY <1>2 DEF Rows
<1>6. /\ done.at = "published" /\ done.phase = wo[w].phase
      /\ done.guard = wo[w].guard /\ done.baseline = wo[w].baseline
      /\ done.base = wo[w].base /\ done.reviewed = wo[w].reviewed
      /\ done.pushed = c.tips[w] /\ done.flagged = wo[w].flagged
  BY <1>2 DEF Rows
<1> HIDE DEF c, failed, done
<1>7. CASE r.head = w /\ repo' = [repo EXCEPT !["shared"] = c]
  <2>1. /\ OnlyOf(w, r.tree) /\ c.tips[w] = r.tree /\ (~wo[w].flagged => r.tree = wo[w].reviewed)
        /\ \A x \in WorkOrders \ {w} : c.tips[x] = r.tips[x]
    BY <1>1, <1>2, <1>4, <1>7, Names DEF HasItsOwn
  <2>2. Clean(c)
    BY <1>4, <1>7, <2>1 DEF Clean, Tip
  <2>3. ~TargetIsRemote(c)
    BY <1>2, <1>4, <1>7, Names DEF TargetIsRemote
  <2>4. KnowsItsOwn(w, c, failed) /\ HasItsOwn(w, c, failed) /\ failed.at # "queued"
    BY <1>1, <1>2, <1>4, <1>5, <1>7, <2>1 DEF KnowsItsOwn, HasItsOwn
  <2>5. KnowsItsOwn(w, c, done) /\ HasItsOwn(w, c, done) /\ done.at # "queued"
    BY <1>1, <1>2, <1>6, <2>1 DEF KnowsItsOwn, HasItsOwn
  <2>6. CASE wo' = [wo EXCEPT ![w] = done]
    BY <1>1, <1>2, <1>4, <1>7, <2>1, <2>2, <2>3, <2>5, <2>6, TurnStep
  <2>7. CASE wo' = [wo EXCEPT ![w] = failed]
    BY <1>1, <1>2, <1>4, <1>7, <2>1, <2>2, <2>3, <2>4, <2>7, TurnStep
  <2>8. wo' = [wo EXCEPT ![w] = done] \/ wo' = [wo EXCEPT ![w] = failed]
    BY <1>3, <1>7
  <2> QED
    BY <2>6, <2>7, <2>8
<1>8. CASE r.head # w /\ repo' = repo /\ wo' = [wo EXCEPT ![w] = failed]
  <2>1. repo' = [repo EXCEPT !["shared"] = r]
    BY <1>2, <1>8
  <2>2. Clean(r)
    BY <1>1, <1>2, <1>8 DEF HasItsOwn
  <2>3. KnowsItsOwn(w, r, failed) /\ HasItsOwn(w, r, failed) /\ failed.at # "queued"
    BY <1>1, <1>2, <1>5, <1>8 DEF KnowsItsOwn, HasItsOwn
  <2> QED
    BY <1>1, <1>2, <1>8, <2>1, <2>2, <2>3, TurnStep
<1> QED
  BY <1>3, <1>7, <1>8

LEMMA TurnResume ==
    ASSUME InTurns, CheckoutInv, TurnInv, NEW w \in WorkOrders, Resume(w) PROVE TurnInv'
<1> DEFINE r == repo["shared"]
           at  == IF wo[w].at = "development_failed" THEN "requeued" ELSE "publishing"
           row == [wo[w] EXCEPT !.at = at]
<1>1. /\ wo[w].at \in {"development_failed", "publication_failed"} /\ OthersIdle(w)
      /\ wo' = [wo EXCEPT ![w] = row] /\ UNCHANGED <<repo, remoteTarget>>
  BY DEF Resume, Alone, InTurns, OthersIdle
<1>2. \/ wo[w].at = "development_failed" /\ at = "requeued"
      \/ wo[w].at = "publication_failed" /\ at = "publishing"
  BY <1>1
<1> HIDE DEF at
<1>3. /\ wo[w] \in Rows /\ Sound(r) /\ Clean(r)
      /\ KnowsItsOwn(w, r, wo[w]) /\ HasItsOwn(w, r, wo[w])
      /\ ~TargetIsRemote(r) /\ r.head \in WorkOrders
      /\ repo \in [Spaces -> Repos] /\ Spaces = {"shared"}
  BY <1>1, TurnFacts DEF Idle
<1>4. /\ row.at = at /\ row.phase = wo[w].phase
      /\ row.guard = wo[w].guard /\ row.baseline = wo[w].baseline
      /\ row.base = wo[w].base /\ row.reviewed = wo[w].reviewed
      /\ row.pushed = wo[w].pushed /\ row.flagged = wo[w].flagged
  BY <1>3 DEF Rows
<1> HIDE DEF row
<1>5. KnowsItsOwn(w, r, row)
  BY <1>1, <1>2, <1>3, <1>4 DEF KnowsItsOwn
<1>6. r.head = w => OnlyOf(w, r.tree)
  BY <1>3 DEF KnowsItsOwn, Clean, Tip
<1>7. HasItsOwn(w, r, row) /\ row.at \notin Idle /\ row.at # "queued"
  <2>1. CASE wo[w].at = "development_failed" /\ at = "requeued"
    <3>1. wo[w].baseline = NoTree
      BY <1>3, <2>1 DEF KnowsItsOwn
    <3>2. row.at = "requeued" /\ row.baseline = NoTree /\ Clean(r)
      BY <1>3, <1>4, <2>1, <3>1
    <3>3. HasItsOwn(w, r, row)
      BY <3>2 DEF HasItsOwn
    <3> QED
      BY <3>2, <3>3 DEF Idle
  <2>2. CASE wo[w].at = "publication_failed" /\ at = "publishing"
    BY <1>3, <1>4, <1>6, <2>2 DEF HasItsOwn, Idle
  <2> QED
    BY <1>2, <2>1, <2>2
<1>8. repo' = [repo EXCEPT !["shared"] = r]
  BY <1>1, <1>3
<1> QED
  BY <1>1, <1>3, <1>5, <1>7, <1>8, TurnStep

LEMMA TurnRefresh == ASSUME InTurns, CheckoutInv, TurnInv, Refresh PROVE TurnInv'
<1> DEFINE r == repo["shared"]
           e == ResetHard(r)
<1>1. /\ r.head \in {"main", "staging"} /\ repo' = [repo EXCEPT !["shared"] = e]
      /\ UNCHANGED <<remoteTarget, wo>>
  BY DEF Refresh
<1>2. Sound(r) /\ repo \in [Spaces -> Repos] /\ Spaces = {"shared"}
  BY DEF CheckoutInv, InTurns, Spaces
<1>3. \A w \in WorkOrders : wo[w].at = "queued"
  BY <1>1, Names DEF TurnInv
<1>4. Clean(r)
  BY <1>3 DEF TurnInv, Idle
<1>5. Clean(e) /\ e.head = r.head /\ e.tips = r.tips
  BY <1>2, <1>4, ResetEffect
<1> HIDE DEF e
<1>6. repo'["shared"] = e /\ wo' = wo
  BY <1>1, <1>2
<1>7. ASSUME NEW w \in WorkOrders PROVE KnowsItsOwn(w, e, wo[w]) /\ HasItsOwn(w, e, wo[w])
  <2>1. KnowsItsOwn(w, r, wo[w]) /\ wo[w].at = "queued"
    BY <1>3 DEF TurnInv
  <2> QED
    BY <1>5, <2>1 DEF KnowsItsOwn, HasItsOwn
<1> QED
  BY <1>3, <1>5, <1>6, <1>7 DEF TurnInv, Idle

LEMMA TurnNext == ASSUME InTurns, CheckoutInv, TurnInv, [Next]_vars PROVE TurnInv'
<1>1. CASE Refresh
  BY <1>1, TurnRefresh
<1>2. ~TargetAppears /\ \A w \in WorkOrders : ~DeniedCommand(w) /\ ~AgentFails(w)
  BY DEF InTurns, TargetAppears, DeniedCommand, AgentFails
<1>3. \A w \in WorkOrders : ~MergeTarget(w)
  BY DEF MergeTarget, TurnInv, KnowsItsOwn
<1>4. ASSUME NEW w \in WorkOrders,
             \/ Prepare(w) \/ WriteFile(w) \/ RunCommand(w)
             \/ LeaveWorkspace(w) \/ FinishBlocked(w) \/ Finish(w)
      PROVE  TurnInv'
  BY <1>4, TurnPrepare, TurnEdit, TurnStop, TurnFinish
<1>5. ASSUME NEW w \in WorkOrders,
             \/ ApproveReview(w) \/ RejectReview(w) \/ ApproveDraft(w) \/ Publish(w) \/ Resume(w)
      PROVE  TurnInv'
  BY <1>5, TurnDecision, TurnApproveDraft, TurnPublish, TurnResume
<1>6. CASE UNCHANGED vars
  <2>1. repo' = repo /\ wo' = wo /\ remoteTarget' = remoteTarget
    BY <1>6 DEF vars
  <2> QED
    BY <2>1 DEF TurnInv, TargetIsRemote
<1> QED
  BY <1>1, <1>2, <1>3, <1>4, <1>5, <1>6 DEF Next

LEMMA TurnAlways == ASSUME InTurns PROVE Spec => [](CheckoutInv /\ TurnInv)
<1>1. Init => TurnInv
  BY InTurns, TurnInit
<1>2. CheckoutInv /\ TurnInv /\ [Next]_vars => TurnInv'
  BY InTurns, TurnNext
<1> QED
  BY <1>1, <1>2, CheckoutAlways, PTL DEF Spec

\* Work orders that take turns in one checkout are reviewed and published with their own
\* work only: what a rejected, a halted or a failed run leaves behind does not reach the next.
THEOREM TurnsAreTheirOwn == ASSUME InTurns PROVE Spec => []PatchIsOwn
<1>1. ASSUME CheckoutInv, TurnInv, NEW w \in DOMAIN wo, NEW p \in Paths
      PROVE  /\ wo[w].reviewed[p] \cap WorkOrders \subseteq {w}
             /\ wo[w].pushed # NoTree => wo[w].pushed[p] \cap WorkOrders \subseteq {w}
  <2>1. w \in WorkOrders /\ wo[w] \in Rows
    BY <1>1 DEF CheckoutInv
  <2>2. OnlyOf(w, wo[w].reviewed) /\ OnlyOf(w, wo[w].pushed)
    BY <1>1, <2>1 DEF TurnInv, KnowsItsOwn
  <2>3. wo[w].reviewed # NoTree
    BY <2>1, Names DEF Rows
  <2> QED
    BY <2>2, <2>3 DEF OnlyOf
<1>2. CheckoutInv /\ TurnInv => PatchIsOwn
  BY <1>1 DEF PatchIsOwn
<1> QED
  BY <1>2, TurnAlways, PTL

\* ... and what is pushed is what was reviewed, other turns in between or not.
THEOREM TurnsPublishTheirReview == ASSUME InTurns PROVE Spec => []PublishesWhatWasReviewed
<1>1. ASSUME CheckoutInv, TurnInv, NEW w \in DOMAIN wo, wo[w].pushed # NoTree, ~wo[w].flagged
      PROVE  wo[w].pushed = wo[w].reviewed
  <2>1. w \in WorkOrders
    BY <1>1 DEF CheckoutInv
  <2> QED
    BY <1>1, <2>1 DEF TurnInv, KnowsItsOwn
<1>2. CheckoutInv /\ TurnInv => PublishesWhatWasReviewed
  BY <1>1 DEF PublishesWhatWasReviewed
<1> QED
  BY <1>2, TurnAlways, PTL
=============================================================================
