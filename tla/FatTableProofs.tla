--------------------------- MODULE FatTableProofs ---------------------------
(***************************************************************************)
(* Theorems about FatTable for every size of table, every set of files and *)
(* whatever follows the table, on a disc whose reads do not fail.          *)
(*                                                                         *)
(* The argument: the links are injective, lead to allocated entries only,  *)
(* and no link leads to a cluster that a chain starts at (LinkStructure).  *)
(* Chains are least closed sets of links, so that two of them cannot meet: *)
(* what one of them leaves out is closed as well.  That chains cover every *)
(* allocated cluster is carried along as it stands.                        *)
(***************************************************************************)
EXTENDS FatTable, FiniteSetTheorems, TLAPS

Tables == [Clusters -> Entries]

(* The links of a table as a predicate of the table. *)
Injective(t) ==
  \A c, d \in Clusters : (t[c] \in Clusters /\ t[c] = t[d]) => c = d

-----------------------------------------------------------------------------
(* Arithmetic of the numbers the table holds. *)

(* The values the code tells apart are different numbers. *)
LEMMA Values ==
  /\ CLUSTER_FREE \notin Clusters
  /\ CLUSTER_EOF \notin Clusters
  /\ CLUSTER_ERROR \notin Clusters
  /\ LastCluster + 1 \notin Clusters
  /\ CLUSTER_EOF # CLUSTER_FREE
  /\ CLUSTER_EOF \in Entries
  /\ CLUSTER_FREE \in Entries
  /\ Clusters \subseteq Entries
  /\ CLUSTER_FREE <= LastCluster
  /\ Clusters \subseteq Nat
  /\ \A c \in Clusters : c <= LastCluster
BY LastClusterAssumption
   DEF CLUSTER_FREE, CLUSTER_FIRST, CLUSTER_EOF, CLUSTER_ERROR, Clusters, Entries

-----------------------------------------------------------------------------
(* Walks. *)

(* A walk visits its first cluster, goes on wherever a link leads, and     *)
(* visits nothing else.                                                    *)
LEMMA WalkIsClosed ==
  ASSUME NEW t \in Tables, NEW h \in Clusters
  PROVE  /\ h \in Walk(t, h)
         /\ Walk(t, h) \subseteq Clusters
         /\ Closed(t, Walk(t, h))
BY DEF Walk, Closed

LEMMA WalkIsLeast ==
  ASSUME NEW t \in Tables, NEW h \in Clusters,
         NEW S \in SUBSET Clusters, h \in S, Closed(t, S)
  PROVE  Walk(t, h) \subseteq S
BY DEF Walk

(* Every cluster of a walk but its first one is linked from the walk. *)
LEMMA WalkPredecessor ==
  ASSUME NEW t \in Tables, NEW h \in Clusters, NEW c \in Walk(t, h), c # h
  PROVE  \E d \in Walk(t, h) : t[d] = c
<1> DEFINE S == Walk(t, h) \ {c}
<1> SUFFICES ASSUME \A d \in Walk(t, h) : t[d] # c
             PROVE  FALSE
  OBVIOUS
<1>1. S \in SUBSET Clusters /\ h \in S
  BY WalkIsClosed
<1>2. Closed(t, S)
  BY WalkIsClosed DEF Closed
<1>3. Walk(t, h) \subseteq S
  BY <1>1, <1>2, WalkIsLeast
<1> QED
  BY <1>3

(* With injective links, two walks from clusters nothing links to do not   *)
(* meet.                                                                   *)
LEMMA WalksDisjoint ==
  ASSUME NEW t \in Tables, Injective(t),
         NEW g \in Clusters, NEW h \in Clusters, g # h,
         \A c \in Clusters : t[c] # g,
         \A c \in Clusters : t[c] # h
  PROVE  Walk(t, g) \cap Walk(t, h) = {}
<1> DEFINE S == Clusters \ Walk(t, h)
<1>1. g \in S
  BY WalkPredecessor, WalkIsClosed
<1>2. Closed(t, S)
  <2> SUFFICES ASSUME NEW c \in S, t[c] \in Clusters, t[c] \in Walk(t, h)
               PROVE  FALSE
    BY DEF Closed
  <2>1. PICK d \in Walk(t, h) : t[d] = t[c]
    BY WalkPredecessor
  <2>2. d = c
    BY <2>1, WalkIsClosed DEF Injective
  <2> QED
    BY <2>1, <2>2
<1>3. Walk(t, g) \subseteq S
  BY <1>1, <1>2, WalkIsLeast
<1> QED
  BY <1>3

(* A walk from a cluster nothing links to does not come back to a cluster  *)
(* it has left: c is not on the walk from the cluster linked from c.       *)
LEMMA NoReturn ==
  ASSUME NEW t \in Tables, Injective(t), NEW h \in Clusters,
         \A c \in Clusters : t[c] # h,
         NEW c \in Walk(t, h), t[c] \in Clusters
  PROVE  c \notin Walk(t, t[c])
<1> DEFINE n == t[c]
           S == Clusters \ Walk(t, n)
<1> SUFFICES ASSUME c \in Walk(t, n)
             PROVE  FALSE
  OBVIOUS
<1>1. n \in Clusters /\ c \in Clusters
  BY WalkIsClosed
<1>2. \A y \in Walk(t, n) : \E d \in Walk(t, n) : t[d] = y
  BY <1>1, WalkPredecessor
<1>3. h \in S
  BY <1>1, <1>2, WalkIsClosed
<1>4. Closed(t, S)
  <2> SUFFICES ASSUME NEW x \in S, t[x] \in Clusters, t[x] \in Walk(t, n)
               PROVE  FALSE
    BY DEF Closed
  <2>1. PICK d \in Walk(t, n) : t[d] = t[x]
    BY <1>2
  <2>2. d = x
    BY <2>1, <1>1, WalkIsClosed DEF Injective
  <2> QED
    BY <2>1, <2>2
<1>5. Walk(t, h) \subseteq S
  BY <1>3, <1>4, WalkIsLeast
<1> QED
  BY <1>5

(* A change to entries that are not on a walk, or from one value that is   *)
(* no cluster to another, leaves the walk as it was.                       *)
LEMMA WalkAgree ==
  ASSUME NEW t \in Tables, NEW u \in Tables, NEW h \in Clusters,
         \A x \in Walk(t, h) :
            u[x] = t[x] \/ (u[x] \notin Clusters /\ t[x] \notin Clusters)
  PROVE  Walk(u, h) = Walk(t, h)
<1>1. Walk(u, h) \subseteq Walk(t, h)
  <2>1. Closed(u, Walk(t, h))
    BY WalkIsClosed DEF Closed
  <2> QED
    BY <2>1, WalkIsClosed, WalkIsLeast
<1>2. Walk(t, h) \subseteq Walk(u, h)
  <2>1. Closed(t, Walk(u, h))
    BY <1>1, WalkIsClosed DEF Closed
  <2> QED
    BY <2>1, WalkIsClosed, WalkIsLeast
<1> QED
  BY <1>1, <1>2

-----------------------------------------------------------------------------
(* What the operations do to a table whose links are as they should be,    *)
(* H being the clusters that chains start at.                              *)

AllocatedIn(t) == {c \in Clusters : t[c] # CLUSTER_FREE}

Structured(t, H) ==
  /\ Injective(t)
  /\ \A c \in Clusters : t[c] \in Clusters => t[t[c]] # CLUSTER_FREE
  /\ \A h \in H : t[h] # CLUSTER_FREE /\ \A c \in Clusters : t[c] # h

(* The tables that the operations leave behind. *)
Marked(t, n) == [t EXCEPT ![n] = CLUSTER_EOF]
Grown(t, c, n) == [t EXCEPT ![c] = n, ![n] = CLUSTER_EOF]
Ended(t, c, v) == [t EXCEPT ![c] = v]
Freed(t, k) == [x \in Clusters |-> IF x \in Walk(t, k) THEN CLUSTER_FREE ELSE t[x]]
Cut(t, c) ==
  [x \in Clusters |-> IF x = c THEN CLUSTER_EOF
                      ELSE IF x \in Walk(t, t[c]) THEN CLUSTER_FREE
                      ELSE t[x]]

(* Chains hold allocated clusters only. *)
LEMMA WalkAllocated ==
  ASSUME NEW t \in Tables, NEW H \in SUBSET Clusters, Structured(t, H), NEW h \in H
  PROVE  Walk(t, h) \subseteq AllocatedIn(t)
<1>1. h \in AllocatedIn(t) /\ AllocatedIn(t) \subseteq Clusters
  BY DEF Structured, AllocatedIn
<1>2. Closed(t, AllocatedIn(t))
  BY DEF Structured, AllocatedIn, Closed
<1> QED
  BY <1>1, <1>2, WalkIsLeast

(* linkFreeCluster(CLUSTER_FREE): n is a chain of its own. *)
LEMMA NewChain ==
  ASSUME NEW t \in Tables, NEW H \in SUBSET Clusters, Structured(t, H),
         NEW n \in Clusters, t[n] = CLUSTER_FREE
  PROVE  LET u == Marked(t, n) IN
         /\ u \in Tables
         /\ n \notin H
         /\ Structured(u, H \cup {n})
         /\ AllocatedIn(u) = AllocatedIn(t) \cup {n}
         /\ Walk(u, n) = {n}
         /\ \A h \in Clusters : Walk(u, h) = Walk(t, h)
<1> DEFINE u == Marked(t, n)
<1> u = [t EXCEPT ![n] = CLUSTER_EOF]
  BY DEF Marked
<1> HIDE DEF u
<1>1. u \in Tables
  BY Values DEF Tables
<1>2. n \notin H /\ \A c \in Clusters : t[c] # n
  BY DEF Structured
<1>3. Structured(u, H \cup {n})
  BY <1>2, Values DEF Structured, Injective, Tables
<1>4. AllocatedIn(u) = AllocatedIn(t) \cup {n}
  BY Values DEF AllocatedIn, Tables
<1>5. Walk(u, n) = {n}
  <2>1. Closed(u, {n})
    BY Values DEF Closed, Tables
  <2> QED
    BY <1>1, <2>1, WalkIsLeast, WalkIsClosed
<1>6. \A h \in Clusters : Walk(u, h) = Walk(t, h)
  <2>1. \A x \in Clusters :
          u[x] = t[x] \/ (u[x] \notin Clusters /\ t[x] \notin Clusters)
    BY Values DEF Tables
  <2> QED
    BY <1>1, <2>1, WalkAgree, WalkIsClosed
<1> QED
  BY <1>1, <1>2, <1>3, <1>4, <1>5, <1>6 DEF u

(* linkFreeCluster(c) for the last cluster c of a chain: the chain grows   *)
(* by n, the others stay.                                                  *)
LEMMA LongerChain ==
  ASSUME NEW t \in Tables, NEW H \in SUBSET Clusters, Structured(t, H),
         NEW c \in Clusters, t[c] \notin Clusters, t[c] # CLUSTER_FREE,
         NEW n \in Clusters, t[n] = CLUSTER_FREE
  PROVE  LET u == Grown(t, c, n) IN
         /\ u \in Tables
         /\ Structured(u, H)
         /\ AllocatedIn(u) = AllocatedIn(t) \cup {n}
         /\ \A h \in Clusters :
              Walk(u, h) = Walk(t, h) \cup (IF c \in Walk(t, h) THEN {n} ELSE {})
<1> DEFINE u == Grown(t, c, n)
<1> u = [t EXCEPT ![c] = n, ![n] = CLUSTER_EOF]
  BY DEF Grown
<1> HIDE DEF u
<1>1. /\ c # n
      /\ u[c] = n
      /\ u[n] = CLUSTER_EOF
      /\ \A x \in Clusters : x # c /\ x # n => u[x] = t[x]
  BY DEF Tables
<1>2. u \in Tables
  BY Values DEF Tables
<1>3. n \notin H /\ \A x \in Clusters : t[x] # n
  BY DEF Structured
<1>4. Structured(u, H)
  <2>1. \A x \in Clusters : u[x] \in Clusters => x = c \/ (x # n /\ u[x] = t[x])
    BY <1>1, Values
  <2>2. Injective(u)
    <3> SUFFICES ASSUME NEW x \in Clusters, NEW y \in Clusters,
                        u[x] \in Clusters, u[x] = u[y]
                 PROVE  x = y
      BY DEF Injective
    <3>1. CASE x = c \/ y = c
      BY <1>1, <1>3, <2>1, <3>1
    <3>2. CASE x # c /\ y # c
      BY <2>1, <3>2 DEF Structured, Injective
    <3> QED
      BY <3>1, <3>2
  <2>3. \A x \in Clusters : u[x] \in Clusters => u[u[x]] # CLUSTER_FREE
    BY <1>1, <1>3, <2>1, Values DEF Structured
  <2>4. \A h \in H : u[h] # CLUSTER_FREE /\ \A x \in Clusters : u[x] # h
    BY <1>1, <1>3, Values DEF Structured
  <2> QED
    BY <2>2, <2>3, <2>4 DEF Structured
<1>5. AllocatedIn(u) = AllocatedIn(t) \cup {n}
  BY <1>1, Values DEF AllocatedIn
<1>6. ASSUME NEW h \in Clusters, c \notin Walk(t, h)
      PROVE  Walk(u, h) = Walk(t, h)
  <2>1. \A x \in Walk(t, h) :
          u[x] = t[x] \/ (u[x] \notin Clusters /\ t[x] \notin Clusters)
    BY <1>1, <1>6, WalkIsClosed, Values
  <2> QED
    BY <1>2, <2>1, WalkAgree
<1>7. ASSUME NEW h \in Clusters, c \in Walk(t, h)
      PROVE  Walk(u, h) = Walk(t, h) \cup {n}
  <2>1. Walk(u, h) \subseteq Walk(t, h) \cup {n}
    <3>1. Closed(u, Walk(t, h) \cup {n})
      BY <1>1, WalkIsClosed, Values DEF Closed
    <3> QED
      BY <1>2, <3>1, WalkIsLeast, WalkIsClosed
  <2>2. Walk(t, h) \subseteq Walk(u, h)
    <3>1. Closed(t, Walk(u, h))
      BY <1>1, <1>2, WalkIsClosed, Values DEF Closed
    <3> QED
      BY <1>2, <3>1, WalkIsLeast, WalkIsClosed
  <2>3. n \in Walk(u, h)
    <3>1. c \in Walk(u, h) /\ Closed(u, Walk(u, h))
      BY <1>2, <1>7, <2>2, WalkIsClosed
    <3> QED
      BY <1>1, <3>1 DEF Closed
  <2> QED
    BY <2>1, <2>2, <2>3
<1> QED
  BY <1>2, <1>4, <1>5, <1>6, <1>7 DEF u

(* The entry of the last cluster of a chain led past the end, or marked    *)
(* once more as the end.                                                   *)
LEMMA EndRewritten ==
  ASSUME NEW t \in Tables, NEW H \in SUBSET Clusters, Structured(t, H),
         NEW c \in Clusters, t[c] \notin Clusters, t[c] # CLUSTER_FREE,
         NEW v \in {CLUSTER_EOF, LastCluster + 1}
  PROVE  LET u == Ended(t, c, v) IN
         /\ u \in Tables
         /\ Structured(u, H)
         /\ AllocatedIn(u) = AllocatedIn(t)
         /\ \A h \in Clusters : Walk(u, h) = Walk(t, h)
<1> DEFINE u == Ended(t, c, v)
<1> u = [t EXCEPT ![c] = v]
  BY DEF Ended
<1> HIDE DEF u
<1>1. /\ v \notin Clusters /\ v \in Entries /\ v # CLUSTER_FREE
      /\ u[c] = v
      /\ \A x \in Clusters : x # c => u[x] = t[x]
  BY Values, LastClusterAssumption
     DEF Tables, Entries, CLUSTER_FREE, CLUSTER_FIRST
<1>2. u \in Tables
  BY <1>1 DEF Tables
<1>3. Structured(u, H)
  BY <1>1, Values DEF Structured, Injective
<1>4. AllocatedIn(u) = AllocatedIn(t)
  BY <1>1 DEF AllocatedIn
<1>5. \A x \in Clusters :
        u[x] = t[x] \/ (u[x] \notin Clusters /\ t[x] \notin Clusters)
  BY <1>1
<1> QED
  BY <1>2, <1>3, <1>4, <1>5, WalkAgree, WalkIsClosed DEF u

(* clearLinks(k): the chain of k goes back to the free clusters, the       *)
(* others stay.                                                            *)
LEMMA ChainFreed ==
  ASSUME NEW t \in Tables, NEW H \in SUBSET Clusters, Structured(t, H), NEW k \in H
  PROVE  LET u == Freed(t, k) IN
         /\ u \in Tables
         /\ Structured(u, H \ {k})
         /\ AllocatedIn(u) = AllocatedIn(t) \ Walk(t, k)
         /\ \A h \in H \ {k} : Walk(u, h) = Walk(t, h)
<1> DEFINE u == Freed(t, k)
<1> DEFINE W == Walk(t, k)
<1> u = [x \in Clusters |-> IF x \in Walk(t, k) THEN CLUSTER_FREE ELSE t[x]]
  BY DEF Freed
<1> HIDE DEF u
<1>1. /\ \A x \in Clusters : x \in W => u[x] = CLUSTER_FREE
      /\ \A x \in Clusters : x \notin W => u[x] = t[x]
  OBVIOUS
<1>2. u \in Tables
  BY Values DEF Tables
<1>3. \A h \in H \ {k} : Walk(t, h) \cap W = {}
  BY WalksDisjoint DEF Structured
<1>4. Structured(u, H \ {k})
  <2>1. \A x \in Clusters : u[x] \in Clusters => x \notin W /\ u[x] = t[x]
    BY <1>1, Values
  <2>2. \A x \in Clusters \ W : t[x] \in Clusters => t[x] \notin W
    <3> SUFFICES ASSUME NEW x \in Clusters \ W, t[x] \in W
                 PROVE  FALSE
      OBVIOUS
    <3>1. t[x] # k
      BY DEF Structured
    <3>2. PICK d \in W : t[d] = t[x]
      BY <3>1, WalkPredecessor
    <3>3. d \in Clusters /\ t[x] \in Clusters
      BY WalkIsClosed
    <3> QED
      BY <3>2, <3>3 DEF Structured, Injective
  <2>3. Injective(u)
    BY <2>1 DEF Structured, Injective
  <2>4. \A x \in Clusters : u[x] \in Clusters => u[u[x]] # CLUSTER_FREE
    BY <1>1, <2>1, <2>2 DEF Structured
  <2>5. \A h \in H \ {k} : u[h] # CLUSTER_FREE /\ \A x \in Clusters : u[x] # h
    <3> SUFFICES ASSUME NEW h \in H \ {k}
                 PROVE  u[h] # CLUSTER_FREE /\ \A x \in Clusters : u[x] # h
      OBVIOUS
    <3>1. h \in Clusters /\ h \notin W
      BY <1>3, WalkIsClosed
    <3>2. u[h] # CLUSTER_FREE
      BY <1>1, <3>1 DEF Structured
    <3>3. \A x \in Clusters : u[x] # h
      BY <1>1, <3>1, Values DEF Structured
    <3> QED
      BY <3>2, <3>3
  <2> QED
    BY <2>3, <2>4, <2>5 DEF Structured
<1>5. AllocatedIn(u) = AllocatedIn(t) \ W
  BY <1>1 DEF AllocatedIn
<1>6. \A h \in H \ {k} : Walk(u, h) = Walk(t, h)
  <2> SUFFICES ASSUME NEW h \in H \ {k}
               PROVE  Walk(u, h) = Walk(t, h)
    OBVIOUS
  <2>1. \A x \in Walk(t, h) : u[x] = t[x]
    BY <1>1, <1>3, WalkIsClosed
  <2> QED
    BY <1>2, <2>1, WalkAgree
<1> QED
  BY <1>2, <1>4, <1>5, <1>6 DEF u

(* trimChain: the chain of k loses what comes after its cluster c, the     *)
(* others stay.                                                            *)
LEMMA ChainCut ==
  ASSUME NEW t \in Tables, NEW H \in SUBSET Clusters, Structured(t, H), NEW k \in H,
         NEW c \in Walk(t, k), t[c] \in Clusters
  PROVE  LET u == Cut(t, c) IN
         /\ u \in Tables
         /\ Structured(u, H)
         /\ AllocatedIn(u) = AllocatedIn(t) \ Walk(t, t[c])
         /\ Walk(u, k) = Walk(t, k) \ Walk(t, t[c])
         /\ \A h \in H \ {k} : Walk(u, h) = Walk(t, h)
<1> DEFINE u == Cut(t, c)
<1> DEFINE n == t[c]
           W == Walk(t, n)
<1> u = [x \in Clusters |-> IF x = c THEN CLUSTER_EOF
                            ELSE IF x \in Walk(t, t[c]) THEN CLUSTER_FREE ELSE t[x]]
  BY DEF Cut
<1> HIDE DEF u
<1>1. /\ c \in Clusters /\ n \in Clusters
      /\ c \notin W
      /\ u[c] = CLUSTER_EOF
      /\ \A x \in Clusters : x \in W => u[x] = CLUSTER_FREE
      /\ \A x \in Clusters : x \notin W /\ x # c => u[x] = t[x]
      /\ t[c] # CLUSTER_FREE
  <2>1. c \in Clusters
    BY WalkIsClosed
  <2>2. c \notin W
    BY NoReturn DEF Structured
  <2> QED
    BY <2>1, <2>2, Values
<1>2. u \in Tables
  BY Values DEF Tables
<1>3. W \subseteq Walk(t, k)
  <2>1. Closed(t, Walk(t, k)) /\ n \in Walk(t, k)
    BY WalkIsClosed DEF Closed
  <2> QED
    BY <1>1, <2>1, WalkIsLeast, WalkIsClosed
<1>4. \A h \in H \ {k} : Walk(t, h) \cap Walk(t, k) = {}
  BY WalksDisjoint DEF Structured
<1>5. \A h \in H : h \notin W
  <2> SUFFICES ASSUME NEW h \in H, h \in W
               PROVE  FALSE
    OBVIOUS
  <2>1. h = n \/ \E d \in W : t[d] = h
    BY <1>1, WalkPredecessor
  <2> QED
    BY <1>1, <2>1, WalkIsClosed DEF Structured
<1>6. \A x \in Clusters \ W : x # c => t[x] \notin W
  <2> SUFFICES ASSUME NEW x \in Clusters \ W, x # c, t[x] \in W
               PROVE  FALSE
    OBVIOUS
  <2>1. PICK d \in W \cup {c} : t[d] = t[x]
    BY <1>1, WalkPredecessor
  <2>2. d \in Clusters /\ t[x] \in Clusters
    BY <1>1, WalkIsClosed
  <2> QED
    BY <2>1, <2>2 DEF Structured, Injective
<1>7. Structured(u, H)
  <2>1. \A x \in Clusters : u[x] \in Clusters => x \notin W /\ x # c /\ u[x] = t[x]
    BY <1>1, Values
  <2>2. Injective(u)
    BY <2>1 DEF Structured, Injective
  <2>3. \A x \in Clusters : u[x] \in Clusters => u[u[x]] # CLUSTER_FREE
    BY <1>1, <1>6, <2>1, Values DEF Structured
  <2>4. ASSUME NEW h \in H
        PROVE  u[h] # CLUSTER_FREE /\ \A x \in Clusters : u[x] # h
    <3>1. u[h] # CLUSTER_FREE
      BY <1>1, <1>5, Values DEF Structured
    <3>2. \A x \in Clusters : u[x] # h
      BY <1>1, Values DEF Structured
    <3> QED
      BY <3>1, <3>2
  <2> QED
    BY <2>2, <2>3, <2>4 DEF Structured
<1>8. AllocatedIn(u) = AllocatedIn(t) \ W
  BY <1>1, Values DEF AllocatedIn
<1>9. Walk(u, k) = Walk(t, k) \ W
  <2>1. Walk(u, k) \subseteq Walk(t, k) \ W
    <3>1. Closed(u, Walk(t, k) \ W)
      <4> SUFFICES ASSUME NEW x \in Walk(t, k) \ W, u[x] \in Clusters
                   PROVE  u[x] \in Walk(t, k) \ W
        BY DEF Closed
      <4>1. x \in Clusters /\ x # c /\ u[x] = t[x]
        BY <1>1, WalkIsClosed, Values
      <4>2. t[x] \in Walk(t, k)
        BY <4>1, WalkIsClosed DEF Closed
      <4> QED
        BY <1>6, <4>1, <4>2
    <3>2. k \in Walk(t, k) \ W /\ Walk(t, k) \ W \subseteq Clusters
      BY <1>5, WalkIsClosed
    <3> QED
      BY <1>2, <3>1, <3>2, WalkIsLeast
  <2>2. Walk(t, k) \subseteq Walk(u, k) \cup W
    <3>1. Closed(t, Walk(u, k) \cup W)
      <4> SUFFICES ASSUME NEW x \in Walk(u, k) \cup W, t[x] \in Clusters
                   PROVE  t[x] \in Walk(u, k) \cup W
        BY DEF Closed
      <4>1. CASE x \in W
        BY <1>1, <4>1, WalkIsClosed DEF Closed
      <4>2. CASE x = c
        BY <1>1, <4>2, WalkIsClosed
      <4>3. CASE x \notin W /\ x # c
        <5>1. x \in Clusters /\ u[x] = t[x] /\ x \in Walk(u, k)
          BY <1>1, <1>2, <4>3, WalkIsClosed
        <5> QED
          BY <1>2, <5>1, WalkIsClosed DEF Closed
      <4> QED
        BY <4>1, <4>2, <4>3
    <3>2. k \in Walk(u, k) \cup W /\ Walk(u, k) \cup W \subseteq Clusters
      BY <1>1, <1>2, WalkIsClosed
    <3> QED
      BY <3>1, <3>2, WalkIsLeast
  <2> QED
    BY <2>1, <2>2
<1>10. \A h \in H \ {k} : Walk(u, h) = Walk(t, h)
  <2> SUFFICES ASSUME NEW h \in H \ {k}
               PROVE  Walk(u, h) = Walk(t, h)
    OBVIOUS
  <2>1. \A x \in Walk(t, h) : u[x] = t[x]
    BY <1>1, <1>3, <1>4, WalkIsClosed
  <2> QED
    BY <1>2, <2>1, WalkAgree
<1> QED
  BY <1>2, <1>7, <1>8, <1>9, <1>10 DEF u

-----------------------------------------------------------------------------
(* The calls. *)

(* The inductive invariant. *)
IInv == TypeOK /\ LinkStructure /\ NoLostClusters

(* No chain but that of f changes. *)
OthersKept(f) == \A g \in Files : g # f => FileChain(g)' = FileChain(g)

(* What linkFreeCluster does for a cluster that no link leads on from. *)
LEMMA LinkOutcome ==
  ASSUME TypeOK, NEW cluster \in {CLUSTER_FREE, LastCluster + 1} \cup Clusters,
         NEW ret \in LinkReturns,
         NextCluster(cluster, {}) \notin Clusters,
         LinkFreeCluster(cluster, ret, {})
  PROVE  /\ firstFree' \in CLUSTER_FIRST .. LastCluster + 1
         /\ numberFreeCluster' \in 0 .. CountCap
         /\ \/ ret = CLUSTER_ERROR /\ fat' = fat
            \/ /\ ret = LastCluster + 1
               /\ cluster \in Clusters \cup {CLUSTER_FREE}
               /\ fat' = IF cluster \in Clusters
                         THEN [fat EXCEPT ![cluster] = LastCluster + 1]
                         ELSE fat
            \/ /\ ret \in Clusters /\ fat[ret] = CLUSTER_FREE
               /\ cluster \in Clusters \cup {CLUSTER_FREE}
               /\ fat' = IF cluster \in Clusters
                         THEN [fat EXCEPT ![cluster] = ret, ![ret] = CLUSTER_EOF]
                         ELSE [fat EXCEPT ![ret] = CLUSTER_EOF]
<1>1. /\ LastCluster \in Nat /\ LastCluster >= 2
      /\ CountCap \in Nat
      /\ Clusters = 2 .. LastCluster
      /\ CLUSTER_FREE = 0 /\ CLUSTER_FIRST = 2
      /\ CLUSTER_EOF = LastCluster + 2 /\ CLUSTER_ERROR = LastCluster + 3
  BY LastClusterAssumption, CountCapAssumption
     DEF Clusters, CLUSTER_FREE, CLUSTER_FIRST, CLUSTER_EOF, CLUSTER_ERROR
<1>2. CASE cluster > LastCluster
  BY <1>1, <1>2 DEF LinkFreeCluster, TypeOK
<1>3. CASE /\ cluster <= LastCluster
           /\ SearchStopsAt(ret, {})
           /\ Allocate(cluster, ret)
  <2>1. /\ ret \in CLUSTER_FIRST .. LastCluster + 1
        /\ ret \in Clusters => fat[ret] = CLUSTER_FREE
    BY <1>1, <1>3
       DEF SearchStopsAt, ReadsFree, NextCluster, Seen, Ahead, TypeOK
  <2>2. /\ firstFree' = ret
        /\ numberFreeCluster' \in 0 .. CountCap
    BY <1>1, <1>3 DEF Allocate, TypeOK
  <2>3. cluster \in Clusters \cup {CLUSTER_FREE}
    BY <1>1, <1>3
  <2>4. fat' = [c \in Clusters |-> IF c = ret THEN CLUSTER_EOF
                                   ELSE IF c = cluster THEN ret ELSE fat[c]]
    BY <1>3 DEF Allocate, WriteFatEntry
  <2>5. CASE ret = LastCluster + 1
    <3>1. fat' = IF cluster \in Clusters
                 THEN [fat EXCEPT ![cluster] = LastCluster + 1]
                 ELSE fat
      <4>1. fat' = [c \in Clusters |-> IF c = cluster THEN LastCluster + 1 ELSE fat[c]]
        BY <1>1, <2>4, <2>5
      <4>2. fat = [c \in Clusters |-> fat[c]]
        BY DEF TypeOK
      <4>3. CASE cluster \in Clusters
        BY <4>1, <4>2, <4>3 DEF TypeOK
      <4>4. CASE cluster \notin Clusters
        <5>1. fat' = [c \in Clusters |-> fat[c]]
          BY <4>1, <4>4
        <5> QED
          BY <4>2, <4>4, <5>1
      <4> QED
        BY <4>3, <4>4
    <3> QED
      BY <1>1, <2>1, <2>2, <2>3, <2>5, <3>1
  <2>6. CASE ret \in Clusters
    <3>1. fat' = IF cluster \in Clusters
                 THEN [fat EXCEPT ![cluster] = ret, ![ret] = CLUSTER_EOF]
                 ELSE [fat EXCEPT ![ret] = CLUSTER_EOF]
      BY <1>1, <2>3, <2>4, <2>6 DEF TypeOK
    <3> QED
      BY <1>1, <2>1, <2>2, <2>3, <2>6, <3>1
  <2> QED
    BY <1>1, <2>1, <2>5, <2>6
<1>4. CASE /\ ret = CLUSTER_ERROR
           /\ firstFree' = LastCluster + 1
           /\ UNCHANGED <<fat, numberFreeCluster>>
  BY <1>1, <1>4 DEF TypeOK
<1>5. cluster <= LastCluster \/ cluster > LastCluster
  BY <1>1
<1> QED
  BY <1>2, <1>3, <1>4, <1>5 DEF LinkFreeCluster, IsValidCluster

(* What clearLinks does to its counters. *)
LEMMA ClearLinksTypes ==
  ASSUME TypeOK, NEW cluster \in Clusters, ClearLinksHints(cluster, {})
  PROVE  /\ firstFree' \in CLUSTER_FIRST .. LastCluster + 1
         /\ numberFreeCluster' \in 0 .. CountCap
         /\ countKept' \in BOOLEAN
<1>1. IsFiniteSet(Clusters)
  BY LastClusterAssumption, FS_Interval DEF Clusters, CLUSTER_FIRST
<1>2. \A S \in SUBSET Clusters : Cardinality(S) \in Nat
  BY <1>1, FS_Subset, FS_CardinalityType
<1>3. Cleared(cluster, {}) \in Nat
  <2> DEFINE W == Walk(Seen({}), cluster)
             P == {c \in W : Seen({})[c] = LastCluster + 1}
  <2>1. W \in SUBSET Clusters /\ P \in SUBSET Clusters
    BY DEF Walk
  <2>2. Cardinality(W) \in Nat /\ Cardinality(P) \in Nat
    BY <1>2, <2>1
  <2> QED
    BY <2>2 DEF Cleared
<1> QED
  BY <1>3, LastClusterAssumption, CountCapAssumption
     DEF ClearLinksHints, CountUp, TypeOK, Clusters, CLUSTER_FIRST

(* LinkStructure in the words of the lemmas on tables. *)
LEMMA StructureOfTheTable ==
  ASSUME TypeOK
  PROVE  /\ fat \in Tables
         /\ Heads \in SUBSET Clusters
         /\ LinkStructure <=> Structured(fat, Heads) /\ HeadsDistinct
BY Values DEF TypeOK, Tables, Heads, LinkStructure, Structured, Injective,
              LinksInjective, LinksAllocated, HeadsUnlinked

(* Chains of different files are disjoint, and hold nothing abandoned.     *)
LEMMA ChainsDisjoint ==
  ASSUME TypeOK, LinkStructure
  PROVE  NoCrossLinks
<1>1. /\ fat \in Tables
      /\ Heads \in SUBSET Clusters
      /\ Structured(fat, Heads)
      /\ HeadsDistinct
  BY StructureOfTheTable
<1>2. \A f \in Files : start[f] # CLUSTER_FREE => start[f] \in Heads /\ start[f] \in Clusters
  BY DEF Heads, TypeOK
<1>3. ASSUME NEW f \in Files, NEW g \in Files, f # g
      PROVE  FileChain(f) \cap FileChain(g) = {}
  <2> SUFFICES ASSUME start[f] # CLUSTER_FREE, start[g] # CLUSTER_FREE
               PROVE  Chain(start[f]) \cap Chain(start[g]) = {}
    BY DEF FileChain
  <2>1. start[f] # start[g]
    BY <1>1, <1>3 DEF HeadsDistinct
  <2> QED
    BY <1>1, <1>2, <2>1, WalksDisjoint DEF Structured, Chain
<1>4. ASSUME NEW f \in Files
      PROVE  FileChain(f) \cap abandoned = {}
  <2> SUFFICES ASSUME start[f] # CLUSTER_FREE, NEW a \in abandoned, a \in Chain(start[f])
               PROVE  FALSE
    BY DEF FileChain
  <2>1. a \in Heads /\ a # start[f] /\ a \in Clusters
    BY <1>1 DEF Heads, HeadsDistinct
  <2>2. PICK d \in Chain(start[f]) : fat[d] = a
    BY <1>1, <1>2, <2>1, WalkPredecessor DEF Chain
  <2> QED
    BY <1>1, <1>2, <2>1, <2>2, WalkIsClosed DEF Chain, Structured
<1> QED
  BY <1>3, <1>4 DEF NoCrossLinks

(* The new volume satisfies the invariant. *)
LEMMA InitIInv == Init => IInv
<1> SUFFICES ASSUME Init
             PROVE  IInv
  OBVIOUS
<1>1. TypeOK
  BY Values, LastClusterAssumption, CountCapAssumption
     DEF Init, TypeOK, Results, CLUSTER_FIRST, InfoCounts, UNKNOWN
<1>2. Heads = {} /\ \A c \in Clusters : fat[c] = CLUSTER_FREE
  BY DEF Init, Heads
<1>3. LinkStructure
  BY <1>2, Values DEF Init, LinkStructure, LinksInjective, LinksAllocated,
                      HeadsDistinct, HeadsUnlinked
<1>4. NoLostClusters
  BY DEF Init, NoLostClusters, FileChain
<1> QED
  BY <1>1, <1>3, <1>4 DEF IInv

(* What the invariant gives to the proof of each step. *)
LEMMA IInvFacts ==
  ASSUME IInv
  PROVE  /\ TypeOK /\ HeadsDistinct /\ NoCrossLinks
         /\ fat \in Tables
         /\ Heads \in SUBSET Clusters
         /\ Structured(fat, Heads)
         /\ Seen({}) = fat
         /\ AllocatedIn(fat) = abandoned \cup UNION {FileChain(f) : f \in Files}
         /\ \A f \in Files : start[f] # CLUSTER_FREE =>
              start[f] \in Heads /\ FileChain(f) = Walk(fat, start[f])
<1>1. TypeOK /\ LinkStructure /\ NoLostClusters
  BY DEF IInv
<1>2. Seen({}) = fat
  BY <1>1 DEF Seen, TypeOK
<1>3. AllocatedIn(fat) = abandoned \cup UNION {FileChain(f) : f \in Files}
  BY <1>1 DEF NoLostClusters, AllocatedIn
<1>4. \A f \in Files : start[f] # CLUSTER_FREE =>
        start[f] \in Heads /\ FileChain(f) = Walk(fat, start[f])
  BY DEF Heads, FileChain, Chain
<1> QED
  BY <1>1, <1>2, <1>3, <1>4, StructureOfTheTable, ChainsDisjoint

(* A file gets its first cluster. *)
LEMMA CreateStep ==
  ASSUME IInv, ReadFaults = FALSE, NEW f \in Files, Create(f)
  PROVE  IInv' /\ OthersKept(f)
<1>1. /\ TypeOK /\ HeadsDistinct /\ NoCrossLinks
      /\ fat \in Tables /\ Heads \in SUBSET Clusters /\ Structured(fat, Heads)
      /\ AllocatedIn(fat) = abandoned \cup UNION {FileChain(g) : g \in Files}
  BY IInvFacts
<1>2. PICK ret \in LinkReturns :
        /\ start[f] = CLUSTER_FREE
        /\ LinkFreeCluster(CLUSTER_FREE, ret, {})
        /\ start' = [start EXCEPT ![f] = IF ret \in Clusters THEN ret ELSE CLUSTER_FREE]
        /\ SetLinkResult(ret)
        /\ abandoned' = abandoned
        /\ infoSector' = infoSector /\ infoPage' = infoPage /\ countKept' = countKept
  BY DEF Create, BadReads, IsValidCluster, info
<1>3. /\ firstFree' \in CLUSTER_FIRST .. LastCluster + 1
      /\ numberFreeCluster' \in 0 .. CountCap
      /\ \/ ret \notin Clusters /\ fat' = fat
         \/ /\ ret \in Clusters /\ fat[ret] = CLUSTER_FREE
            /\ fat' = [fat EXCEPT ![ret] = CLUSTER_EOF]
  <2>1. NextCluster(CLUSTER_FREE, {}) \notin Clusters
    BY Values DEF NextCluster
  <2> QED
    BY <1>1, <1>2, <2>1, LinkOutcome, Values
<1>4. result' \in Results /\ start' \in [Files -> Clusters \cup {CLUSTER_FREE}]
  BY <1>1, <1>2 DEF SetLinkResult, Results, TypeOK
<1>5. CASE ret \notin Clusters /\ fat' = fat
  <2>1. start' = start
    BY <1>1, <1>2, <1>5 DEF TypeOK
  <2>2. TypeOK'
    BY <1>1, <1>2, <1>3, <1>4, <1>5 DEF TypeOK
  <2>3. LinkStructure'
    BY <1>2, <1>5, <2>1
       DEF IInv, LinkStructure, LinksInjective, LinksAllocated, HeadsDistinct,
           HeadsUnlinked, Heads
  <2>4. NoLostClusters'
    BY <1>2, <1>5, <2>1 DEF IInv, NoLostClusters, FileChain, Chain
  <2>5. OthersKept(f)
    BY <1>5, <2>1 DEF OthersKept, FileChain, Chain
  <2> QED
    BY <2>2, <2>3, <2>4, <2>5 DEF IInv
<1>6. CASE /\ ret \in Clusters /\ fat[ret] = CLUSTER_FREE
           /\ fat' = [fat EXCEPT ![ret] = CLUSTER_EOF]
  <2>1. /\ fat' \in Tables
        /\ ret \notin Heads
        /\ Structured(fat', Heads \cup {ret})
        /\ AllocatedIn(fat') = AllocatedIn(fat) \cup {ret}
        /\ Walk(fat', ret) = {ret}
        /\ \A h \in Clusters : Walk(fat', h) = Walk(fat, h)
    BY <1>1, <1>6, NewChain DEF Marked
  <2>2. /\ start'[f] = ret /\ ret # CLUSTER_FREE
        /\ \A g \in Files : g # f => start'[g] = start[g]
    BY <1>1, <1>2, <1>6, Values DEF TypeOK
  <2>3. TypeOK'
    BY <1>1, <1>2, <1>3, <1>4, <2>1 DEF TypeOK, Tables
  <2>4. Heads' = Heads \cup {ret}
    BY <1>2, <2>2 DEF Heads
  <2>5. HeadsDistinct'
    BY <1>1, <1>2, <2>1, <2>2 DEF HeadsDistinct, Heads
  <2>6. LinkStructure'
    BY <2>1, <2>4, <2>5
       DEF Structured, Injective, LinkStructure, LinksInjective, LinksAllocated, HeadsUnlinked
  <2>7. /\ FileChain(f)' = {ret} /\ FileChain(f) = {}
        /\ \A g \in Files : g # f => FileChain(g)' = FileChain(g)
    BY <1>1, <1>2, <2>1, <2>2 DEF FileChain, Chain, TypeOK
  <2>8. NoLostClusters'
    BY <1>1, <1>2, <2>1, <2>7 DEF NoLostClusters, AllocatedIn
  <2> QED
    BY <2>3, <2>6, <2>7, <2>8 DEF IInv, OthersKept
<1> QED
  BY <1>3, <1>5, <1>6

(* mkdir takes a cluster and drops it. *)
LEMMA CreateWithoutEntryStep ==
  ASSUME IInv, ReadFaults = FALSE, CreateWithoutEntry
  PROVE  IInv' /\ \A g \in Files : FileChain(g)' = FileChain(g)
<1>1. /\ TypeOK /\ HeadsDistinct
      /\ fat \in Tables /\ Heads \in SUBSET Clusters /\ Structured(fat, Heads)
      /\ AllocatedIn(fat) = abandoned \cup UNION {FileChain(g) : g \in Files}
  BY IInvFacts
<1>2. PICK ret \in LinkReturns :
        /\ LinkFreeCluster(CLUSTER_FREE, ret, {})
        /\ abandoned' = abandoned \cup ({ret} \cap Clusters)
        /\ SetLinkResult(ret)
        /\ start' = start
        /\ infoSector' = infoSector /\ infoPage' = infoPage /\ countKept' = countKept
  BY DEF CreateWithoutEntry, BadReads, info
<1>3. /\ firstFree' \in CLUSTER_FIRST .. LastCluster + 1
      /\ numberFreeCluster' \in 0 .. CountCap
      /\ \/ ret \notin Clusters /\ fat' = fat
         \/ /\ ret \in Clusters /\ fat[ret] = CLUSTER_FREE
            /\ fat' = [fat EXCEPT ![ret] = CLUSTER_EOF]
  <2>1. NextCluster(CLUSTER_FREE, {}) \notin Clusters
    BY Values DEF NextCluster
  <2> QED
    BY <1>1, <1>2, <2>1, LinkOutcome, Values
<1>4. result' \in Results /\ abandoned' \in SUBSET Clusters
  BY <1>1, <1>2 DEF SetLinkResult, Results, TypeOK
<1>5. CASE ret \notin Clusters /\ fat' = fat
  <2>1. abandoned' = abandoned
    BY <1>2, <1>5
  <2>2. TypeOK'
    BY <1>1, <1>2, <1>3, <1>4, <1>5 DEF TypeOK
  <2>3. LinkStructure'
    BY <1>2, <1>5, <2>1
       DEF IInv, LinkStructure, LinksInjective, LinksAllocated, HeadsDistinct,
           HeadsUnlinked, Heads
  <2>4. NoLostClusters'
    BY <1>2, <1>5, <2>1 DEF IInv, NoLostClusters, FileChain, Chain
  <2>5. \A g \in Files : FileChain(g)' = FileChain(g)
    BY <1>2, <1>5 DEF FileChain, Chain
  <2> QED
    BY <2>2, <2>3, <2>4, <2>5 DEF IInv
<1>6. CASE /\ ret \in Clusters /\ fat[ret] = CLUSTER_FREE
           /\ fat' = [fat EXCEPT ![ret] = CLUSTER_EOF]
  <2>1. /\ fat' \in Tables
        /\ ret \notin Heads
        /\ Structured(fat', Heads \cup {ret})
        /\ AllocatedIn(fat') = AllocatedIn(fat) \cup {ret}
        /\ \A h \in Clusters : Walk(fat', h) = Walk(fat, h)
    BY <1>1, <1>6, NewChain DEF Marked
  <2>2. abandoned' = abandoned \cup {ret}
    BY <1>2, <1>6
  <2>3. TypeOK'
    BY <1>1, <1>2, <1>3, <1>4, <2>1 DEF TypeOK, Tables
  <2>4. Heads' = Heads \cup {ret}
    BY <1>2, <2>2 DEF Heads
  <2>5. HeadsDistinct'
    BY <1>1, <1>2, <2>1, <2>2 DEF HeadsDistinct, Heads
  <2>6. LinkStructure'
    BY <2>1, <2>4, <2>5
       DEF Structured, Injective, LinkStructure, LinksInjective, LinksAllocated, HeadsUnlinked
  <2>7. \A g \in Files : FileChain(g)' = FileChain(g)
    BY <1>1, <1>2, <2>1 DEF FileChain, Chain, TypeOK
  <2>8. NoLostClusters'
    BY <1>1, <1>2, <2>1, <2>2, <2>7 DEF NoLostClusters, AllocatedIn
  <2> QED
    BY <2>3, <2>6, <2>7, <2>8 DEF IInv
<1> QED
  BY <1>3, <1>5, <1>6

(* A chain grows at its end. *)
LEMMA ExtendStep ==
  ASSUME IInv, ReadFaults = FALSE, NEW f \in Files, Extend(f)
  PROVE  IInv' /\ OthersKept(f)
<1>1. /\ TypeOK /\ HeadsDistinct /\ NoCrossLinks
      /\ fat \in Tables /\ Heads \in SUBSET Clusters /\ Structured(fat, Heads)
      /\ Seen({}) = fat
      /\ AllocatedIn(fat) = abandoned \cup UNION {FileChain(g) : g \in Files}
      /\ \A g \in Files : start[g] # CLUSTER_FREE =>
           start[g] \in Heads /\ FileChain(g) = Walk(fat, start[g])
  BY IInvFacts
<1>2. PICK c \in Ends(f), ret \in LinkReturns :
        /\ LinkFreeCluster(c, ret, {})
        /\ SetLinkResult(ret)
        /\ start' = start /\ abandoned' = abandoned
        /\ infoSector' = infoSector /\ infoPage' = infoPage /\ countKept' = countKept
  BY DEF Extend, BadReads, info
<1>3. /\ c \in Clusters \cup {LastCluster + 1}
      /\ NextCluster(c, {}) \in {CLUSTER_FREE, CLUSTER_EOF}
      /\ start[f] # CLUSTER_FREE
      /\ c \in Clusters => /\ c \in FileChain(f)
                           /\ fat[c] \notin Clusters /\ fat[c] # CLUSTER_FREE
  <2>1. start[f] # CLUSTER_FREE
    BY DEF Ends, FileChain
  <2>2. FileChain(f) = Walk(fat, start[f]) /\ start[f] \in Clusters
    BY <1>1, <2>1
  <2>3. c \in Clusters \cup {LastCluster + 1}
    BY LastClusterAssumption DEF Ends, Clusters
  <2>4. c \in Clusters => c \in FileChain(f)
    BY <1>1, <2>2, WalkIsClosed DEF Ends, Closed
  <2>5. FileChain(f) \subseteq AllocatedIn(fat)
    BY <1>1, <2>1, WalkAllocated
  <2>6. NextCluster(c, {}) \in {CLUSTER_FREE, CLUSTER_EOF}
    BY DEF Ends
  <2>7. c \in Clusters => fat[c] \in {CLUSTER_FREE, CLUSTER_EOF}
    BY <1>1, <2>6, Values DEF NextCluster
  <2> QED
    BY <2>1, <2>3, <2>4, <2>5, <2>6, <2>7, Values DEF AllocatedIn
<1>4. /\ firstFree' \in CLUSTER_FIRST .. LastCluster + 1
      /\ numberFreeCluster' \in 0 .. CountCap
      /\ \/ fat' = fat
         \/ c \in Clusters /\ fat' = Ended(fat, c, LastCluster + 1)
         \/ /\ c \in Clusters /\ ret \in Clusters /\ fat[ret] = CLUSTER_FREE
            /\ fat' = Grown(fat, c, ret)
  <2>1. NextCluster(c, {}) \notin Clusters
    BY <1>3, Values
  <2>2. CLUSTER_FREE \notin Clusters \cup {LastCluster + 1}
    BY Values, LastClusterAssumption DEF CLUSTER_FREE, CLUSTER_FIRST
  <2> QED
    BY <1>1, <1>2, <1>3, <2>1, <2>2, LinkOutcome DEF Ended, Grown
<1>5. result' \in Results
  BY <1>2 DEF SetLinkResult, Results
<1>6. Heads' = Heads /\ HeadsDistinct'
  BY <1>1, <1>2 DEF Heads, HeadsDistinct
<1>7. CASE /\ fat' \in Tables
           /\ Structured(fat', Heads)
           /\ AllocatedIn(fat') = AllocatedIn(fat)
           /\ \A h \in Clusters : Walk(fat', h) = Walk(fat, h)
  <2>1. TypeOK'
    BY <1>1, <1>2, <1>4, <1>5, <1>7 DEF TypeOK, Tables
  <2>2. LinkStructure'
    BY <1>6, <1>7
       DEF Structured, Injective, LinkStructure, LinksInjective, LinksAllocated, HeadsUnlinked
  <2>3. \A g \in Files : FileChain(g)' = FileChain(g)
    BY <1>1, <1>2, <1>7 DEF FileChain, Chain, TypeOK
  <2>4. NoLostClusters'
    BY <1>1, <1>2, <1>7, <2>3 DEF NoLostClusters, AllocatedIn
  <2> QED
    BY <2>1, <2>2, <2>3, <2>4 DEF IInv, OthersKept
<1>8. CASE c \in Clusters /\ fat' = Ended(fat, c, LastCluster + 1)
  BY <1>1, <1>3, <1>7, <1>8, EndRewritten
<1>9. CASE /\ c \in Clusters /\ ret \in Clusters /\ fat[ret] = CLUSTER_FREE
           /\ fat' = Grown(fat, c, ret)
  <2>1. /\ fat' \in Tables
        /\ Structured(fat', Heads)
        /\ AllocatedIn(fat') = AllocatedIn(fat) \cup {ret}
        /\ \A h \in Clusters :
             Walk(fat', h) = Walk(fat, h) \cup (IF c \in Walk(fat, h) THEN {ret} ELSE {})
    BY <1>1, <1>3, <1>9, LongerChain
  <2>2. TypeOK'
    BY <1>1, <1>2, <1>4, <1>5, <2>1 DEF TypeOK, Tables
  <2>3. LinkStructure'
    BY <1>6, <2>1
       DEF Structured, Injective, LinkStructure, LinksInjective, LinksAllocated, HeadsUnlinked
  <2>4. /\ FileChain(f)' = FileChain(f) \cup {ret}
        /\ \A g \in Files : g # f => FileChain(g)' = FileChain(g)
    <3>1. ASSUME NEW g \in Files
          PROVE  FileChain(g)' = FileChain(g) \cup (IF c \in FileChain(g) THEN {ret} ELSE {})
      BY <1>1, <1>2, <2>1 DEF FileChain, Chain, TypeOK
    <3>2. \A g \in Files : g # f => c \notin FileChain(g)
      BY <1>1, <1>3, <1>9 DEF NoCrossLinks
    <3> QED
      BY <1>3, <1>9, <3>1, <3>2
  <2>5. NoLostClusters'
    BY <1>1, <1>2, <2>1, <2>4 DEF NoLostClusters, AllocatedIn
  <2> QED
    BY <2>2, <2>3, <2>4, <2>5 DEF IInv, OthersKept
<1>10. CASE fat' = fat
  BY <1>1, <1>7, <1>10
<1> QED
  BY <1>4, <1>8, <1>9, <1>10

(* A chain is given back. *)
LEMMA RemoveStep ==
  ASSUME IInv, ReadFaults = FALSE, NEW f \in Files, Remove(f)
  PROVE  IInv' /\ OthersKept(f)
<1>1. /\ TypeOK /\ HeadsDistinct /\ NoCrossLinks
      /\ fat \in Tables /\ Heads \in SUBSET Clusters /\ Structured(fat, Heads)
      /\ Seen({}) = fat
      /\ AllocatedIn(fat) = abandoned \cup UNION {FileChain(g) : g \in Files}
      /\ \A g \in Files : start[g] # CLUSTER_FREE =>
           start[g] \in Heads /\ FileChain(g) = Walk(fat, start[g])
  BY IInvFacts
<1>2. /\ start[f] \in Clusters
      /\ ClearLinksHints(start[f], {})
      /\ fat' = FreeChain(fat, start[f], {})
      /\ start' = [start EXCEPT ![f] = CLUSTER_FREE]
      /\ result' = "released"
      /\ abandoned' = abandoned
      /\ infoSector' = infoSector /\ infoPage' = infoPage
  BY DEF Remove, BadReads, IsValidCluster, ClearLinks, info
<1>3. fat' = Freed(fat, start[f])
  BY <1>1, <1>2 DEF FreeChain, Freed
<1>4. start[f] \in Heads /\ start[f] # CLUSTER_FREE /\ FileChain(f) = Walk(fat, start[f])
  BY <1>1, <1>2, Values
<1>5. /\ fat' \in Tables
      /\ Structured(fat', Heads \ {start[f]})
      /\ AllocatedIn(fat') = AllocatedIn(fat) \ FileChain(f)
      /\ \A h \in Heads \ {start[f]} : Walk(fat', h) = Walk(fat, h)
  BY <1>1, <1>3, <1>4, ChainFreed
<1>6. /\ start'[f] = CLUSTER_FREE
      /\ \A g \in Files : g # f => start'[g] = start[g]
  BY <1>1, <1>2 DEF TypeOK
<1>7. Heads' = Heads \ {start[f]}
  BY <1>1, <1>2, <1>4, <1>6 DEF Heads, HeadsDistinct
<1>8. TypeOK'
  <2>1. start' \in [Files -> Clusters \cup {CLUSTER_FREE}] /\ result' \in Results
    BY <1>1, <1>2 DEF TypeOK, Results
  <2> QED
    BY <1>1, <1>2, <1>5, <2>1, ClearLinksTypes DEF TypeOK, Tables
<1>9. LinkStructure'
  <2>1. HeadsDistinct'
    BY <1>1, <1>2, <1>6 DEF HeadsDistinct
  <2> QED
    BY <1>5, <1>7, <2>1
       DEF Structured, Injective, LinkStructure, LinksInjective, LinksAllocated, HeadsUnlinked
<1>10. NoLostClusters' /\ OthersKept(f)
  <2>1. FileChain(f)' = {}
    BY <1>6 DEF FileChain
  <2>2. ASSUME NEW g \in Files, g # f
        PROVE  FileChain(g)' = FileChain(g)
    <3>1. start[g] # CLUSTER_FREE => start[g] \in Heads \ {start[f]}
      BY <1>1, <2>2 DEF HeadsDistinct
    <3> QED
      BY <1>5, <1>6, <2>2, <3>1 DEF FileChain, Chain
  <2>3. /\ FileChain(f) \cap abandoned = {}
        /\ \A g \in Files : g # f => FileChain(g) \cap FileChain(f) = {}
    BY <1>1 DEF NoCrossLinks
  <2>4. AllocatedIn(fat') = abandoned' \cup UNION {FileChain(g)' : g \in Files}
    BY <1>1, <1>2, <1>5, <2>1, <2>2, <2>3
  <2> QED
    BY <2>2, <2>4 DEF NoLostClusters, AllocatedIn, OthersKept
<1> QED
  BY <1>8, <1>9, <1>10 DEF IInv

(* A chain is cut after one of its clusters. *)
LEMMA ShrinkStep ==
  ASSUME IInv, ReadFaults = FALSE, NEW f \in Files, Shrink(f)
  PROVE  IInv' /\ OthersKept(f)
<1>1. /\ TypeOK /\ HeadsDistinct /\ NoCrossLinks
      /\ fat \in Tables /\ Heads \in SUBSET Clusters /\ Structured(fat, Heads)
      /\ Seen({}) = fat
      /\ AllocatedIn(fat) = abandoned \cup UNION {FileChain(g) : g \in Files}
      /\ \A g \in Files : start[g] # CLUSTER_FREE =>
           start[g] \in Heads /\ FileChain(g) = Walk(fat, start[g])
  BY IInvFacts
<1>2. PICK c \in FileChain(f) :
        /\ TrimChain(c, {})
        /\ result' = "released"
        /\ start' = start /\ abandoned' = abandoned
        /\ infoSector' = infoSector /\ infoPage' = infoPage
  BY DEF Shrink, BadReads, info
<1>3. /\ start[f] # CLUSTER_FREE /\ start[f] \in Heads
      /\ FileChain(f) = Walk(fat, start[f])
      /\ c \in Clusters /\ fat[c] # CLUSTER_FREE
      /\ NextCluster(c, {}) = fat[c]
  <2>1. start[f] # CLUSTER_FREE
    BY <1>2 DEF FileChain
  <2>2. start[f] \in Heads /\ FileChain(f) = Walk(fat, start[f])
    BY <1>1, <2>1
  <2>3. c \in AllocatedIn(fat)
    BY <1>1, <2>2, WalkAllocated
  <2> QED
    BY <1>1, <2>1, <2>2, <2>3, Values DEF AllocatedIn, NextCluster
<1>4. Heads' = Heads /\ HeadsDistinct' /\ result' \in Results
  BY <1>1, <1>2 DEF Heads, HeadsDistinct, Results
<1>5. CASE fat[c] \in Clusters
  <2>1. fat' = Cut(fat, c) /\ ClearLinksHints(fat[c], {})
    BY <1>1, <1>2, <1>3, <1>5
       DEF TrimChain, IsValidCluster, WriteFatEntry, FreeChain, Cut
  <2>2. /\ fat' \in Tables
        /\ Structured(fat', Heads)
        /\ AllocatedIn(fat') = AllocatedIn(fat) \ Walk(fat, fat[c])
        /\ Walk(fat', start[f]) = Walk(fat, start[f]) \ Walk(fat, fat[c])
        /\ \A h \in Heads \ {start[f]} : Walk(fat', h) = Walk(fat, h)
    BY <1>1, <1>3, <1>5, <2>1, ChainCut
  <2>3. TypeOK'
    BY <1>1, <1>2, <1>4, <1>5, <2>1, <2>2, ClearLinksTypes DEF TypeOK, Tables
  <2>4. LinkStructure'
    BY <1>4, <2>2
       DEF Structured, Injective, LinkStructure, LinksInjective, LinksAllocated, HeadsUnlinked
  <2>5. NoLostClusters' /\ OthersKept(f)
    <3>1. FileChain(f)' = FileChain(f) \ Walk(fat, fat[c])
      BY <1>2, <1>3, <2>2 DEF FileChain, Chain
    <3>2. ASSUME NEW g \in Files, g # f
          PROVE  FileChain(g)' = FileChain(g)
      <4>1. start[g] # CLUSTER_FREE => start[g] \in Heads \ {start[f]}
        BY <1>1, <3>2 DEF HeadsDistinct
      <4> QED
        BY <1>2, <2>2, <4>1 DEF FileChain, Chain
    <3>3. Walk(fat, fat[c]) \subseteq FileChain(f)
      BY <1>1, <1>2, <1>3, <1>5, WalkIsClosed, WalkIsLeast DEF Closed
    <3>4. /\ FileChain(f) \cap abandoned = {}
          /\ \A g \in Files : g # f => FileChain(g) \cap FileChain(f) = {}
      BY <1>1 DEF NoCrossLinks
    <3>5. AllocatedIn(fat') = abandoned' \cup UNION {FileChain(g)' : g \in Files}
      BY <1>1, <1>2, <2>2, <3>1, <3>2, <3>3, <3>4
    <3> QED
      BY <3>2, <3>5 DEF NoLostClusters, AllocatedIn, OthersKept
  <2> QED
    BY <2>3, <2>4, <2>5 DEF IInv
<1>6. CASE fat[c] \notin Clusters
  <2>1. /\ fat' = Ended(fat, c, CLUSTER_EOF)
        /\ UNCHANGED <<firstFree, numberFreeCluster, countKept>>
    BY <1>1, <1>2, <1>3, <1>6
       DEF TrimChain, IsValidCluster, WriteFatEntry, Ended, TypeOK
  <2>2. /\ fat' \in Tables
        /\ Structured(fat', Heads)
        /\ AllocatedIn(fat') = AllocatedIn(fat)
        /\ \A h \in Clusters : Walk(fat', h) = Walk(fat, h)
    BY <1>1, <1>3, <1>6, <2>1, EndRewritten
  <2>3. TypeOK'
    BY <1>1, <1>2, <1>4, <2>1, <2>2 DEF TypeOK, Tables
  <2>4. LinkStructure'
    BY <1>4, <2>2
       DEF Structured, Injective, LinkStructure, LinksInjective, LinksAllocated, HeadsUnlinked
  <2>5. \A g \in Files : FileChain(g)' = FileChain(g)
    BY <1>1, <1>2, <2>2 DEF FileChain, Chain, TypeOK
  <2>6. NoLostClusters'
    BY <1>1, <1>2, <2>2, <2>5 DEF NoLostClusters, AllocatedIn
  <2> QED
    BY <2>3, <2>4, <2>5, <2>6 DEF IInv, OthersKept
<1> QED
  BY <1>5, <1>6

(* What does not change the table, the start clusters or the abandoned     *)
(* ones preserves all of the invariant that is about them.                 *)
LEMMA TableUnchanged ==
  ASSUME IInv, fat' = fat, start' = start, abandoned' = abandoned
  PROVE  /\ LinkStructure' /\ NoLostClusters'
         /\ \A g \in Files : FileChain(g)' = FileChain(g)
BY DEF IInv, LinkStructure, LinksInjective, LinksAllocated, HeadsDistinct,
       HeadsUnlinked, Heads, NoLostClusters, FileChain, Chain

(* The sector is read: the count stays in its range.                       *)
LEMMA ReadFSinfoTypes ==
  ASSUME TypeOK, NEW count \in InfoCounts, ReadFSinfo(count)
  PROVE  /\ numberFreeCluster' \in 0 .. CountCap
         /\ infoSector' \in InfoCounts
         /\ countKept' \in BOOLEAN
<1>1. FreeClusterCount \in 0 .. CountCap
  <2>1. FreeClusters \subseteq Clusters
    BY DEF FreeClusters
  <2>2. IsFiniteSet(Clusters) /\ Cardinality(Clusters) = LastCluster - 1
    BY LastClusterAssumption, FS_Interval DEF Clusters, CLUSTER_FIRST
  <2>3. /\ Cardinality(FreeClusters) \in Nat
        /\ Cardinality(FreeClusters) <= LastCluster - 1
    BY <2>1, <2>2, FS_Subset, FS_CardinalityType
  <2> QED
    BY <2>3, LastClusterAssumption, CountCapAssumption DEF FreeClusterCount
<1>2. numberFreeCluster' \in 0 .. CountCap
  BY <1>1, CountCapAssumption DEF ReadFSinfo, InfoCounts, UNKNOWN
<1>3. infoSector' \in InfoCounts
  BY <1>2, CountCapAssumption DEF ReadFSinfo, InfoCounts, UNKNOWN
<1>4. countKept' \in BOOLEAN
  BY DEF ReadFSinfo, TypeOK
<1> QED
  BY <1>2, <1>3, <1>4

(* Mounts, and what else reads and writes the sector: no chain changes.    *)
LEMMA SectorStep ==
  ASSUME IInv, LoadPage \/ FlushPage \/ Remount \/ ExitAndMount
  PROVE  /\ IInv' /\ fat' = fat /\ start' = start
         /\ result' = "none"
         /\ \A g \in Files : FileChain(g)' = FileChain(g)
<1>1. TypeOK
  BY DEF IInv
<1>2. numberFreeCluster \in InfoCounts /\ infoSector \in InfoCounts /\ infoPage \in InfoCounts
  BY <1>1, CountCapAssumption DEF TypeOK, InfoCounts, UNKNOWN
<1>3. /\ fat' = fat /\ start' = start /\ abandoned' = abandoned /\ result' = "none"
      /\ firstFree' \in {firstFree, CLUSTER_FIRST}
  BY DEF LoadPage, FlushPage, Remount, ExitAndMount, Mount
<1>4. /\ numberFreeCluster' \in 0 .. CountCap
      /\ infoSector' \in InfoCounts /\ infoPage' \in InfoCounts
      /\ countKept' \in BOOLEAN
  <2>1. CASE LoadPage \/ FlushPage
    BY <1>1, <1>2, <2>1 DEF LoadPage, FlushPage, TypeOK
  <2>2. ASSUME NEW count \in InfoCounts, Mount(count)
        PROVE  /\ numberFreeCluster' \in 0 .. CountCap
               /\ infoSector' \in InfoCounts /\ infoPage' \in InfoCounts
               /\ countKept' \in BOOLEAN
    <3>1. CASE FilesysType = "FAT32"
      BY <1>1, <2>2, <3>1, ReadFSinfoTypes DEF Mount
    <3>2. CASE FilesysType # "FAT32"
      <4>1. countKept' \in BOOLEAN
        BY <2>2, <3>2 DEF Mount
      <4>2. infoSector' = infoSector /\ infoPage' = infoPage
        BY <2>2, <3>2 DEF Mount, info
      <4>3. numberFreeCluster' \in 0 .. CountCap
        BY <2>2, <3>2, CountCapAssumption DEF Mount
      <4> QED
        BY <1>2, <4>1, <4>2, <4>3
    <3> QED
      BY <3>1, <3>2
  <2> QED
    BY <1>2, <2>1, <2>2 DEF Remount, ExitAndMount
<1>5. TypeOK'
  BY <1>1, <1>3, <1>4, LastClusterAssumption DEF TypeOK, Results, CLUSTER_FIRST
<1> QED
  BY <1>3, <1>5, TableUnchanged DEF IInv

(* Every step preserves the invariant. *)
LEMMA NextIInv ==
  ASSUME IInv, ReadFaults = FALSE, [Next]_vars
  PROVE  IInv'
<1>1. ASSUME NEW f \in Files, Create(f) \/ Extend(f) \/ Remove(f) \/ Shrink(f)
      PROVE  IInv'
  BY <1>1, CreateStep, ExtendStep, RemoveStep, ShrinkStep
<1>2. CASE CreateWithoutEntry
  BY <1>2, CreateWithoutEntryStep
<1>3. CASE LoadPage \/ FlushPage \/ Remount \/ ExitAndMount
  BY <1>3, SectorStep
<1>4. CASE UNCHANGED vars
  BY <1>4, TableUnchanged DEF vars, info, IInv, TypeOK
<1> QED
  BY <1>1, <1>2, <1>3, <1>4 DEF Next

-----------------------------------------------------------------------------
(* Theorems. *)

(* On a disc whose reads do not fail, the invariant holds throughout.      *)
THEOREM Invariance ==
  ASSUME ReadFaults = FALSE
  PROVE  Spec => []IInv
<1>1. IInv /\ [Next]_vars => IInv'
  BY NextIInv
<1> QED
  BY InitIInv, <1>1, PTL DEF Spec

(* The variables of file_allocation_table.c stay in their ranges: links    *)
(* lead to clusters or one past the end, the hint to where a search can    *)
(* begin, the count stays below its cap.                                   *)
THEOREM TypeCorrect ==
  ASSUME ReadFaults = FALSE
  PROVE  Spec => []TypeOK
BY Invariance, PTL DEF IInv

(* No two files ever share a cluster, even on a full disc whose table is   *)
(* followed by zero padding.                                               *)
THEOREM ChainsNeverMeet ==
  ASSUME ReadFaults = FALSE
  PROVE  Spec => []NoCrossLinks
<1>1. IInv => NoCrossLinks
  BY ChainsDisjoint DEF IInv
<1> QED
  BY <1>1, Invariance, PTL

(* The allocated clusters are exactly those of the files and those mkdir   *)
(* dropped: no call leaks a cluster or frees one that is in use.           *)
THEOREM NothingLost ==
  ASSUME ReadFaults = FALSE
  PROVE  Spec => []NoLostClusters
BY Invariance, PTL DEF IInv

(* linkFreeCluster, trimChain and clearLinks touch the chain they are      *)
(* called for and no other, whatever the state of the table.               *)
THEOREM OneChainAtATime ==
  ASSUME ReadFaults = FALSE
  PROVE  Spec => OtherChainsUntouched
<1> DEFINE P == \A f, g \in Files :
                  (f # g /\ FileChain(f)' # FileChain(f)) => FileChain(g)' = FileChain(g)
<1>1. ASSUME IInv, [Next]_vars
      PROVE  P
  <2>1. CASE \E f \in Files : Create(f) \/ Extend(f) \/ Remove(f) \/ Shrink(f)
    <3>1. \E f \in Files : OthersKept(f)
      BY <1>1, <2>1, CreateStep, ExtendStep, RemoveStep, ShrinkStep
    <3> QED
      BY <3>1 DEF OthersKept
  <2>2. CASE \/ CreateWithoutEntry \/ UNCHANGED vars
             \/ LoadPage \/ FlushPage \/ Remount \/ ExitAndMount
    <3>1. \A g \in Files : FileChain(g)' = FileChain(g)
      BY <1>1, <2>2, CreateWithoutEntryStep, SectorStep, TableUnchanged DEF vars
    <3> QED
      BY <3>1
  <2> QED
    BY <1>1, <2>1, <2>2 DEF Next
<1>2. IInv /\ [Next]_vars => [P]_vars
  BY <1>1
<1> QED
  BY <1>2, Invariance, PTL DEF Spec, OtherChainsUntouched

-----------------------------------------------------------------------------
(* Chains end, the count of free clusters is right as long as it was kept  *)
(* right through the FSInfo sector, and a free cluster is found, whatever  *)
(* follows the table: zero padding, where the search of linkFreeCluster    *)
(* can stop past the end and a link then leads to LastCluster + 1, or not. *)
(*                                                                         *)
(* The argument adds to the invariant above that the hint stands past the  *)
(* end only while no cluster is free (HintPastEnd): searches that failed   *)
(* put it there, and every release moves it back.  That a cut keeps the    *)
(* end of no chain is a matter of counting: links are injective, so a set  *)
(* of clusters that they map into itself has no way in.                    *)

LEMMA ClustersFinite ==
  /\ IsFiniteSet(Clusters) /\ Cardinality(Clusters) = LastCluster - 1
  /\ \A S \in SUBSET Clusters :
       IsFiniteSet(S) /\ Cardinality(S) \in Nat /\ Cardinality(S) <= LastCluster - 1
<1>1. IsFiniteSet(Clusters) /\ Cardinality(Clusters) = LastCluster - 1
  BY LastClusterAssumption, FS_Interval DEF Clusters, CLUSTER_FIRST
<1> QED
  BY <1>1, FS_Subset, FS_CardinalityType

-----------------------------------------------------------------------------
(* The ends of chains. *)

EndMarks == {CLUSTER_EOF, LastCluster + 1}

(* The walk from h ends in a mark and its other links stay in it. *)
Terminated(t, h) ==
  \E c \in Walk(t, h) :
    /\ t[c] \in EndMarks
    /\ \A d \in Walk(t, h) \ {c} : t[d] \in Walk(t, h)

(* Injective links that stay in a set of clusters lead to each of them. *)
LEMMA NoWayIn ==
  ASSUME NEW t \in Tables, Injective(t), NEW W \in SUBSET Clusters,
         \A d \in W : t[d] \in W, NEW n \in W
  PROVE  \E d \in W : t[d] = n
<1> SUFFICES ASSUME \A d \in W : t[d] # n
             PROVE  FALSE
  OBVIOUS
<1> DEFINE f == [d \in W |-> t[d]]
<1>1. f \in [W -> W \ {n}]
  OBVIOUS
<1>2. /\ IsFiniteSet(W) /\ IsFiniteSet(W \ {n})
      /\ Cardinality(W) \in Nat /\ Cardinality(W \ {n}) = Cardinality(W) - 1
  BY ClustersFinite, FS_RemoveElement
<1>3. Cardinality(W \ {n}) < Cardinality(W)
  BY <1>2
<1> HIDE DEF f
<1>4. \E x, y \in W : x # y /\ f[x] = f[y]
  BY <1>1, <1>2, <1>3, FS_PigeonHole
<1> QED
  BY <1>4 DEF Injective, f

LEMMA TerminatedAgree ==
  ASSUME NEW t \in Tables, NEW u \in Tables, NEW h \in Clusters,
         \A x \in Walk(t, h) : u[x] = t[x], Terminated(t, h)
  PROVE  Terminated(u, h)
<1>1. Walk(u, h) = Walk(t, h)
  BY WalkAgree
<1> QED
  BY <1>1 DEF Terminated

(* The end of a chain is its only cluster whose link leads nowhere. *)
LEMMA OneEnd ==
  ASSUME NEW t \in Tables, NEW h \in Clusters, Terminated(t, h),
         NEW c \in Walk(t, h), t[c] \notin Clusters
  PROVE  /\ t[c] \in EndMarks
         /\ \A d \in Walk(t, h) \ {c} : t[d] \in Walk(t, h)
BY WalkIsClosed DEF Terminated

(* The link of a terminated chain that is cut leads to the chain's end. *)
LEMMA TerminatedCut ==
  ASSUME NEW t \in Tables, NEW H \in SUBSET Clusters, Structured(t, H), NEW h \in H,
         NEW c \in Walk(t, h), t[c] \in Clusters, Terminated(t, h)
  PROVE  Terminated(Cut(t, c), h)
<1> DEFINE u == Cut(t, c)
           W == Walk(t, t[c])
<1>1. c \in Clusters /\ h \in Clusters /\ c \notin W
  BY NoReturn, WalkIsClosed DEF Structured
<1>2. Walk(u, h) = Walk(t, h) \ W
  BY ChainCut
<1>3. PICK e \in Walk(t, h) :
        t[e] \in EndMarks /\ \A d \in Walk(t, h) \ {e} : t[d] \in Walk(t, h)
  BY DEF Terminated
<1>4. W \in SUBSET Walk(t, h) /\ t[c] \in W /\ Closed(t, W) /\ W \subseteq Clusters
  <2>1. Closed(t, Walk(t, h)) /\ t[c] \in Walk(t, h) /\ Walk(t, h) \subseteq Clusters
    BY <1>1, WalkIsClosed DEF Closed
  <2> QED
    BY <2>1, WalkIsLeast, WalkIsClosed
<1>5. e \in W
  <2> SUFFICES ASSUME e \notin W
               PROVE  FALSE
    OBVIOUS
  <2>1. \A d \in W : t[d] \in W
    BY <1>1, <1>3, <1>4, WalkIsClosed DEF Closed
  <2>2. PICK d \in W : t[d] = t[c]
    BY <1>4, <2>1, NoWayIn DEF Structured
  <2> QED
    BY <1>1, <1>4, <2>2 DEF Structured, Injective
<1>6. c \in Walk(u, h) /\ u[c] = CLUSTER_EOF
  BY <1>1, <1>2 DEF Cut
<1>7. ASSUME NEW d \in Walk(u, h) \ {c}
      PROVE  u[d] \in Walk(u, h)
  <2>1. d \in Walk(t, h) /\ d \notin W /\ d # e /\ d # c /\ d \in Clusters
    BY <1>1, <1>2, <1>5, <1>7, WalkIsClosed
  <2>2. u[d] = t[d] /\ t[d] \in Walk(t, h) /\ t[d] \in Clusters
    BY <1>1, <1>3, <2>1, WalkIsClosed DEF Cut
  <2>3. t[d] \notin W
    <3> SUFFICES ASSUME t[d] \in W
                 PROVE  FALSE
      OBVIOUS
    <3>1. PICK b \in W \cup {c} : t[b] = t[d]
      BY <1>1, WalkPredecessor
    <3> QED
      BY <1>1, <1>4, <2>1, <2>2, <3>1 DEF Structured, Injective
  <2> QED
    BY <1>2, <2>2, <2>3
<1> QED
  BY <1>6, <1>7 DEF Terminated, EndMarks

-----------------------------------------------------------------------------
(* The number of free clusters. *)

FreeIn(t) == {c \in Clusters : t[c] = CLUSTER_FREE}

LEMMA OneFewerFree ==
  ASSUME NEW t \in Tables, NEW u \in Tables, NEW n \in Clusters, t[n] = CLUSTER_FREE,
         AllocatedIn(u) = AllocatedIn(t) \cup {n}
  PROVE  /\ Cardinality(FreeIn(t)) \in Nat \ {0}
         /\ Cardinality(FreeIn(u)) = Cardinality(FreeIn(t)) - 1
<1>1. FreeIn(u) = FreeIn(t) \ {n} /\ n \in FreeIn(t) /\ FreeIn(t) \in SUBSET Clusters
  BY DEF FreeIn, AllocatedIn
<1>2. IsFiniteSet(FreeIn(t)) /\ Cardinality(FreeIn(t)) \in Nat
  BY <1>1, ClustersFinite
<1> QED
  BY <1>1, <1>2, FS_RemoveElement, FS_EmptySet

LEMMA MoreFree ==
  ASSUME NEW t \in Tables, NEW u \in Tables, NEW W \in SUBSET AllocatedIn(t),
         AllocatedIn(u) = AllocatedIn(t) \ W
  PROVE  /\ Cardinality(W) \in Nat
         /\ Cardinality(FreeIn(u)) = Cardinality(FreeIn(t)) + Cardinality(W)
         /\ Cardinality(FreeIn(u)) <= LastCluster - 1
<1>1. /\ FreeIn(u) = FreeIn(t) \cup W /\ FreeIn(t) \cap W = {}
      /\ FreeIn(t) \in SUBSET Clusters /\ W \in SUBSET Clusters
      /\ FreeIn(u) \in SUBSET Clusters
  BY DEF FreeIn, AllocatedIn
<1>2. Cardinality(FreeIn(t) \cup W) = Cardinality(FreeIn(t)) + Cardinality(W) - Cardinality({})
  BY <1>1, ClustersFinite, FS_Union
<1> QED
  BY <1>1, <1>2, ClustersFinite, FS_EmptySet

-----------------------------------------------------------------------------
(* The calls. *)

HintPastEnd == firstFree = LastCluster + 1 => FreeClusters = {}

(* The inductive invariant. *)
CInv == IInv /\ HintPastEnd /\ ChainsTerminated /\ FreeCountExact

LessOne(count) == IF count = 0 THEN 0 ELSE count - 1

(* A search finds a free cluster if there is one; the entry past the end   *)
(* is taken, or the search fails, when there is none.                      *)
LEMMA SearchOutcome ==
  ASSUME TypeOK, HintPastEnd,
         NEW cluster \in {CLUSTER_FREE, LastCluster + 1} \cup Clusters,
         NEW ret \in LinkReturns,
         NextCluster(cluster, {}) \notin Clusters,
         LinkFreeCluster(cluster, ret, {})
  PROVE  \/ /\ ret = CLUSTER_ERROR /\ cluster = LastCluster + 1
            /\ fat' = fat /\ firstFree' = firstFree /\ numberFreeCluster' = numberFreeCluster
         \/ /\ ret = CLUSTER_ERROR /\ FreeClusters = {}
            /\ fat' = fat /\ numberFreeCluster' = numberFreeCluster
         \/ /\ ret = LastCluster + 1 /\ cluster # LastCluster + 1 /\ FreeClusters = {}
            /\ numberFreeCluster' = LessOne(numberFreeCluster)
            /\ fat' = IF cluster \in Clusters THEN Ended(fat, cluster, LastCluster + 1)
                      ELSE fat
         \/ /\ ret \in Clusters /\ cluster # LastCluster + 1 /\ fat[ret] = CLUSTER_FREE
            /\ firstFree' = ret
            /\ numberFreeCluster' = LessOne(numberFreeCluster)
            /\ fat' = IF cluster \in Clusters THEN Grown(fat, cluster, ret)
                      ELSE Marked(fat, ret)
<1>1. /\ LastCluster \in Nat /\ LastCluster >= 2
      /\ Clusters = 2 .. LastCluster
      /\ CLUSTER_FREE = 0 /\ CLUSTER_FIRST = 2
      /\ CLUSTER_EOF = LastCluster + 2 /\ CLUSTER_ERROR = LastCluster + 3
  BY LastClusterAssumption
     DEF Clusters, CLUSTER_FREE, CLUSTER_FIRST, CLUSTER_EOF, CLUSTER_ERROR
<1>2. \/ /\ cluster > LastCluster /\ ret = CLUSTER_ERROR
         /\ UNCHANGED <<fat, firstFree, numberFreeCluster>>
      \/ /\ cluster <= LastCluster
         /\ SearchStopsAt(ret, {}) /\ Allocate(cluster, ret)
      \/ /\ SearchFails({}) /\ ret = CLUSTER_ERROR
         /\ UNCHANGED <<fat, numberFreeCluster>>
  BY <1>1 DEF LinkFreeCluster, IsValidCluster
<1>3. \A c \in Clusters : ReadsFree(c, {}) <=> fat[c] = CLUSTER_FREE
  BY <1>1 DEF ReadsFree, NextCluster, Seen
<1>4. CASE /\ cluster > LastCluster /\ ret = CLUSTER_ERROR
           /\ UNCHANGED <<fat, firstFree, numberFreeCluster>>
  BY <1>1, <1>4
<1>5. CASE /\ cluster <= LastCluster
           /\ SearchStopsAt(ret, {}) /\ Allocate(cluster, ret)
  <2>1. /\ cluster # LastCluster + 1
        /\ firstFree' = ret /\ numberFreeCluster' = LessOne(numberFreeCluster)
        /\ fat' = [c \in Clusters |-> IF c = ret THEN CLUSTER_EOF
                                      ELSE IF c = cluster THEN ret ELSE fat[c]]
    BY <1>1, <1>5 DEF Allocate, WriteFatEntry, LessOne
  <2>2. \/ ret \in Clusters /\ fat[ret] = CLUSTER_FREE
        \/ ret = LastCluster + 1 /\ firstFree = LastCluster + 1
    BY <1>1, <1>3, <1>5 DEF SearchStopsAt, Ahead, TypeOK
  <2>3. CASE ret \in Clusters /\ fat[ret] = CLUSTER_FREE
    <3>1. fat' = IF cluster \in Clusters THEN Grown(fat, cluster, ret) ELSE Marked(fat, ret)
      BY <1>1, <2>1, <2>3 DEF TypeOK, Grown, Marked
    <3> QED
      BY <2>1, <2>3, <3>1
  <2>4. CASE ret = LastCluster + 1 /\ firstFree = LastCluster + 1
    <3>1. ret \notin Clusters
      BY <1>1, <2>4
    <3>2. fat' = [c \in Clusters |-> IF c = cluster THEN ret ELSE fat[c]]
      BY <2>1, <3>1
    <3>3. fat' = IF cluster \in Clusters THEN Ended(fat, cluster, LastCluster + 1) ELSE fat
      <4>1. CASE cluster \in Clusters
        BY <2>4, <3>2, <4>1 DEF TypeOK, Ended
      <4>2. CASE cluster \notin Clusters
        BY <3>2, <4>2 DEF TypeOK
      <4> QED
        BY <4>1, <4>2
    <3> QED
      BY <2>1, <2>4, <3>3 DEF HintPastEnd
  <2> QED
    BY <2>2, <2>3, <2>4
<1>6. CASE /\ SearchFails({}) /\ ret = CLUSTER_ERROR
           /\ UNCHANGED <<fat, numberFreeCluster>>
  BY <1>3, <1>6 DEF SearchFails, FreeClusters
<1> QED
  BY <1>2, <1>4, <1>5, <1>6

(* A call that leaves the table, the start clusters and the count, and     *)
(* leaves the hint or finds no free cluster, preserves the invariant.      *)
LEMMA NothingChanged ==
  ASSUME CInv, IInv', fat' = fat, start' = start,
         firstFree' = firstFree \/ FreeClusters = {},
         numberFreeCluster' = numberFreeCluster, countKept' = countKept
  PROVE  CInv'
BY DEF CInv, HintPastEnd, ChainsTerminated, FreeCountExact, FileChain, Chain,
       FreeClusterCount, FreeClusters

(* The chains in the words of the lemmas on tables. *)
LEMMA EndsOfTheTable ==
  ASSUME TypeOK
  PROVE  /\ fat \in Tables
         /\ FreeClusters = FreeIn(fat) /\ FreeClusterCount = Cardinality(FreeIn(fat))
         /\ ChainsTerminated <=>
              \A f \in Files : start[f] # CLUSTER_FREE => Terminated(fat, start[f])
BY DEF TypeOK, Tables, FreeClusters, FreeClusterCount, FreeIn, ChainsTerminated,
       Terminated, EndMarks, FileChain, Chain

(* The count after a free cluster is taken. *)
LEMMA CountAfterLink ==
  ASSUME CInv, NEW n \in Clusters, fat[n] = CLUSTER_FREE,
         fat' \in Tables, AllocatedIn(fat') = AllocatedIn(fat) \cup {n},
         numberFreeCluster' = LessOne(numberFreeCluster), countKept' = countKept
  PROVE  FreeCountExact'
<1>1. TypeOK /\ fat \in Tables
  BY IInvFacts DEF CInv
<1>2. /\ Cardinality(FreeIn(fat)) \in Nat \ {0}
      /\ Cardinality(FreeIn(fat')) = Cardinality(FreeIn(fat)) - 1
  BY <1>1, OneFewerFree
<1>3. FreeClusterCount' = Cardinality(FreeIn(fat'))
  BY DEF FreeClusterCount, FreeClusters, FreeIn
<1>4. countKept => numberFreeCluster = Cardinality(FreeIn(fat))
  BY <1>1, EndsOfTheTable DEF CInv, FreeCountExact
<1> QED
  BY <1>2, <1>3, <1>4 DEF FreeCountExact, LessOne

LEMMA NewChainCStep ==
  ASSUME CInv, IInv', NEW n \in Clusters, fat[n] = CLUSTER_FREE,
         fat' = Marked(fat, n), firstFree' = n,
         numberFreeCluster' = LessOne(numberFreeCluster), countKept' = countKept,
         \A f \in Files : start'[f] = start[f] \/ start'[f] = n
  PROVE  CInv'
<1>1. /\ TypeOK /\ HeadsDistinct /\ NoCrossLinks
      /\ fat \in Tables /\ Heads \in SUBSET Clusters /\ Structured(fat, Heads)
      /\ \A g \in Files : start[g] # CLUSTER_FREE => start[g] \in Heads
      /\ TypeOK' /\ fat' \in Tables
  BY IInvFacts DEF CInv, IInv, TypeOK, Tables
<1>2. /\ AllocatedIn(fat') = AllocatedIn(fat) \cup {n}
      /\ Walk(fat', n) = {n} /\ fat'[n] = CLUSTER_EOF
      /\ \A x \in Clusters : x # n => fat'[x] = fat[x]
  BY <1>1, NewChain DEF Marked, Tables
<1>3. HintPastEnd'
  BY Values DEF HintPastEnd
<1>4. ChainsTerminated'
  <2> SUFFICES ASSUME NEW f \in Files, start'[f] # CLUSTER_FREE
               PROVE  Terminated(fat', start'[f])
    BY <1>1, EndsOfTheTable DEF ChainsTerminated, Terminated, EndMarks, FileChain, Chain
  <2>1. CASE start'[f] = n
    BY <1>2, <2>1 DEF Terminated, EndMarks
  <2>2. CASE start'[f] = start[f]
    <3>1. Terminated(fat, start[f]) /\ start[f] \in Heads
      BY <1>1, <2>2, EndsOfTheTable DEF CInv
    <3>2. \A x \in Walk(fat, start[f]) : fat'[x] = fat[x]
      BY <1>1, <1>2, <3>1, WalkAllocated DEF AllocatedIn
    <3> QED
      BY <1>1, <2>2, <3>1, <3>2, TerminatedAgree
  <2> QED
    BY <2>1, <2>2
<1>5. FreeCountExact'
  BY <1>1, <1>2, CountAfterLink
<1> QED
  BY <1>3, <1>4, <1>5 DEF CInv

LEMMA LongerChainCStep ==
  ASSUME CInv, IInv', NEW f \in Files, start[f] # CLUSTER_FREE,
         NEW c \in FileChain(f), fat[c] = CLUSTER_EOF,
         NEW n \in Clusters, fat[n] = CLUSTER_FREE,
         fat' = Grown(fat, c, n), start' = start, firstFree' = n,
         numberFreeCluster' = LessOne(numberFreeCluster), countKept' = countKept
  PROVE  CInv'
<1>1. /\ TypeOK /\ HeadsDistinct /\ NoCrossLinks
      /\ fat \in Tables /\ Heads \in SUBSET Clusters /\ Structured(fat, Heads)
      /\ \A g \in Files : start[g] # CLUSTER_FREE =>
           start[g] \in Heads /\ FileChain(g) = Walk(fat, start[g])
      /\ TypeOK' /\ fat' \in Tables
  BY IInvFacts DEF CInv, IInv, TypeOK, Tables
<1>2. c \in Clusters /\ c \in Walk(fat, start[f])
  BY <1>1, WalkIsClosed
<1>3. /\ AllocatedIn(fat') = AllocatedIn(fat) \cup {n}
      /\ \A h \in Clusters :
           Walk(fat', h) = Walk(fat, h) \cup (IF c \in Walk(fat, h) THEN {n} ELSE {})
      /\ fat'[n] = CLUSTER_EOF /\ fat'[c] = n
      /\ \A x \in Clusters : x # n /\ x # c => fat'[x] = fat[x]
  <2>1. fat[c] \notin Clusters /\ fat[c] # CLUSTER_FREE
    BY Values
  <2>2. /\ AllocatedIn(fat') = AllocatedIn(fat) \cup {n}
        /\ \A h \in Clusters :
             Walk(fat', h) = Walk(fat, h) \cup (IF c \in Walk(fat, h) THEN {n} ELSE {})
    BY <1>1, <1>2, <2>1, LongerChain
  <2>3. c # n
    BY <2>1
  <2> QED
    BY <1>1, <1>2, <2>2, <2>3 DEF Grown, Tables
<1>4. HintPastEnd'
  BY Values DEF HintPastEnd
<1>5. ChainsTerminated'
  <2> SUFFICES ASSUME NEW g \in Files, start[g] # CLUSTER_FREE
               PROVE  Terminated(fat', start[g])
    BY <1>1, EndsOfTheTable DEF ChainsTerminated, Terminated, EndMarks, FileChain, Chain
  <2>1. Terminated(fat, start[g]) /\ start[g] \in Heads /\ start[g] \in Clusters
    BY <1>1, EndsOfTheTable DEF CInv
  <2>2. Walk(fat, start[g]) \subseteq AllocatedIn(fat)
    BY <1>1, <2>1, WalkAllocated
  <2>3. CASE g = f
    <3>1. \A d \in Walk(fat, start[f]) \ {c} : fat[d] \in Walk(fat, start[f])
      BY <1>1, <1>2, <2>1, <2>3, OneEnd, Values
    <3>2. Walk(fat', start[f]) = Walk(fat, start[f]) \cup {n}
      BY <1>2, <1>3, <2>1, <2>3
    <3>3. \A d \in Walk(fat', start[f]) \ {n} : fat'[d] \in Walk(fat', start[f])
      BY <1>3, <2>2, <2>3, <3>1, <3>2 DEF AllocatedIn
    <3> QED
      BY <1>3, <2>3, <3>2, <3>3 DEF Terminated, EndMarks
  <2>4. CASE g # f
    <3>1. c \notin Walk(fat, start[g])
      BY <1>1, <1>2, <2>4 DEF NoCrossLinks
    <3>2. \A x \in Walk(fat, start[g]) : fat'[x] = fat[x]
      BY <1>3, <2>2, <3>1 DEF AllocatedIn
    <3> QED
      BY <1>1, <2>1, <3>2, TerminatedAgree
  <2> QED
    BY <2>3, <2>4
<1>6. FreeCountExact'
  BY <1>1, <1>3, CountAfterLink
<1> QED
  BY <1>4, <1>5, <1>6 DEF CInv

(* The end of a chain is marked, or led past the end of the table.         *)
LEMMA EndRewrittenCStep ==
  ASSUME CInv, IInv', NEW f \in Files, start[f] # CLUSTER_FREE,
         NEW c \in FileChain(f), fat[c] \in EndMarks, NEW v \in EndMarks,
         fat' = Ended(fat, c, v), start' = start,
         firstFree' = firstFree \/ FreeClusters = {},
         countKept' = countKept,
         countKept => numberFreeCluster' = numberFreeCluster
  PROVE  CInv'
<1>1. /\ TypeOK /\ HeadsDistinct /\ NoCrossLinks
      /\ fat \in Tables /\ Heads \in SUBSET Clusters /\ Structured(fat, Heads)
      /\ \A g \in Files : start[g] # CLUSTER_FREE =>
           start[g] \in Heads /\ FileChain(g) = Walk(fat, start[g])
      /\ TypeOK' /\ fat' \in Tables
  BY IInvFacts DEF CInv, IInv, TypeOK, Tables
<1>2. c \in Clusters /\ c \in Walk(fat, start[f])
  BY <1>1, WalkIsClosed
<1>3. /\ fat[c] \notin Clusters /\ fat[c] # CLUSTER_FREE
      /\ v \in {CLUSTER_EOF, LastCluster + 1}
  BY Values, LastClusterAssumption DEF EndMarks, CLUSTER_FREE, CLUSTER_FIRST
<1>4. /\ AllocatedIn(fat') = AllocatedIn(fat)
      /\ \A h \in Clusters : Walk(fat', h) = Walk(fat, h)
      /\ fat'[c] = v
      /\ \A x \in Clusters : x # c => fat'[x] = fat[x]
  <2>1. /\ AllocatedIn(fat') = AllocatedIn(fat)
        /\ \A h \in Clusters : Walk(fat', h) = Walk(fat, h)
    BY <1>1, <1>2, <1>3, EndRewritten
  <2> QED
    BY <1>1, <1>2, <2>1 DEF Ended, Tables
<1>5. FreeClusters' = FreeClusters
  BY <1>4 DEF FreeClusters, AllocatedIn
<1>6. HintPastEnd' /\ FreeCountExact'
  BY <1>5 DEF CInv, HintPastEnd, FreeCountExact, FreeClusterCount
<1>7. ChainsTerminated'
  <2> SUFFICES ASSUME NEW g \in Files, start[g] # CLUSTER_FREE
               PROVE  Terminated(fat', start[g])
    BY <1>1, EndsOfTheTable DEF ChainsTerminated, Terminated, EndMarks, FileChain, Chain
  <2>1. Terminated(fat, start[g]) /\ start[g] \in Clusters
    BY <1>1, EndsOfTheTable DEF CInv
  <2>2. CASE g = f
    <3>1. \A d \in Walk(fat, start[f]) \ {c} : fat[d] \in Walk(fat, start[f])
      BY <1>1, <1>2, <1>3, <2>1, <2>2, OneEnd
    <3>2. Walk(fat', start[f]) = Walk(fat, start[f]) /\ fat'[c] \in EndMarks
      BY <1>4, <2>1, <2>2
    <3>3. \A d \in Walk(fat, start[f]) \ {c} : d \in Clusters /\ fat'[d] = fat[d]
      BY <1>4 DEF Walk
    <3> QED
      BY <1>2, <2>2, <3>1, <3>2, <3>3 DEF Terminated
  <2>3. CASE g # f
    <3>1. \A x \in Walk(fat, start[g]) : fat'[x] = fat[x]
      BY <1>1, <1>2, <1>4, <2>1, <2>3, WalkIsClosed DEF NoCrossLinks
    <3> QED
      BY <1>1, <2>1, <3>1, TerminatedAgree
  <2> QED
    BY <2>2, <2>3
<1> QED
  BY <1>6, <1>7 DEF CInv

(* The count after clearLinks is that of the clusters then free, unless    *)
(* the chain led past the end.                                             *)
LEMMA CountAfterClear ==
  ASSUME CInv, NEW cluster \in Clusters, Walk(fat, cluster) \subseteq AllocatedIn(fat),
         ClearLinksHints(cluster, {}),
         fat' \in Tables, AllocatedIn(fat') = AllocatedIn(fat) \ Walk(fat, cluster)
  PROVE  FreeCountExact' /\ HintPastEnd'
<1>1. TypeOK /\ fat \in Tables /\ Seen({}) = fat
  BY IInvFacts DEF CInv
<1> DEFINE W == Walk(fat, cluster)
<1>2. /\ Cardinality(W) \in Nat
      /\ Cardinality(FreeIn(fat')) = Cardinality(FreeIn(fat)) + Cardinality(W)
      /\ Cardinality(FreeIn(fat')) <= LastCluster - 1
  BY <1>1, MoreFree
<1>3. countKept' => countKept /\ Cleared(cluster, {}) = Cardinality(W)
  <2> SUFFICES ASSUME countKept'
               PROVE  countKept /\ Cleared(cluster, {}) = Cardinality(W)
    OBVIOUS
  <2> DEFINE P == {c \in W : fat[c] = LastCluster + 1}
  <2>1. P = {} /\ countKept
    BY <1>1, WalkIsClosed DEF ClearLinksHints, PastLinks
  <2>2. Cleared(cluster, {}) = Cardinality(W) + Cardinality(P)
    BY <1>1 DEF Cleared
  <2> HIDE DEF P, W
  <2>3. Cardinality(P) = 0
    BY <2>1, FS_EmptySet
  <2> QED
    BY <1>2, <2>1, <2>2, <2>3
<1>4. FreeClusterCount' = Cardinality(FreeIn(fat'))
  BY DEF FreeClusterCount, FreeClusters, FreeIn
<1>5. countKept => numberFreeCluster = Cardinality(FreeIn(fat))
  BY <1>1, EndsOfTheTable DEF CInv, FreeCountExact
<1>6. countKept' => numberFreeCluster' = CountUp(numberFreeCluster, Cardinality(W))
  BY <1>3 DEF ClearLinksHints
<1>7. Cardinality(FreeIn(fat')) <= CountCap
  <2>1. Cardinality(FreeIn(fat')) \in Nat
    BY ClustersFinite DEF FreeIn
  <2> QED
    BY <1>2, <2>1, LastClusterAssumption, CountCapAssumption
<1>8. HintPastEnd'
  <2>1. firstFree' # LastCluster + 1
    BY <1>1, LastClusterAssumption DEF ClearLinksHints, TypeOK, Clusters, CLUSTER_FIRST
  <2> QED
    BY <2>1 DEF HintPastEnd
<1> HIDE DEF W
<1> QED
  BY <1>2, <1>3, <1>4, <1>5, <1>6, <1>7, <1>8 DEF FreeCountExact, CountUp

LEMMA RemoveCStep ==
  ASSUME CInv, IInv', ReadFaults = FALSE, NEW f \in Files, Remove(f)
  PROVE  CInv'
<1>1. /\ TypeOK /\ HeadsDistinct /\ NoCrossLinks /\ Seen({}) = fat
      /\ fat \in Tables /\ Heads \in SUBSET Clusters /\ Structured(fat, Heads)
      /\ \A g \in Files : start[g] # CLUSTER_FREE =>
           start[g] \in Heads /\ FileChain(g) = Walk(fat, start[g])
      /\ TypeOK' /\ fat' \in Tables
  BY IInvFacts DEF CInv, IInv, TypeOK, Tables
<1>2. /\ start[f] \in Clusters /\ start[f] # CLUSTER_FREE
      /\ ClearLinksHints(start[f], {})
      /\ fat' = Freed(fat, start[f])
      /\ start' = [start EXCEPT ![f] = CLUSTER_FREE]
  BY <1>1, Values DEF Remove, BadReads, IsValidCluster, ClearLinks, FreeChain, Freed
<1>3. /\ AllocatedIn(fat') = AllocatedIn(fat) \ Walk(fat, start[f])
      /\ Walk(fat, start[f]) \subseteq AllocatedIn(fat)
  BY <1>1, <1>2, ChainFreed, WalkAllocated
<1>4. ChainsTerminated'
  <2> SUFFICES ASSUME NEW g \in Files, start'[g] # CLUSTER_FREE
               PROVE  Terminated(fat', start'[g])
    BY <1>1, EndsOfTheTable DEF ChainsTerminated, Terminated, EndMarks, FileChain, Chain
  <2>1. g # f /\ start'[g] = start[g]
    BY <1>1, <1>2 DEF TypeOK
  <2>2. Terminated(fat, start[g]) /\ start[g] \in Clusters
    BY <1>1, <2>1, EndsOfTheTable DEF CInv
  <2>3. Walk(fat, start[g]) \cap Walk(fat, start[f]) = {}
    BY <1>1, <1>2, <2>1 DEF NoCrossLinks
  <2>4. \A x \in Walk(fat, start[g]) : fat'[x] = fat[x]
    BY <1>1, <1>2, <2>2, <2>3, WalkIsClosed DEF Freed
  <2> QED
    BY <1>1, <2>1, <2>2, <2>4, TerminatedAgree
<1>5. FreeCountExact' /\ HintPastEnd'
  BY <1>1, <1>2, <1>3, CountAfterClear
<1> QED
  BY <1>4, <1>5 DEF CInv

LEMMA ShrinkCStep ==
  ASSUME CInv, IInv', ReadFaults = FALSE, NEW f \in Files, Shrink(f)
  PROVE  CInv'
<1>1. /\ TypeOK /\ HeadsDistinct /\ NoCrossLinks /\ Seen({}) = fat
      /\ fat \in Tables /\ Heads \in SUBSET Clusters /\ Structured(fat, Heads)
      /\ \A g \in Files : start[g] # CLUSTER_FREE =>
           start[g] \in Heads /\ FileChain(g) = Walk(fat, start[g])
      /\ TypeOK' /\ fat' \in Tables
  BY IInvFacts DEF CInv, IInv, TypeOK, Tables
<1>2. PICK c \in FileChain(f) : TrimChain(c, {}) /\ start' = start
  BY DEF Shrink, BadReads
<1>3. /\ start[f] # CLUSTER_FREE /\ start[f] \in Heads /\ start[f] \in Clusters
      /\ FileChain(f) = Walk(fat, start[f])
      /\ c \in Clusters /\ NextCluster(c, {}) = fat[c]
      /\ Terminated(fat, start[f])
  <2>1. start[f] # CLUSTER_FREE
    BY <1>2 DEF FileChain
  <2>2. c \in Clusters
    BY <1>1, <1>2, <2>1, WalkIsClosed
  <2> QED
    BY <1>1, <2>1, <2>2, EndsOfTheTable, Values DEF NextCluster, CInv
<1>4. CASE fat[c] \in Clusters
  <2>1. fat' = Cut(fat, c) /\ ClearLinksHints(fat[c], {})
    BY <1>1, <1>2, <1>3, <1>4
       DEF TrimChain, IsValidCluster, WriteFatEntry, FreeChain, Cut
  <2>2. Walk(fat, fat[c]) \subseteq Walk(fat, start[f])
    BY <1>1, <1>2, <1>3, <1>4, WalkIsClosed, WalkIsLeast DEF Closed
  <2>3. /\ AllocatedIn(fat') = AllocatedIn(fat) \ Walk(fat, fat[c])
        /\ Walk(fat, fat[c]) \subseteq AllocatedIn(fat)
    BY <1>1, <1>2, <1>3, <1>4, <2>1, <2>2, ChainCut, WalkAllocated
  <2>4. ChainsTerminated'
    <3> SUFFICES ASSUME NEW g \in Files, start[g] # CLUSTER_FREE
                 PROVE  Terminated(fat', start[g])
      BY <1>1, <1>2, EndsOfTheTable
         DEF ChainsTerminated, Terminated, EndMarks, FileChain, Chain
    <3>1. CASE g = f
      BY <1>1, <1>2, <1>3, <1>4, <2>1, <3>1, TerminatedCut
    <3>2. CASE g # f
      <4>1. Terminated(fat, start[g]) /\ start[g] \in Clusters
        BY <1>1, EndsOfTheTable DEF CInv
      <4>2. Walk(fat, start[g]) \cap Walk(fat, start[f]) = {}
        BY <1>1, <1>3, <3>2 DEF NoCrossLinks
      <4>3. \A x \in Walk(fat, start[g]) : fat'[x] = fat[x]
        BY <1>1, <1>2, <1>3, <2>1, <2>2, <4>1, <4>2, WalkIsClosed DEF Cut
      <4> QED
        BY <1>1, <4>1, <4>3, TerminatedAgree
    <3> QED
      BY <3>1, <3>2
  <2>5. FreeCountExact' /\ HintPastEnd'
    BY <1>1, <1>4, <2>1, <2>3, CountAfterClear
  <2> QED
    BY <2>4, <2>5 DEF CInv
<1>5. CASE fat[c] \notin Clusters
  <2>1. fat[c] \in EndMarks
    BY <1>1, <1>2, <1>3, <1>5, OneEnd
  <2>2. /\ fat' = WriteFatEntry(fat, c, CLUSTER_EOF)
        /\ UNCHANGED <<firstFree, numberFreeCluster, countKept>>
    BY <1>2, <1>3, <1>5 DEF TrimChain, IsValidCluster
  <2>3. fat' = Ended(fat, c, CLUSTER_EOF)
    BY <1>1, <1>3, <2>2 DEF WriteFatEntry, Ended, Tables
  <2>4. CLUSTER_EOF \in EndMarks
    BY DEF EndMarks
  <2> QED
    BY <1>2, <1>3, <2>1, <2>2, <2>3, <2>4, EndRewrittenCStep
<1> QED
  BY <1>4, <1>5

(* What a call that links says of its search. *)
SearchTold ==
  /\ result' = "noSpace" => FreeClusters = {} \/ PastLinks # {}
  /\ (result' = "linked" /\ FreeClusters # {}) => firstFree' \in FreeClusters

LEMMA CreateCStep ==
  ASSUME CInv, IInv', ReadFaults = FALSE,
         (\E f \in Files : Create(f)) \/ CreateWithoutEntry
  PROVE  CInv' /\ SearchTold
<1>1. TypeOK /\ HintPastEnd
  BY DEF CInv, IInv
<1>2. PICK ret \in LinkReturns :
        /\ LinkFreeCluster(CLUSTER_FREE, ret, {})
        /\ \/ start' = start
           \/ \E f \in Files : start' = [start EXCEPT ![f] =
                                          IF ret \in Clusters THEN ret ELSE CLUSTER_FREE]
                             /\ start[f] = CLUSTER_FREE
        /\ SetLinkResult(ret)
        /\ countKept' = countKept
  BY DEF Create, CreateWithoutEntry, BadReads, IsValidCluster
<1>3. \/ /\ ret = CLUSTER_ERROR /\ FreeClusters = {}
         /\ fat' = fat /\ numberFreeCluster' = numberFreeCluster
      \/ /\ ret = LastCluster + 1 /\ FreeClusters = {}
         /\ fat' = fat /\ numberFreeCluster' = LessOne(numberFreeCluster)
      \/ /\ ret \in Clusters /\ fat[ret] = CLUSTER_FREE /\ firstFree' = ret
         /\ numberFreeCluster' = LessOne(numberFreeCluster)
         /\ fat' = Marked(fat, ret)
  <2>1. NextCluster(CLUSTER_FREE, {}) \notin Clusters
    BY Values DEF NextCluster
  <2>2. CLUSTER_FREE # LastCluster + 1
    BY LastClusterAssumption DEF CLUSTER_FREE
  <2> QED
    BY <1>1, <1>2, <2>1, <2>2, SearchOutcome, Values
<1>4. CASE ret \notin Clusters
  <2>1. start' = start
    BY <1>1, <1>2, <1>4, Values DEF TypeOK
  <2>2. FreeClusters = {} /\ fat' = fat /\ (countKept => numberFreeCluster' = numberFreeCluster)
    <3>1. FreeClusters = {} => FreeClusterCount = 0
      BY FS_EmptySet DEF FreeClusterCount
    <3> QED
      BY <1>3, <1>4, <3>1 DEF CInv, FreeCountExact, LessOne
  <2>3. CInv'
    BY <1>2, <2>1, <2>2
       DEF CInv, HintPastEnd, ChainsTerminated, FreeCountExact, FileChain, Chain,
           FreeClusterCount, FreeClusters
  <2> QED
    BY <2>2, <2>3 DEF SearchTold
<1>5. CASE ret \in Clusters
  <2>1. \A f \in Files : start'[f] = start[f] \/ start'[f] = ret
    BY <1>1, <1>2, <1>5 DEF TypeOK
  <2>2. /\ fat[ret] = CLUSTER_FREE /\ firstFree' = ret /\ fat' = Marked(fat, ret)
        /\ numberFreeCluster' = LessOne(numberFreeCluster)
    BY <1>3, <1>5, Values
  <2>3. SearchTold
    BY <1>2, <1>5, <2>2, Values DEF SetLinkResult, SearchTold, FreeClusters
  <2> QED
    BY <1>2, <1>5, <2>1, <2>2, <2>3, NewChainCStep
<1> QED
  BY <1>4, <1>5

LEMMA ExtendCStep ==
  ASSUME CInv, IInv', ReadFaults = FALSE, NEW f \in Files, Extend(f)
  PROVE  CInv' /\ SearchTold
<1>1. /\ TypeOK /\ HintPastEnd /\ Seen({}) = fat /\ fat \in Tables
      /\ Heads \in SUBSET Clusters /\ Structured(fat, Heads)
      /\ \A g \in Files : start[g] # CLUSTER_FREE =>
           start[g] \in Heads /\ FileChain(g) = Walk(fat, start[g])
  BY IInvFacts DEF CInv
<1>2. PICK c \in Ends(f), ret \in LinkReturns :
        /\ LinkFreeCluster(c, ret, {}) /\ SetLinkResult(ret)
        /\ start' = start /\ countKept' = countKept
  BY DEF Extend, BadReads
<1>3. /\ start[f] # CLUSTER_FREE
      /\ FileChain(f) = Walk(fat, start[f]) /\ start[f] \in Clusters
      /\ FileChain(f) \subseteq Clusters /\ Closed(fat, FileChain(f))
      /\ FileChain(f) \subseteq AllocatedIn(fat)
  <2>1. start[f] # CLUSTER_FREE
    BY DEF Ends, FileChain
  <2> QED
    BY <1>1, <2>1, WalkIsClosed, WalkAllocated
<1>4. /\ c \in {LastCluster + 1} \cup Clusters
      /\ NextCluster(c, {}) \in {CLUSTER_FREE, CLUSTER_EOF}
      /\ NextCluster(c, {}) \notin Clusters
      /\ c \in FileChain(f) \cup {fat[d] : d \in FileChain(f)}
  BY Values, LastClusterAssumption DEF Ends, Clusters
<1>5. \/ /\ ret = CLUSTER_ERROR /\ c = LastCluster + 1
         /\ fat' = fat /\ firstFree' = firstFree /\ numberFreeCluster' = numberFreeCluster
      \/ /\ ret = CLUSTER_ERROR /\ FreeClusters = {}
         /\ fat' = fat /\ numberFreeCluster' = numberFreeCluster
      \/ /\ ret = LastCluster + 1 /\ c # LastCluster + 1 /\ FreeClusters = {}
         /\ numberFreeCluster' = LessOne(numberFreeCluster)
         /\ fat' = IF c \in Clusters THEN Ended(fat, c, LastCluster + 1) ELSE fat
      \/ /\ ret \in Clusters /\ c # LastCluster + 1 /\ fat[ret] = CLUSTER_FREE
         /\ firstFree' = ret
         /\ numberFreeCluster' = LessOne(numberFreeCluster)
         /\ fat' = IF c \in Clusters THEN Grown(fat, c, ret) ELSE Marked(fat, ret)
  BY <1>1, <1>2, <1>4, SearchOutcome
<1>6. ASSUME c # LastCluster + 1
      PROVE  c \in Clusters /\ c \in FileChain(f) /\ fat[c] = CLUSTER_EOF
  <2>1. c \in Clusters
    BY <1>4, <1>6
  <2>2. c \in FileChain(f)
    BY <1>3, <1>4, <2>1 DEF Closed
  <2>3. NextCluster(c, {}) = fat[c]
    BY <1>1, <2>1, Values DEF NextCluster
  <2> QED
    BY <1>3, <1>4, <2>1, <2>2, <2>3 DEF AllocatedIn
<1>7. CASE ret = CLUSTER_ERROR
  <2>1. c = LastCluster + 1 => PastLinks # {}
    BY <1>3, <1>4, Values DEF PastLinks
  <2>2. result' # "linked"
    BY <1>2, <1>7 DEF SetLinkResult
  <2>3. \/ c = LastCluster + 1 /\ firstFree' = firstFree
        \/ FreeClusters = {}
    BY <1>5, <1>7, Values, LastClusterAssumption DEF CLUSTER_ERROR
  <2>4. fat' = fat /\ numberFreeCluster' = numberFreeCluster
    BY <1>5, <1>7, Values, LastClusterAssumption DEF CLUSTER_ERROR
  <2> QED
    BY <1>2, <2>1, <2>2, <2>3, <2>4, NothingChanged DEF SearchTold
<1>8. CASE ret = LastCluster + 1
  <2>1. /\ FreeClusters = {} /\ c # LastCluster + 1
        /\ numberFreeCluster' = LessOne(numberFreeCluster)
        /\ fat' = Ended(fat, c, LastCluster + 1)
    BY <1>5, <1>6, <1>8, Values, LastClusterAssumption DEF CLUSTER_ERROR
  <2>2. countKept => numberFreeCluster' = numberFreeCluster
    <3>1. FreeClusterCount = 0
      BY <2>1, FS_EmptySet DEF FreeClusterCount
    <3> QED
      BY <2>1, <3>1 DEF CInv, FreeCountExact, LessOne
  <2>3. CLUSTER_EOF \in EndMarks /\ LastCluster + 1 \in EndMarks
    BY DEF EndMarks
  <2>4. CInv'
    BY <1>2, <1>3, <1>6, <2>1, <2>2, <2>3, EndRewrittenCStep
  <2> QED
    BY <2>1, <2>4 DEF SearchTold
<1>9. CASE ret \in Clusters
  <2>1. /\ c # LastCluster + 1 /\ fat[ret] = CLUSTER_FREE /\ firstFree' = ret
        /\ numberFreeCluster' = LessOne(numberFreeCluster)
        /\ fat' = Grown(fat, c, ret)
    BY <1>5, <1>6, <1>9, Values
  <2>2. SearchTold
    BY <1>2, <1>9, <2>1, Values DEF SetLinkResult, SearchTold, FreeClusters
  <2> QED
    BY <1>2, <1>3, <1>6, <1>9, <2>1, <2>2, LongerChainCStep
<1> QED
  BY <1>5, <1>7, <1>8, <1>9

(* The sector is read: the count is that of the table, or the one that was *)
(* kept.                                                                   *)
LEMMA SectorCStep ==
  ASSUME CInv, LoadPage \/ FlushPage \/ Remount \/ ExitAndMount
  PROVE  CInv'
<1>1. IInv' /\ fat' = fat /\ start' = start
  BY SectorStep DEF CInv
<1>2. firstFree' \in {firstFree, CLUSTER_FIRST}
  BY DEF LoadPage, FlushPage, Remount, ExitAndMount, Mount
<1>3. HintPastEnd'
  BY <1>1, <1>2, LastClusterAssumption DEF CInv, HintPastEnd, FreeClusters, CLUSTER_FIRST
<1>4. ChainsTerminated'
  BY <1>1 DEF CInv, ChainsTerminated, FileChain, Chain
<1>5. FreeClusterCount' = FreeClusterCount
  BY <1>1 DEF FreeClusterCount, FreeClusters
<1>6. ASSUME NEW count, ReadFSinfo(count)
      PROVE  FreeCountExact'
  BY <1>5, <1>6 DEF ReadFSinfo, FreeCountExact, CInv
<1>7. FreeCountExact'
  <2>1. CASE LoadPage \/ FlushPage
    BY <1>5, <2>1 DEF LoadPage, FlushPage, CInv, FreeCountExact
  <2>2. ASSUME NEW count, Mount(count)
        PROVE  FreeCountExact'
    BY <1>6, <2>2 DEF Mount, FreeCountExact
  <2> QED
    BY <2>1, <2>2 DEF Remount, ExitAndMount
<1> QED
  BY <1>1, <1>3, <1>4, <1>7 DEF CInv

LEMMA InitCInv == Init => CInv
<1> SUFFICES ASSUME Init
             PROVE  CInv
  OBVIOUS
<1>1. HintPastEnd
  BY LastClusterAssumption DEF Init, HintPastEnd, CLUSTER_FIRST
<1>2. ChainsTerminated
  BY DEF Init, ChainsTerminated
<1>3. FreeCountExact
  <2>1. FreeClusters = Clusters
    BY DEF Init, FreeClusters
  <2> QED
    BY <2>1, ClustersFinite DEF Init, FreeCountExact, FreeClusterCount
<1> QED
  BY <1>1, <1>2, <1>3, InitIInv DEF CInv

(* Every step preserves the invariant, and a call that links tells the     *)
(* truth about the free clusters.                                          *)
LEMMA NextCInv ==
  ASSUME CInv, ReadFaults = FALSE, [Next]_vars
  PROVE  CInv' /\ [SearchTold]_vars
<1>1. IInv'
  BY NextIInv DEF CInv
<1>2. CASE (\E f \in Files : Create(f)) \/ CreateWithoutEntry
  BY <1>1, <1>2, CreateCStep
<1>3. ASSUME NEW f \in Files, Extend(f)
      PROVE  CInv' /\ SearchTold
  BY <1>1, <1>3, ExtendCStep
<1>4. ASSUME NEW f \in Files, Remove(f) \/ Shrink(f)
      PROVE  CInv' /\ result' = "released"
  BY <1>1, <1>4, RemoveCStep, ShrinkCStep DEF Remove, Shrink
<1>5. CASE LoadPage \/ FlushPage \/ Remount \/ ExitAndMount
  <2>1. result' = "none"
    BY <1>5, SectorStep DEF CInv
  <2> QED
    BY <1>5, <2>1, SectorCStep DEF SearchTold
<1>6. CASE UNCHANGED vars
  BY <1>1, <1>6, NothingChanged DEF vars, info
<1> QED
  BY <1>2, <1>3, <1>4, <1>5, <1>6 DEF Next, SearchTold

-----------------------------------------------------------------------------
(* Theorems. *)

(* On a disc whose reads do not fail the invariant holds throughout.       *)
THEOREM ChainInvariance ==
  ASSUME ReadFaults = FALSE
  PROVE  Spec => []CInv
<1>1. CInv /\ [Next]_vars => CInv'
  BY NextCInv
<1> QED
  BY InitCInv, <1>1, PTL DEF Spec

(* Every chain has exactly one end, whatever was grown, cut and removed    *)
(* before, also where a link leads past the end of a full table: the loops *)
(* of fat_fat_lastCluster, fat_fat_trimChain and fat_fat_clearLinks end.   *)
THEOREM EveryChainEnds ==
  ASSUME ReadFaults = FALSE
  PROVE  Spec => []ChainsTerminated
BY ChainInvariance, PTL DEF CInv

(* The count in memory is the number of free clusters after every call, on *)
(* a volume of any size, from a count of the table on and through every    *)
(* FSInfo sector that is left as written, until a chain that leads past    *)
(* the end is released.                                                    *)
THEOREM CountIsExact ==
  ASSUME ReadFaults = FALSE
  PROVE  Spec => []FreeCountExact
BY ChainInvariance, PTL DEF CInv

(* fat_fat_linkFreeCluster reports a full disc only if it is full, or to   *)
(* a chain that already leads past the end of the table.                   *)
THEOREM FullOnlyWhenFull ==
  ASSUME ReadFaults = FALSE
  PROVE  Spec => NoSpaceOnlyWhenFull
<1> DEFINE P == result' = "noSpace" => FreeClusters = {} \/ PastLinks # {}
<1>1. CInv /\ [Next]_vars => [P]_vars
  BY NextCInv DEF SearchTold
<1> QED
  BY <1>1, ChainInvariance, PTL DEF Spec, NoSpaceOnlyWhenFull

(* fat_fat_linkFreeCluster takes a free cluster whenever there is one,     *)
(* wherever the hint was left, and whatever follows the table: it goes     *)
(* past the end of the table only when no cluster is free.                 *)
THEOREM FreeClusterTaken ==
  ASSUME ReadFaults = FALSE
  PROVE  Spec => LinkTakesFreeCluster
<1> DEFINE P == (result' = "linked" /\ FreeClusters # {}) => firstFree' \in FreeClusters
<1>1. CInv /\ [Next]_vars => [P]_vars
  BY NextCInv DEF SearchTold
<1> QED
  BY <1>1, ChainInvariance, PTL DEF Spec, LinkTakesFreeCluster
=============================================================================
