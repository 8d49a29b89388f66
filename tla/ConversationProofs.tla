------------------------- MODULE ConversationProofs -------------------------
(***************************************************************************)
(* The conversation, proved for every set of JSON values: the delta of two  *)
(* observations leads from the one to the other (DeltaIsLossless) and is    *)
(* refused when it is applied again (DeltaIsRefusedTwice), so the messages  *)
(* tell every observation (HistoryReconstructs, RepeatedIsRefused).         *)
(***************************************************************************)
EXTENDS Conversation, SequenceTheorems, WellFoundedInduction, TLAPS

\* A set with 0 and the successor of each of its members has every number.
LEMMA NatIsInductive ==
  ASSUME NEW S, 0 \in S, \A n \in Nat : n \in S => n+1 \in S
  PROVE Nat \subseteq S
<1> SUFFICES ASSUME Nat \ S # {} PROVE FALSE
  OBVIOUS
<1>1. PICK R : R = OpToRel(<,Nat)
  OBVIOUS
<1>2. IsWellFoundedOn(R, Nat)
  BY <1>1, NatLessThanWellFounded
<1>3. PICK T : T = Nat \ S
  OBVIOUS
<1>4. PICK x \in T : \A y \in T : ~(<<y,x>> \in R)
  BY <1>2, <1>3, WFMin
<1>5. \A a, b \in Nat : a < b => <<a,b>> \in R
  BY <1>1 DEF OpToRel
<1>6. x \in Nat /\ x \notin S /\ x # 0
  BY <1>3
<1>7. x - 1 \in Nat /\ x - 1 < x /\ (x - 1) + 1 = x
  BY <1>6
<1>8. x - 1 \in T
  BY <1>3, <1>6, <1>7
<1> QED BY <1>4, <1>5, <1>6, <1>7, <1>8

(***************************************************************************)
(* Values.                                                                 *)
(***************************************************************************)
\* The values that nest less than n deep.
Shallow(n) == {v \in Values : Depth[v] < n}

\* A value is a scalar, an object or an array, of values that nest less.
LEMMA ValueIs ==
  ASSUME NEW v \in Values
  PROVE  /\ v = [kind |-> v.kind, at |-> v.at] /\ v # Rejected
         /\ v.kind \in {"scalar", "object", "array"}
         /\ v.kind = "object" => v.at \in [DOMAIN v.at -> Values]
         /\ v.kind = "array" => v.at \in Seq(Values) /\ v.at = [i \in 1..Len(v.at) |-> v.at[i]]
         /\ v.kind # "scalar" =>
              \A i \in DOMAIN v.at : v.at[i] \in Values /\ Depth[v.at[i]] < Depth[v]
         /\ Depth[v] \in Nat
<1>1. v = [kind |-> v.kind, at |-> v.at] /\ Depth[v] \in Nat
  BY ValuesAssumption
<1>2. \/ v.kind = "scalar"
      \/ v.kind = "object" /\ v.at \in [DOMAIN v.at -> Values]
      \/ v.kind = "array" /\ v.at \in Seq(Values)
  BY ValuesAssumption
<1>3. v.kind # "scalar" => \A i \in DOMAIN v.at : Depth[v.at[i]] < Depth[v]
  BY ValuesAssumption
<1>4. ~(v.kind = "object" /\ v.kind = "array") /\ "object" # "array" /\ "scalar" # "array" /\ "scalar" # "object"
  OBVIOUS
<1>5. v # Rejected
  <2>1. v.kind # "rejected"
    BY <1>2
  <2>2. Rejected.kind = "rejected"
    BY DEF Rejected
  <2> QED BY <2>1, <2>2
<1>6. v.kind = "array" => v.at = [i \in 1..Len(v.at) |-> v.at[i]]
  BY <1>2
<1>7. v.kind # "scalar" => \A i \in DOMAIN v.at : v.at[i] \in Values
  BY <1>2
<1> QED BY <1>1, <1>2, <1>3, <1>5, <1>6, <1>7

\* The depth of a value is a number.
LEMMA DepthIs == \A v \in Values : Depth[v] \in Nat
BY ValuesAssumption

(***************************************************************************)
(* diff_observation is well defined: its functions up to a depth exist and  *)
(* agree with one another, and Diff is the one for all depths.              *)
(***************************************************************************)
DiffUpTo(d, n) == d = [p \in Shallow(n) \X Values |-> Node(d, p[1], p[2])]

\* The node of two values depends only on the differences of what is in them.
LEMMA NodeLocal ==
  ASSUME NEW old \in Values, NEW new \in Values, NEW d, NEW e,
         \A a \in Shallow(Depth[old]), b \in Values : d[<<a, b>>] = e[<<a, b>>]
  PROVE  Node(d, old, new) = Node(e, old, new)
<1>1. CASE old = new
  BY <1>1 DEF Node
<1>2. CASE old # new /\ ~SameShape(old, new)
  BY <1>2 DEF Node
<1>3. CASE old # new /\ SameShape(old, new)
  <2>1. old.kind # "scalar" /\ new.kind # "scalar"
    BY <1>3 DEF SameShape
  <2>2. \A k \in DOMAIN old.at \cap DOMAIN new.at :
          old.at[k] \in Shallow(Depth[old]) /\ new.at[k] \in Values
    BY <2>1, ValueIs DEF Shallow
  <2>3. Changes(d, old, new) = Changes(e, old, new)
    BY <2>2 DEF Changes
  <2> QED BY <1>3, <2>3 DEF Node
<1> QED BY <1>1, <1>2, <1>3

\* Two functions that compute differences up to some depths agree up to the lesser.
LEMMA DiffAgree ==
  ASSUME NEW n \in Nat, NEW m \in Nat, n <= m, NEW d, NEW e, DiffUpTo(d, n), DiffUpTo(e, m)
  PROVE  \A a \in Shallow(n), b \in Values : d[<<a, b>>] = e[<<a, b>>]
<1> DEFINE S == {k \in Nat : \A a \in Shallow(k) \cap Shallow(n), b \in Values : d[<<a, b>>] = e[<<a, b>>]}
<1>1. 0 \in S
  BY DepthIs DEF Shallow
<1>2. ASSUME NEW k \in Nat, k \in S PROVE k + 1 \in S
  <2> SUFFICES ASSUME NEW a \in Shallow(k + 1) \cap Shallow(n), NEW b \in Values
               PROVE  d[<<a, b>>] = e[<<a, b>>]
    OBVIOUS
  <2>1. a \in Values /\ Depth[a] \in Nat /\ Depth[a] < k + 1 /\ Depth[a] < n /\ a \in Shallow(m)
    BY DepthIs DEF Shallow
  <2>2. Shallow(Depth[a]) \subseteq Shallow(k) \cap Shallow(n)
    BY <2>1, DepthIs DEF Shallow
  <2>3. \A x \in Shallow(Depth[a]), y \in Values : d[<<x, y>>] = e[<<x, y>>]
    BY <1>2, <2>2
  <2>4. Node(d, a, b) = Node(e, a, b)
    BY <2>1, <2>3, NodeLocal
  <2>5. d[<<a, b>>] = Node(d, a, b)
    BY DEF DiffUpTo
  <2>6. e[<<a, b>>] = Node(e, a, b)
    BY <2>1 DEF DiffUpTo
  <2> QED BY <2>4, <2>5, <2>6
<1>3. Nat \subseteq S
  <2> HIDE DEF S
  <2> QED BY <1>1, <1>2, NatIsInductive
<1> QED BY <1>3

\* There is one for every depth.
LEMMA DiffExists ==
  ASSUME NEW n \in Nat
  PROVE  \E d : DiffUpTo(d, n)
<1> DEFINE S == {k \in Nat : \E d : DiffUpTo(d, k)}
<1>1. 0 \in S
  <2>1. Shallow(0) = {}
    BY DepthIs DEF Shallow
  <2> DEFINE d == [p \in Shallow(0) \X Values |-> None]
  <2>2. d = [p \in Shallow(0) \X Values |-> Node(d, p[1], p[2])]
    BY <2>1
  <2> HIDE DEF d
  <2> QED BY <2>2 DEF DiffUpTo
<1>2. ASSUME NEW k \in Nat, k \in S PROVE k + 1 \in S
  <2>1. PICK d : DiffUpTo(d, k)
    BY <1>2
  <2> DEFINE e == [p \in Shallow(k + 1) \X Values |-> Node(d, p[1], p[2])]
  <2>2. ASSUME NEW a \in Shallow(k), NEW b \in Values PROVE d[<<a, b>>] = e[<<a, b>>]
    <3>1. a \in Shallow(k + 1)
      BY DepthIs DEF Shallow
    <3>2. d[<<a, b>>] = Node(d, a, b)
      BY <2>1 DEF DiffUpTo
    <3> QED BY <3>1, <3>2
  <2>3. ASSUME NEW a \in Shallow(k + 1), NEW b \in Values
        PROVE  Node(d, a, b) = Node(e, a, b)
    <3>1. a \in Values /\ Depth[a] \in Nat /\ Shallow(Depth[a]) \subseteq Shallow(k)
      BY DepthIs DEF Shallow
    <3>2. \A x \in Shallow(Depth[a]), y \in Values : d[<<x, y>>] = e[<<x, y>>]
      BY <2>2, <3>1
    <3> HIDE DEF e
    <3> QED BY <3>1, <3>2, NodeLocal
  <2>4. e = [p \in Shallow(k + 1) \X Values |-> Node(e, p[1], p[2])]
    <3>1. \A p \in Shallow(k + 1) \X Values : Node(d, p[1], p[2]) = Node(e, p[1], p[2])
      BY <2>3
    <3>2. \A f : (\A p \in Shallow(k + 1) \X Values : Node(d, p[1], p[2]) = Node(f, p[1], p[2])) =>
             e = [p \in Shallow(k + 1) \X Values |-> Node(f, p[1], p[2])]
      OBVIOUS
    <3> HIDE DEF e
    <3> QED BY <3>1, <3>2
  <2> HIDE DEF e
  <2> QED BY <2>4 DEF DiffUpTo
<1>3. Nat \subseteq S
  <2> HIDE DEF S
  <2> QED BY <1>1, <1>2, NatIsInductive
<1> QED BY <1>3

\* The difference of two values is the node made of the differences in them.
LEMMA DeltaIs ==
  ASSUME NEW old \in Values, NEW new \in Values
  PROVE  Delta(old, new) = Node(Diff, old, new)
<1> DEFINE upto(n) == CHOOSE d : DiffUpTo(d, n)
           f == [p \in Values \X Values |-> upto(Depth[p[1]] + 1)[p]]
<1>1. \A n \in Nat : DiffUpTo(upto(n), n)
  BY DiffExists
<1>2. ASSUME NEW n \in Nat, NEW a \in Shallow(n), NEW b \in Values
      PROVE  f[<<a, b>>] = upto(n)[<<a, b>>]
  <2>1. a \in Values /\ Depth[a] + 1 \in Nat /\ Depth[a] + 1 <= n /\ a \in Shallow(Depth[a] + 1)
    BY DepthIs DEF Shallow
  <2>2. f[<<a, b>>] = upto(Depth[a] + 1)[<<a, b>>]
    BY <2>1
  <2>3. DiffUpTo(upto(Depth[a] + 1), Depth[a] + 1) /\ DiffUpTo(upto(n), n)
    BY <1>1, <2>1
  <2> HIDE DEF f, upto
  <2> QED BY <2>1, <2>2, <2>3, DiffAgree
<1>3. ASSUME NEW a \in Values, NEW b \in Values
      PROVE  f[<<a, b>>] = Node(f, a, b)
  <2>1. Depth[a] + 1 \in Nat /\ a \in Shallow(Depth[a] + 1) /\ Shallow(Depth[a]) \subseteq Shallow(Depth[a] + 1)
    BY DepthIs DEF Shallow
  <2>2. PICK d : d = upto(Depth[a] + 1)
    OBVIOUS
  <2>3. \A x \in Shallow(Depth[a] + 1), y \in Values : f[<<x, y>>] = d[<<x, y>>]
    <3> HIDE DEF f, upto
    <3> QED BY <1>2, <2>1, <2>2
  <2>4. d[<<a, b>>] = Node(d, a, b)
    <3>1. DiffUpTo(d, Depth[a] + 1)
      BY <1>1, <2>1, <2>2
    <3> QED BY <2>1, <3>1 DEF DiffUpTo
  <2>5. Node(f, a, b) = Node(d, a, b)
    <3> HIDE DEF f, upto
    <3>1. \A x \in Shallow(Depth[a]), y \in Values : f[<<x, y>>] = d[<<x, y>>]
      BY <2>1, <2>3
    <3> QED BY <3>1, NodeLocal
  <2> HIDE DEF f, upto
  <2> QED BY <2>1, <2>3, <2>4, <2>5
<1>4. f = [p \in Values \X Values |-> Node(f, p[1], p[2])]
  <2>1. \A p \in Values \X Values : f[p] = Node(f, p[1], p[2])
    <3> HIDE DEF f
    <3> QED BY <1>3
  <2>2. f = [p \in Values \X Values |-> f[p]]
    OBVIOUS
  <2> HIDE DEF f
  <2> QED BY <2>1, <2>2
<1>5. Diff = [p \in Values \X Values |-> Node(Diff, p[1], p[2])]
  <2> HIDE DEF f
  <2> QED BY <1>4 DEF Diff
<1> QED BY <1>5 DEF Delta

\* The deltas of the values within two values, where they differ.
Within(old, new) ==
  [k \in {i \in DOMAIN old.at \cap DOMAIN new.at : old.at[i] # new.at[i]} |->
     Delta(old.at[k], new.at[k])]

\* What a delta says, by what has become of the value.
LEMMA DeltaSays ==
  ASSUME NEW old \in Values, NEW new \in Values
  PROVE  /\ old = new => Delta(old, new) = None
         /\ old # new /\ ~SameShape(old, new) =>
              Delta(old, new) = [op |-> "replace", before |-> old, after |-> new]
         /\ old # new /\ SameShape(old, new) /\ old.kind = "array" =>
              Delta(old, new) = [op |-> "array", changed |-> Within(old, new)]
         /\ old # new /\ SameShape(old, new) /\ old.kind # "array" =>
              Delta(old, new) =
                [op      |-> "object",
                 added   |-> [k \in DOMAIN new.at \ DOMAIN old.at |-> new.at[k]],
                 removed |-> DOMAIN old.at \ DOMAIN new.at,
                 changed |-> Within(old, new)]
<1>1. Delta(old, new) = Node(Diff, old, new)
  BY DeltaIs
<1>2. Changes(Diff, old, new) = Within(old, new)
  BY DEF Changes, Within, Delta
<1> QED BY <1>1, <1>2 DEF Node

(***************************************************************************)
(* apply_observation_delta is well defined, in the same way, by the depth   *)
(* of the value that a delta is the difference from.                       *)
(***************************************************************************)
Below(n) == {Delta(old, new) : old \in Shallow(n), new \in Values}

\* The deltas within a delta come from values that nest less.
LEMMA WithinBelow ==
  ASSUME NEW old \in Values, NEW new \in Values, SameShape(old, new)
  PROVE  \A k \in DOMAIN Within(old, new) :
           /\ k \in DOMAIN old.at /\ k \in DOMAIN new.at
           /\ old.at[k] \in Values /\ new.at[k] \in Values /\ old.at[k] # new.at[k]
           /\ old.at[k] \in Shallow(Depth[old])
           /\ Within(old, new)[k] = Delta(old.at[k], new.at[k])
           /\ Within(old, new)[k] \in Below(Depth[old])
<1>1. old.kind # "scalar" /\ new.kind # "scalar"
  BY DEF SameShape
<1> SUFFICES ASSUME NEW k \in DOMAIN Within(old, new)
             PROVE  /\ k \in DOMAIN old.at /\ k \in DOMAIN new.at
                    /\ old.at[k] \in Values /\ new.at[k] \in Values /\ old.at[k] # new.at[k]
                    /\ old.at[k] \in Shallow(Depth[old])
                    /\ Within(old, new)[k] = Delta(old.at[k], new.at[k])
                    /\ Within(old, new)[k] \in Below(Depth[old])
  OBVIOUS
<1>2. k \in DOMAIN old.at /\ k \in DOMAIN new.at /\ old.at[k] # new.at[k]
  BY DEF Within
<1>3. Within(old, new)[k] = Delta(old.at[k], new.at[k])
  BY <1>2 DEF Within
<1>4. old.at[k] \in Values /\ new.at[k] \in Values /\ Depth[old.at[k]] < Depth[old]
  BY <1>1, <1>2, ValueIs
<1>5. old.at[k] \in Shallow(Depth[old])
  BY <1>4 DEF Shallow
<1> QED BY <1>2, <1>3, <1>4, <1>5 DEF Below

\* Removing and adding keys leaves an object with values in it.
LEMMA RekeyedIs ==
  ASSUME NEW before \in Values, before.kind = "object", NEW new \in Values, new.kind # "scalar",
         NEW delta, \A k \in DOMAIN delta.added : k \in DOMAIN new.at /\ delta.added[k] = new.at[k]
  PROVE  /\ DOMAIN Rekeyed(before, delta) =
              (DOMAIN before.at \ delta.removed) \cup DOMAIN delta.added
         /\ \A k \in DOMAIN Rekeyed(before, delta) : Rekeyed(before, delta)[k] \in Values
<1>1. /\ \A k \in DOMAIN before.at : before.at[k] \in Values
      /\ \A k \in DOMAIN new.at : new.at[k] \in Values
  BY ValueIs
<1> QED BY <1>1 DEF Rekeyed

\* What a delta does depends only on what the deltas in it do.
LEMMA AppliedLocal ==
  ASSUME NEW before \in Values, NEW old \in Values, NEW new \in Values, NEW f, NEW g,
         \A x \in Values, d \in Below(Depth[old]) : f[<<x, d>>] = g[<<x, d>>]
  PROVE  Applied(f, before, Delta(old, new)) = Applied(g, before, Delta(old, new))
<1> DEFINE delta == Delta(old, new)
<1>1. CASE old = new
  <2>1. delta = None
    BY <1>1, DeltaSays
  <2> HIDE DEF delta
  <2> QED BY <2>1 DEF Applied, None
<1>2. CASE old # new /\ ~SameShape(old, new)
  <2>1. delta = [op |-> "replace", before |-> old, after |-> new]
    BY <1>2, DeltaSays
  <2> HIDE DEF delta
  <2> QED BY <2>1 DEF Applied
<1>3. CASE old # new /\ SameShape(old, new) /\ old.kind = "array"
  <2>1. delta = [op |-> "array", changed |-> Within(old, new)]
    BY <1>3, DeltaSays
  <2>2. CASE before.kind = "array"
    <3>1. \A i \in DOMAIN before.at : before.at[i] \in Values
      BY <2>2, ValueIs
    <3>2. Changed(f, before.at, Within(old, new)) = Changed(g, before.at, Within(old, new))
      BY <1>3, <3>1, WithinBelow DEF Changed
    <3> HIDE DEF delta
    <3> QED BY <2>1, <3>2 DEF Applied
  <2>3. CASE before.kind # "array"
    <3> HIDE DEF delta
    <3> QED BY <2>1, <2>3 DEF Applied
  <2> QED BY <2>2, <2>3
<1>4. CASE old # new /\ SameShape(old, new) /\ old.kind # "array"
  <2>1. delta = [op      |-> "object",
                 added   |-> [k \in DOMAIN new.at \ DOMAIN old.at |-> new.at[k]],
                 removed |-> DOMAIN old.at \ DOMAIN new.at,
                 changed |-> Within(old, new)]
    BY <1>4, DeltaSays
  <2>2. CASE before.kind = "object"
    <3>1. \A k \in DOMAIN delta.added : k \in DOMAIN new.at /\ delta.added[k] = new.at[k]
      <4> HIDE DEF delta
      <4> QED BY <2>1
    <3>2. new.kind # "scalar"
      BY <1>4 DEF SameShape
    <3>3. \A k \in DOMAIN Rekeyed(before, delta) : Rekeyed(before, delta)[k] \in Values
      <4> HIDE DEF delta
      <4> QED BY <2>2, <3>1, <3>2, RekeyedIs
    <3>4. PICK at : at = Rekeyed(before, delta)
      OBVIOUS
    <3>5. Changed(f, at, Within(old, new)) = Changed(g, at, Within(old, new))
      BY <1>4, <3>3, <3>4, WithinBelow DEF Changed
    <3>6. delta.changed = Within(old, new) /\ delta.op = "object"
      <4> HIDE DEF delta
      <4> QED BY <2>1
    <3> HIDE DEF delta
    <3> QED BY <3>4, <3>5, <3>6 DEF Applied
  <2>3. CASE before.kind # "object"
    <3> HIDE DEF delta
    <3> QED BY <2>1, <2>3 DEF Applied, Fits
  <2> QED BY <2>2, <2>3
<1> QED BY <1>1, <1>2, <1>3, <1>4

ApplyUpTo(f, n) == f = [p \in Values \X Below(n) |-> Applied(f, p[1], p[2])]

\* The deltas of values up to a depth.
LEMMA BelowIs ==
  ASSUME NEW n \in Nat, NEW m \in Nat, n <= m
  PROVE  /\ Below(n) \subseteq Below(m) /\ Below(0) = {}
         /\ Below(n) \subseteq Deltas
         /\ \A d \in Below(n + 1) : \E old \in Values, new \in Values :
              d = Delta(old, new) /\ Depth[old] <= n /\ Below(Depth[old]) \subseteq Below(n)
<1>1. Shallow(n) \subseteq Shallow(m) /\ Shallow(0) = {} /\ Shallow(n) \subseteq Values
  BY DepthIs DEF Shallow
<1>2. ASSUME NEW d \in Below(n + 1)
      PROVE  \E old \in Values, new \in Values :
               d = Delta(old, new) /\ Depth[old] <= n /\ Below(Depth[old]) \subseteq Below(n)
  <2>1. PICK old \in Shallow(n + 1), new \in Values : d = Delta(old, new)
    BY DEF Below
  <2>2. old \in Values /\ Depth[old] <= n
    BY <2>1, DepthIs DEF Shallow
  <2>3. Shallow(Depth[old]) \subseteq Shallow(n)
    BY <2>2, DepthIs DEF Shallow
  <2>4. Below(Depth[old]) \subseteq Below(n)
    BY <2>3 DEF Below
  <2> QED BY <2>1, <2>2, <2>4
<1>3. Below(n) \subseteq Below(m) /\ Below(0) = {} /\ Below(n) \subseteq Deltas
  BY <1>1 DEF Below, Deltas
<1> QED BY <1>2, <1>3

\* Two functions that apply the deltas up to some depths agree up to the lesser.
LEMMA ApplyAgree ==
  ASSUME NEW n \in Nat, NEW m \in Nat, n <= m, NEW f, NEW g, ApplyUpTo(f, n), ApplyUpTo(g, m)
  PROVE  \A x \in Values, d \in Below(n) : f[<<x, d>>] = g[<<x, d>>]
<1> DEFINE S == {k \in Nat : k <= n => \A x \in Values, d \in Below(k) : f[<<x, d>>] = g[<<x, d>>]}
<1>1. 0 \in S
  BY BelowIs
<1>2. ASSUME NEW k \in Nat, k \in S PROVE k + 1 \in S
  <2> SUFFICES ASSUME k + 1 <= n, NEW x \in Values, NEW d \in Below(k + 1)
               PROVE  f[<<x, d>>] = g[<<x, d>>]
    OBVIOUS
  <2>1. k <= n /\ k + 1 \in Nat /\ k + 1 <= m /\ k <= k
    OBVIOUS
  <2>2. d \in Below(n) /\ d \in Below(m)
    BY <2>1, BelowIs
  <2>3. PICK old \in Values, new \in Values :
          d = Delta(old, new) /\ Below(Depth[old]) \subseteq Below(k)
    BY <2>1, BelowIs
  <2>4. \A y \in Values, e \in Below(Depth[old]) : f[<<y, e>>] = g[<<y, e>>]
    BY <1>2, <2>1, <2>3
  <2>5. Applied(f, x, Delta(old, new)) = Applied(g, x, Delta(old, new))
    BY <2>4, AppliedLocal
  <2>6. f[<<x, d>>] = Applied(f, x, d)
    BY <2>2 DEF ApplyUpTo
  <2>7. g[<<x, d>>] = Applied(g, x, d)
    BY <2>2 DEF ApplyUpTo
  <2> QED BY <2>3, <2>5, <2>6, <2>7
<1>3. Nat \subseteq S
  <2> HIDE DEF S
  <2> QED BY <1>1, <1>2, NatIsInductive
<1>4. n \in S /\ n <= n
  <2> HIDE DEF S
  <2> QED BY <1>3
<1> QED BY <1>4

\* There is one for every depth.
LEMMA ApplyExists ==
  ASSUME NEW n \in Nat
  PROVE  \E f : ApplyUpTo(f, n)
<1> DEFINE S == {k \in Nat : \E f : ApplyUpTo(f, k)}
<1>1. 0 \in S
  <2>1. Below(0) = {}
    BY BelowIs
  <2> DEFINE f == [p \in Values \X Below(0) |-> None]
  <2>2. f = [p \in Values \X Below(0) |-> Applied(f, p[1], p[2])]
    BY <2>1
  <2> HIDE DEF f
  <2> QED BY <2>2 DEF ApplyUpTo
<1>2. ASSUME NEW k \in Nat, k \in S PROVE k + 1 \in S
  <2>1. PICK f : ApplyUpTo(f, k)
    BY <1>2
  <2>2. k + 1 \in Nat /\ k <= k + 1 /\ k <= k
    OBVIOUS
  <2> DEFINE g == [p \in Values \X Below(k + 1) |-> Applied(f, p[1], p[2])]
  <2>3. ASSUME NEW x \in Values, NEW d \in Below(k) PROVE f[<<x, d>>] = g[<<x, d>>]
    <3>1. d \in Below(k + 1)
      BY <2>2, BelowIs
    <3>2. f[<<x, d>>] = Applied(f, x, d)
      BY <2>1 DEF ApplyUpTo
    <3> QED BY <3>1, <3>2
  <2>4. ASSUME NEW x \in Values, NEW d \in Below(k + 1)
        PROVE  Applied(f, x, d) = Applied(g, x, d)
    <3>1. PICK old \in Values, new \in Values :
            d = Delta(old, new) /\ Below(Depth[old]) \subseteq Below(k)
      BY <2>2, BelowIs
    <3>2. \A y \in Values, e \in Below(Depth[old]) : f[<<y, e>>] = g[<<y, e>>]
      BY <2>3, <3>1
    <3> HIDE DEF g
    <3> QED BY <3>1, <3>2, AppliedLocal
  <2>5. g = [p \in Values \X Below(k + 1) |-> Applied(g, p[1], p[2])]
    <3>1. \A p \in Values \X Below(k + 1) : Applied(f, p[1], p[2]) = Applied(g, p[1], p[2])
      BY <2>4
    <3>2. \A h : (\A p \in Values \X Below(k + 1) : Applied(f, p[1], p[2]) = Applied(h, p[1], p[2])) =>
             g = [p \in Values \X Below(k + 1) |-> Applied(h, p[1], p[2])]
      OBVIOUS
    <3> HIDE DEF g
    <3> QED BY <3>1, <3>2
  <2> HIDE DEF g
  <2> QED BY <2>2, <2>5 DEF ApplyUpTo
<1>3. Nat \subseteq S
  <2> HIDE DEF S
  <2> QED BY <1>1, <1>2, NatIsInductive
<1> QED BY <1>3

\* Applying a delta does to a value what its node says, and the deltas in it to
\* the values in it.
LEMMA ApplyIs ==
  ASSUME NEW x \in Values, NEW d \in Deltas
  PROVE  Apply(x, d) = Applied(ApplyTo, x, d)
<1> DEFINE upto(n) == CHOOSE f : ApplyUpTo(f, n)
           rank(e) == CHOOSE n \in Nat : e \in Below(n)
           g == [p \in Values \X Deltas |-> upto(rank(p[2]))[p]]
<1>1. \A n \in Nat : ApplyUpTo(upto(n), n)
  BY ApplyExists
<1>2. ASSUME NEW old \in Values, NEW new \in Values
      PROVE  Delta(old, new) \in Below(Depth[old] + 1) /\ Depth[old] + 1 \in Nat
  <2>1. Depth[old] + 1 \in Nat /\ old \in Shallow(Depth[old] + 1)
    BY DepthIs DEF Shallow
  <2> QED BY <2>1 DEF Below
<1>3. ASSUME NEW e \in Deltas PROVE rank(e) \in Nat /\ e \in Below(rank(e))
  <2>1. \E n \in Nat : e \in Below(n)
    BY <1>2 DEF Deltas
  <2> QED BY <2>1
<1>4. ASSUME NEW n \in Nat, NEW y \in Values, NEW e \in Below(n)
      PROVE  g[<<y, e>>] = upto(n)[<<y, e>>]
  <2>1. e \in Deltas
    BY BelowIs
  <2>2. rank(e) \in Nat /\ e \in Below(rank(e))
    BY <1>3, <2>1
  <2>3. g[<<y, e>>] = upto(rank(e))[<<y, e>>]
    BY <2>1
  <2>4. ApplyUpTo(upto(rank(e)), rank(e)) /\ ApplyUpTo(upto(n), n)
    BY <1>1, <2>2
  <2>5. rank(e) <= n \/ n <= rank(e)
    <3> HIDE DEF rank
    <3> QED BY <2>2
  <2> HIDE DEF g, upto, rank
  <2>6. CASE rank(e) <= n
    BY <2>2, <2>3, <2>4, <2>6, ApplyAgree
  <2>7. CASE n <= rank(e)
    BY <2>2, <2>3, <2>4, <2>7, ApplyAgree
  <2> QED BY <2>5, <2>6, <2>7
<1>5. ASSUME NEW y \in Values, NEW e \in Deltas
      PROVE  g[<<y, e>>] = Applied(g, y, e)
  <2>1. PICK old \in Values, new \in Values : e = Delta(old, new)
    BY DEF Deltas
  <2>2. PICK n : n = Depth[old] + 1
    OBVIOUS
  <2>3. n \in Nat /\ e \in Below(n) /\ Depth[old] \in Nat /\ Depth[old] <= n
    BY <1>2, <2>1, <2>2, DepthIs
  <2>4. PICK f : f = upto(n)
    OBVIOUS
  <2>5. \A z \in Values, c \in Below(n) : g[<<z, c>>] = f[<<z, c>>]
    <3> HIDE DEF g, upto
    <3> QED BY <1>4, <2>3, <2>4
  <2>6. f[<<y, e>>] = Applied(f, y, e)
    <3>1. ApplyUpTo(f, n)
      BY <1>1, <2>3, <2>4
    <3> QED BY <2>3, <3>1 DEF ApplyUpTo
  <2>7. Applied(g, y, Delta(old, new)) = Applied(f, y, Delta(old, new))
    <3>1. Below(Depth[old]) \subseteq Below(n)
      BY <2>3, BelowIs
    <3>2. \A z \in Values, c \in Below(Depth[old]) : g[<<z, c>>] = f[<<z, c>>]
      BY <2>5, <3>1
    <3> HIDE DEF g, upto
    <3> QED BY <3>2, AppliedLocal
  <2> HIDE DEF g, upto
  <2> QED BY <2>1, <2>3, <2>5, <2>6, <2>7
<1>6. g = [p \in Values \X Deltas |-> Applied(g, p[1], p[2])]
  <2>1. \A p \in Values \X Deltas : g[p] = Applied(g, p[1], p[2])
    <3> HIDE DEF g
    <3> QED BY <1>5
  <2>2. g = [p \in Values \X Deltas |-> g[p]]
    OBVIOUS
  <2> HIDE DEF g
  <2> QED BY <2>1, <2>2
<1>7. ApplyTo = [p \in Values \X Deltas |-> Applied(ApplyTo, p[1], p[2])]
  <2> HIDE DEF g
  <2> QED BY <1>6 DEF ApplyTo
<1>8. x # Rejected
  BY ValueIs
<1> QED BY <1>7, <1>8 DEF Apply

(***************************************************************************)
(* The laws of deltas.                                                     *)
(***************************************************************************)
\* Two values of one shape differ in their keys or in a value they both have.
LEMMA DifferWithin ==
  ASSUME NEW old \in Values, NEW new \in Values, SameShape(old, new), old # new,
         DOMAIN old.at = DOMAIN new.at
  PROVE  \E k \in DOMAIN new.at : k \in DOMAIN Within(old, new)
<1>1. /\ old = [kind |-> old.kind, at |-> old.at] /\ new = [kind |-> new.kind, at |-> new.at]
      /\ old.kind = new.kind
  BY ValueIs DEF SameShape
<1>2. old.at # new.at
  BY <1>1
<1>3. /\ old.at = [k \in DOMAIN old.at |-> old.at[k]]
      /\ new.at = [k \in DOMAIN new.at |-> new.at[k]]
  BY ValueIs DEF SameShape
<1>4. PICK k \in DOMAIN new.at : old.at[k] # new.at[k]
  BY <1>2, <1>3
<1> QED BY <1>4 DEF Within

\* Where the values within are led to one another, the whole is.
LEMMA ChangedIs ==
  ASSUME NEW old \in Values, NEW new \in Values, SameShape(old, new),
         \A a \in Shallow(Depth[old]), b \in Values : Apply(a, Delta(a, b)) = b,
         NEW at, DOMAIN at = DOMAIN new.at,
         \A i \in DOMAIN at : at[i] = IF i \in DOMAIN old.at THEN old.at[i] ELSE new.at[i]
  PROVE  /\ Changed(ApplyTo, at, Within(old, new)) = new.at
         /\ Whole([kind |-> new.kind, at |-> new.at]) = new
<1>1. \A i \in DOMAIN new.at : new.at[i] \in Values /\ new.at[i] # Rejected
  BY ValueIs DEF SameShape
<1>2. new = [kind |-> new.kind, at |-> new.at] /\ new.at = [i \in DOMAIN new.at |-> new.at[i]]
  BY ValueIs DEF SameShape
<1>3. ASSUME NEW i \in DOMAIN at, i \in DOMAIN Within(old, new)
      PROVE  ApplyTo[<<at[i], Within(old, new)[i]>>] = new.at[i]
  <2>1. /\ i \in DOMAIN old.at /\ old.at[i] \in Shallow(Depth[old])
        /\ old.at[i] \in Values /\ new.at[i] \in Values
        /\ Within(old, new)[i] = Delta(old.at[i], new.at[i])
    BY <1>3, WithinBelow
  <2>2. Apply(old.at[i], Delta(old.at[i], new.at[i])) = new.at[i] /\ old.at[i] # Rejected
    BY <2>1, ValueIs
  <2>3. at[i] = old.at[i]
    BY <2>1
  <2> QED BY <2>1, <2>2, <2>3 DEF Apply
<1>4. ASSUME NEW i \in DOMAIN at, i \notin DOMAIN Within(old, new)
      PROVE  at[i] = new.at[i]
  BY <1>4 DEF Within
<1>5. Changed(ApplyTo, at, Within(old, new)) = [i \in DOMAIN new.at |-> new.at[i]]
  BY <1>3, <1>4 DEF Changed
<1>6. Whole(new) = new
  BY <1>1 DEF Whole
<1> QED BY <1>2, <1>5, <1>6

\* The delta of two values leads from the one to the other: "lossless".
THEOREM DeltaIsLossless ==
  \A old, new \in Values : Apply(old, Delta(old, new)) = new
<1> DEFINE S == {k \in Nat : \A old \in Shallow(k), new \in Values : Apply(old, Delta(old, new)) = new}
<1>1. 0 \in S
  BY DepthIs DEF Shallow
<1>2. ASSUME NEW k \in Nat, k \in S PROVE k + 1 \in S
  <2> SUFFICES ASSUME NEW old \in Shallow(k + 1), NEW new \in Values
               PROVE  Apply(old, Delta(old, new)) = new
    OBVIOUS
  <2>1. old \in Values /\ Shallow(Depth[old]) \subseteq Shallow(k)
    BY DepthIs DEF Shallow
  <2>2. \A a \in Shallow(Depth[old]), b \in Values : Apply(a, Delta(a, b)) = b
    BY <1>2, <2>1
  <2>3. PICK d : d = Delta(old, new)
    OBVIOUS
  <2>4. Apply(old, d) = Applied(ApplyTo, old, d)
    <3>1. d \in Deltas
      BY <2>1, <2>3 DEF Deltas
    <3> QED BY <2>1, <3>1, ApplyIs
  <2>5. CASE old = new
    <3>1. d = None
      BY <2>1, <2>3, <2>5, DeltaSays
    <3> QED BY <2>3, <2>4, <2>5, <3>1 DEF Applied, None
  <2>6. CASE old # new /\ ~SameShape(old, new)
    <3>1. d = [op |-> "replace", before |-> old, after |-> new]
      BY <2>1, <2>3, <2>6, DeltaSays
    <3> QED BY <2>3, <2>4, <3>1 DEF Applied, ApplyReplace
  <2>7. CASE old # new /\ SameShape(old, new) /\ old.kind = "array"
    <3>1. d = [op |-> "array", changed |-> Within(old, new)]
      BY <2>1, <2>3, <2>7, DeltaSays
    <3>2. DOMAIN old.at = DOMAIN new.at /\ new.kind = "array"
      BY <2>1, <2>7, ValueIs DEF SameShape
    <3>3. /\ Changed(ApplyTo, old.at, Within(old, new)) = new.at
          /\ Whole([kind |-> new.kind, at |-> new.at]) = new
      BY <2>1, <2>2, <2>7, <3>2, ChangedIs
    <3>4. DOMAIN Within(old, new) \subseteq DOMAIN old.at
      BY DEF Within
    <3> QED BY <2>3, <2>4, <2>7, <3>1, <3>2, <3>3, <3>4 DEF Applied, Array
  <2>8. CASE old # new /\ SameShape(old, new) /\ old.kind # "array"
    <3>1. d = [op      |-> "object",
               added   |-> [i \in DOMAIN new.at \ DOMAIN old.at |-> new.at[i]],
               removed |-> DOMAIN old.at \ DOMAIN new.at,
               changed |-> Within(old, new)]
      BY <2>1, <2>3, <2>8, DeltaSays
    <3>2. old.kind = "object" /\ new.kind = "object"
      BY <2>1, <2>8, ValueIs DEF SameShape
    <3>3. DOMAIN Within(old, new) \subseteq DOMAIN old.at \cap DOMAIN new.at
      BY DEF Within
    <3>4. Fits(old, d)
      BY <3>1, <3>2, <3>3 DEF Fits
    <3>5. PICK at : at = Rekeyed(old, d)
      OBVIOUS
    <3>6. /\ DOMAIN at = DOMAIN new.at
          /\ \A i \in DOMAIN at : at[i] = IF i \in DOMAIN old.at THEN old.at[i] ELSE new.at[i]
      BY <3>1, <3>5 DEF Rekeyed
    <3>7. /\ Changed(ApplyTo, at, Within(old, new)) = new.at
          /\ Whole([kind |-> new.kind, at |-> new.at]) = new
      BY <2>1, <2>2, <2>8, <3>6, ChangedIs
    <3>8. d.op = "object" /\ d.changed = Within(old, new)
      BY <3>1
    <3> QED BY <2>3, <2>4, <3>2, <3>4, <3>5, <3>7, <3>8 DEF Applied, Object
  <2> QED BY <2>5, <2>6, <2>7, <2>8
<1>3. Nat \subseteq S
  <2> HIDE DEF S
  <2> QED BY <1>1, <1>2, NatIsInductive
<1> SUFFICES ASSUME NEW old \in Values, NEW new \in Values PROVE Apply(old, Delta(old, new)) = new
  OBVIOUS
<1>4. Depth[old] + 1 \in Nat /\ old \in Shallow(Depth[old] + 1)
  BY DepthIs DEF Shallow
<1> QED BY <1>3, <1>4

\* The delta of two values that differ is refused by the second of them.
THEOREM DeltaIsRefusedTwice ==
  \A old, new \in Values : old # new => Apply(new, Delta(old, new)) = Rejected
<1> DEFINE S == {k \in Nat : \A old \in Shallow(k), new \in Values :
                               old # new => Apply(new, Delta(old, new)) = Rejected}
<1>1. 0 \in S
  BY DepthIs DEF Shallow
<1>2. ASSUME NEW k \in Nat, k \in S PROVE k + 1 \in S
  <2> SUFFICES ASSUME NEW old \in Shallow(k + 1), NEW new \in Values, old # new
               PROVE  Apply(new, Delta(old, new)) = Rejected
    OBVIOUS
  <2>1. old \in Values /\ Shallow(Depth[old]) \subseteq Shallow(k)
    BY DepthIs DEF Shallow
  <2>2. PICK d : d = Delta(old, new)
    OBVIOUS
  <2>3. Apply(new, d) = Applied(ApplyTo, new, d)
    <3>1. d \in Deltas
      BY <2>1, <2>2 DEF Deltas
    <3> QED BY <3>1, ApplyIs
  \* Where both have a value that has changed, the delta within is refused.
  <2>4. ASSUME SameShape(old, new), NEW i \in DOMAIN new.at, i \in DOMAIN Within(old, new)
        PROVE  Changed(ApplyTo, new.at, Within(old, new))[i] = Rejected
    <3>1. /\ old.at[i] \in Shallow(Depth[old]) /\ new.at[i] \in Values
          /\ old.at[i] # new.at[i]
          /\ Within(old, new)[i] = Delta(old.at[i], new.at[i])
      BY <2>1, <2>4, WithinBelow
    <3>2. Apply(new.at[i], Delta(old.at[i], new.at[i])) = Rejected /\ new.at[i] # Rejected
      BY <1>2, <2>1, <3>1, ValueIs
    <3>3. ApplyTo[<<new.at[i], Within(old, new)[i]>>] = Rejected
      BY <3>1, <3>2 DEF Apply
    <3> QED BY <2>4, <3>3 DEF Changed
  <2>5. ASSUME SameShape(old, new), DOMAIN old.at = DOMAIN new.at, NEW kind
        PROVE  Whole([kind |-> kind, at |-> Changed(ApplyTo, new.at, Within(old, new))]) = Rejected
    <3>1. PICK i \in DOMAIN new.at : i \in DOMAIN Within(old, new)
      BY <2>1, <2>5, DifferWithin
    <3>2. PICK at : at = Changed(ApplyTo, new.at, Within(old, new))
      OBVIOUS
    <3>3. i \in DOMAIN at /\ at[i] = Rejected
      BY <2>4, <2>5, <3>1, <3>2 DEF Changed
    <3> QED BY <3>2, <3>3 DEF Whole
  <2>6. CASE ~SameShape(old, new)
    <3>1. d = [op |-> "replace", before |-> old, after |-> new]
      BY <2>1, <2>2, <2>6, DeltaSays
    <3> QED BY <2>2, <2>3, <3>1 DEF Applied, ApplyReplace
  <2>7. CASE SameShape(old, new) /\ old.kind = "array"
    <3>1. d = [op |-> "array", changed |-> Within(old, new)]
      BY <2>1, <2>2, <2>7, DeltaSays
    <3>2. DOMAIN old.at = DOMAIN new.at /\ new.kind = "array"
      BY <2>1, <2>7, ValueIs DEF SameShape
    <3>3. Whole(Array(Changed(ApplyTo, new.at, Within(old, new)))) = Rejected
      BY <2>5, <2>7, <3>2 DEF Array
    <3> QED BY <2>2, <2>3, <3>1, <3>3 DEF Applied
  <2>8. CASE SameShape(old, new) /\ old.kind # "array"
    <3>1. d = [op      |-> "object",
               added   |-> [i \in DOMAIN new.at \ DOMAIN old.at |-> new.at[i]],
               removed |-> DOMAIN old.at \ DOMAIN new.at,
               changed |-> Within(old, new)]
      BY <2>1, <2>2, <2>8, DeltaSays
    <3>2. CASE ~Fits(new, d)
      BY <2>2, <2>3, <3>1, <3>2 DEF Applied
    <3>3. CASE Fits(new, d)
      <4>1. DOMAIN new.at = DOMAIN old.at
        BY <3>1, <3>3 DEF Fits
      <4>2. new.at = [i \in DOMAIN new.at |-> new.at[i]]
        BY <2>8, ValueIs DEF SameShape
      <4>3. Rekeyed(new, d) = new.at
        BY <3>1, <4>1, <4>2 DEF Rekeyed
      <4>4. Whole(Object(Changed(ApplyTo, new.at, Within(old, new)))) = Rejected
        BY <2>5, <2>8, <4>1 DEF Object
      <4>5. d.op = "object" /\ d.changed = Within(old, new)
        BY <3>1
      <4> QED BY <2>2, <2>3, <3>3, <4>3, <4>4, <4>5 DEF Applied
    <3> QED BY <3>2, <3>3
  <2> QED BY <2>6, <2>7, <2>8
<1>3. Nat \subseteq S
  <2> HIDE DEF S
  <2> QED BY <1>1, <1>2, NatIsInductive
<1> SUFFICES ASSUME NEW old \in Values, NEW new \in Values, old # new
             PROVE  Apply(new, Delta(old, new)) = Rejected
  OBVIOUS
<1>4. Depth[old] + 1 \in Nat /\ old \in Shallow(Depth[old] + 1)
  BY DepthIs DEF Shallow
<1> QED BY <1>3, <1>4

(***************************************************************************)
(* The messages and the observations they stand for.                       *)
(***************************************************************************)
Message ==
  {Opening(o) : o \in Values} \cup {Action}
    \cup {Environment(d, told) : d \in Deltas, told \in Seq(Deltas)}

ConversationTypes ==
  /\ autonomous \in BOOLEAN /\ pending \in BOOLEAN
  /\ messages \in Seq(Message)
  /\ microsteps \in Seq(Deltas)
  /\ wakes \in Seq(Values) /\ wakes # <<>>
  /\ transitions \in Seq(Values) /\ transitions # <<>>

\* What the builder holds is the last it was told; the loop has gone on from there.
Latest ==
  /\ latest = wakes[Len(wakes)]
  /\ previous = transitions[Len(transitions)]
  /\ Len(microsteps) < Len(transitions)
  /\ latest = transitions[Len(transitions) - Len(microsteps)]
  /\ \A j \in 1..Len(microsteps) :
       LET now == Len(transitions) - Len(microsteps) + j
       IN  microsteps[j] = Delta(transitions[now - 1], transitions[now])
  /\ pending => microsteps # <<>>
  /\ ~autonomous => Len(microsteps) <= 1

\* The first message, then pairs of an action and what it led to.
Paired ==
  /\ pending => Len(messages) = 2 * Len(wakes) /\ messages[2 * Len(wakes)] = Action
  /\ ~pending => Len(messages) = 2 * Len(wakes) - 1
  /\ messages[1] = Opening(wakes[1])
  /\ \A i \in 1..(Len(wakes) - 1) :
       /\ messages[2 * i] = Action
       /\ \E told \in Seq(Deltas) :
            messages[2 * i + 1] = Environment(Delta(wakes[i], wakes[i + 1]), told)

\* mark: where in the native steps the session woke.  Each message tells the native
\* steps from one mark to the next, the last of them by its own delta.
Marked(mark) ==
  /\ mark \in Seq(Nat) /\ Len(mark) = Len(wakes)
  /\ mark[1] = 1 /\ mark[Len(mark)] = Len(transitions) - Len(microsteps)
  /\ \A i \in 1..Len(mark) : mark[i] \in 1..Len(transitions) /\ wakes[i] = transitions[mark[i]]
  /\ \A i \in 1..(Len(mark) - 1) :
       LET told == messages[2 * i + 1].microsteps
       IN  /\ mark[i + 1] = mark[i] + Len(told) + 1
           /\ \A j \in 1..Len(told) :
                told[j] = Delta(transitions[mark[i] + j - 1], transitions[mark[i] + j])

ConversationInv == ConversationTypes /\ Latest /\ Paired /\ \E mark : Marked(mark)

\* The observations of a backend are values, and deltas of values are deltas.
LEMMA ObservationIs ==
  /\ Observations \subseteq Values
  /\ \A old, new \in Values : Delta(old, new) \in Deltas
  /\ \A o \in Values : Opening(o) \in Message
  /\ Action \in Message
  /\ \A d \in Deltas, told \in Seq(Deltas) : Environment(d, told) \in Message
<1>1. Observations \subseteq Values
  BY ObservationsAssumption
<1>2. \A old, new \in Values : Delta(old, new) \in Deltas
  BY DEF Deltas
<1>3. \A o \in Values : Opening(o) \in Message
  BY DEF Message
<1>4. Action \in Message
  BY DEF Message
<1>5. \A d \in Deltas, told \in Seq(Deltas) : Environment(d, told) \in Message
  BY DEF Message
<1> QED BY <1>1, <1>2, <1>3, <1>4, <1>5

\* Initially the first observation is all there is.
LEMMA ConversationInit == Init => ConversationInv
<1> SUFFICES ASSUME Init PROVE ConversationInv
  OBVIOUS
<1>1. /\ autonomous \in BOOLEAN /\ latest \in Values /\ pending = FALSE
      /\ messages = <<Opening(latest)>> /\ microsteps = <<>> /\ previous = latest
      /\ transitions = <<latest>> /\ wakes = <<latest>>
  BY ObservationIs DEF Init
<1>2. ConversationTypes
  <2>1. messages \in Seq(Message)
    <3>1. Opening(latest) \in Message
      BY <1>1, ObservationIs
    <3> QED BY <1>1, <3>1
  <2>2. wakes \in Seq(Values) /\ transitions \in Seq(Values) /\ wakes # <<>> /\ transitions # <<>>
    BY <1>1
  <2>3. microsteps \in Seq(Deltas)
    BY <1>1
  <2>4. pending \in BOOLEAN
    BY <1>1
  <2> QED BY <1>1, <2>1, <2>2, <2>3, <2>4 DEF ConversationTypes
<1>3. Latest
  BY <1>1 DEF Latest
<1>4. Paired
  BY <1>1 DEF Paired
<1>5. Marked(<<1>>)
  BY <1>1 DEF Marked
<1> QED BY <1>2, <1>3, <1>4, <1>5 DEF ConversationInv

\* A native step is noted with its delta.
LEMMA StepKeeps ==
  ASSUME ConversationInv, NEW o \in Observations, Step(o)
  PROVE  ConversationInv'
<1>1. PICK mark : Marked(mark)
  BY DEF ConversationInv
<1>2. o \in Values /\ previous \in Values /\ Len(transitions) \in Nat \ {0} /\ Len(microsteps) \in Nat
  BY ObservationIs DEF ConversationInv, ConversationTypes, Latest
<1>3. PICK d \in Deltas : d = Delta(previous, o)
  BY <1>2, ObservationIs
<1>4. /\ microsteps' = Append(microsteps, d)
      /\ previous' = o /\ transitions' = Append(transitions, o)
      /\ UNCHANGED <<autonomous, messages, latest, pending, wakes>>
      /\ ~pending /\ (autonomous \/ microsteps = <<>>)
  BY <1>3 DEF Step, Deciding
<1>5. ConversationTypes'
  BY <1>2, <1>3, <1>4 DEF ConversationInv, ConversationTypes
<1>6. /\ Len(transitions') = Len(transitions) + 1 /\ Len(microsteps') = Len(microsteps) + 1
      /\ \A k \in 1..Len(transitions) : transitions'[k] = transitions[k]
      /\ transitions'[Len(transitions) + 1] = o
      /\ \A k \in 1..Len(microsteps) : microsteps'[k] = microsteps[k]
      /\ microsteps'[Len(microsteps) + 1] = d
  BY <1>2, <1>3, <1>4 DEF ConversationInv, ConversationTypes
<1>7. Latest'
  <2>1. /\ latest = wakes[Len(wakes)] /\ previous = transitions[Len(transitions)]
        /\ Len(microsteps) < Len(transitions)
        /\ latest = transitions[Len(transitions) - Len(microsteps)]
    BY DEF ConversationInv, Latest
  <2>2. ASSUME NEW j \in 1..Len(microsteps')
        PROVE  microsteps'[j] = Delta(transitions'[Len(transitions') - Len(microsteps') + j - 1],
                                      transitions'[Len(transitions') - Len(microsteps') + j])
    <3>0. PICK base : base = Len(transitions) - Len(microsteps)
      OBVIOUS
    <3>1. /\ base \in Nat /\ base >= 1 /\ base + Len(microsteps) = Len(transitions)
          /\ base = Len(transitions') - Len(microsteps')
      BY <1>2, <1>6, <2>1, <3>0
    <3>2. CASE j <= Len(microsteps)
      <4>1. j \in 1..Len(microsteps) /\ base + j - 1 \in 1..Len(transitions) /\ base + j \in 1..Len(transitions)
        BY <1>2, <3>1, <3>2
      <4>2. microsteps[j] = Delta(transitions[base + j - 1], transitions[base + j])
        <5>1. \A k \in 1..Len(microsteps) :
                microsteps[k] = Delta(transitions[Len(transitions) - Len(microsteps) + k - 1],
                                      transitions[Len(transitions) - Len(microsteps) + k])
          BY DEF ConversationInv, Latest
        <5> QED BY <3>0, <4>1, <5>1
      <4> QED BY <1>6, <3>1, <4>1, <4>2
    <3>3. CASE j = Len(microsteps) + 1
      <4>1. base + j - 1 = Len(transitions) /\ base + j = Len(transitions) + 1
        BY <1>2, <3>1, <3>3
      <4> QED BY <1>2, <1>3, <1>6, <2>1, <3>1, <3>3, <4>1
    <3> QED BY <1>2, <1>6, <3>2, <3>3
  <2>3. /\ Len(transitions') - Len(microsteps') = Len(transitions) - Len(microsteps)
        /\ Len(transitions) - Len(microsteps) \in 1..Len(transitions)
        /\ Len(microsteps') < Len(transitions')
        /\ ~autonomous' => Len(microsteps') <= 1
        /\ ~pending'
    BY <1>2, <1>4, <1>6, <2>1
  <2>4. /\ latest' = wakes'[Len(wakes')] /\ previous' = transitions'[Len(transitions')]
        /\ latest' = transitions'[Len(transitions') - Len(microsteps')]
    BY <1>2, <1>4, <1>6, <2>1, <2>3
  <2> QED BY <2>2, <2>3, <2>4 DEF Latest
<1>8. Paired'
  BY <1>4 DEF ConversationInv, Paired
<1>9. Marked(mark)'
  <2>1. /\ mark \in Seq(Nat) /\ Len(mark) = Len(wakes)
        /\ mark[1] = 1 /\ mark[Len(mark)] = Len(transitions) - Len(microsteps)
        /\ \A i \in 1..Len(mark) : mark[i] \in 1..Len(transitions) /\ wakes[i] = transitions[mark[i]]
    BY <1>1 DEF Marked
  <2>2. ASSUME NEW i \in 1..Len(mark)
        PROVE  mark[i] \in 1..Len(transitions') /\ wakes'[i] = transitions'[mark[i]]
    <3>1. mark[i] \in 1..Len(transitions) /\ wakes[i] = transitions[mark[i]]
      BY <2>1
    <3>2. mark[i] \in 1..Len(transitions') /\ transitions'[mark[i]] = transitions[mark[i]]
      BY <1>2, <1>6, <3>1
    <3> QED BY <1>4, <3>1, <3>2
  <2>3. ASSUME NEW i \in 1..(Len(mark) - 1)
        PROVE  LET told == messages'[2 * i + 1].microsteps
               IN  /\ mark[i + 1] = mark[i] + Len(told) + 1
                   /\ \A j \in 1..Len(told) :
                        told[j] = Delta(transitions'[mark[i] + j - 1], transitions'[mark[i] + j])
    <3>1. PICK told : told = messages[2 * i + 1].microsteps
      OBVIOUS
    <3>2. /\ mark[i + 1] = mark[i] + Len(told) + 1
          /\ \A j \in 1..Len(told) :
               told[j] = Delta(transitions[mark[i] + j - 1], transitions[mark[i] + j])
      BY <1>1, <3>1 DEF Marked
    <3>3. told \in Seq(Deltas)
      <4>1. i \in 1..(Len(wakes) - 1)
        BY <2>1
      <4>2. PICK t \in Seq(Deltas) : messages[2 * i + 1] = Environment(Delta(wakes[i], wakes[i + 1]), t)
        BY <4>1 DEF ConversationInv, Paired
      <4> QED BY <3>1, <4>2 DEF Environment
    <3>4. mark[i] \in 1..Len(transitions) /\ mark[i + 1] \in 1..Len(transitions)
      <4>1. i \in 1..Len(mark) /\ i + 1 \in 1..Len(mark)
        BY <2>1
      <4> QED BY <2>1, <4>1
    <3>5. \A j \in 1..Len(told) : mark[i] + j - 1 \in 1..Len(transitions) /\ mark[i] + j \in 1..Len(transitions)
      <4>1. \A a, l \in Nat, n \in Nat :
              a \in 1..n /\ a + l + 1 \in 1..n =>
                \A j \in 1..l : a + j - 1 \in 1..n /\ a + j \in 1..n
        OBVIOUS
      <4>2. mark[i] \in Nat /\ Len(told) \in Nat /\ Len(transitions) \in Nat
        BY <1>2, <3>3, <3>4
      <4>3. mark[i] \in 1..Len(transitions) /\ mark[i] + Len(told) + 1 \in 1..Len(transitions)
        BY <3>2, <3>4
      <4> QED BY <4>1, <4>2, <4>3
    <3> QED BY <1>4, <1>6, <3>1, <3>2, <3>5
  <2>4. Len(transitions') - Len(microsteps') = Len(transitions) - Len(microsteps)
    BY <1>2, <1>6
  <2> QED BY <1>4, <2>1, <2>2, <2>3, <2>4 DEF Marked
<1> QED BY <1>5, <1>7, <1>8, <1>9 DEF ConversationInv

\* What the messages say of a decision.
LEMMA TellsIs ==
  ASSUME ConversationInv, NEW i \in 1..(Len(wakes) - 1)
  PROVE  /\ 2 * i + 1 \in 1..Len(messages) /\ 2 * i \in 1..Len(messages)
         /\ wakes[i] \in Values /\ wakes[i + 1] \in Values
         /\ messages[2 * i + 1].delta = Delta(wakes[i], wakes[i + 1])
         /\ messages[2 * i + 1].microsteps \in Seq(Deltas)
<1>1. PICK t \in Seq(Deltas) : messages[2 * i + 1] = Environment(Delta(wakes[i], wakes[i + 1]), t)
  BY DEF ConversationInv, Paired
<1>2. wakes \in Seq(Values) /\ Len(wakes) \in Nat /\ pending \in BOOLEAN
  BY DEF ConversationInv, ConversationTypes
<1>3. i \in 1..Len(wakes) /\ i + 1 \in 1..Len(wakes)
  BY <1>2
<1>4. Len(messages) = 2 * Len(wakes) \/ Len(messages) = 2 * Len(wakes) - 1
  BY DEF ConversationInv, Paired
<1>5. 2 * i + 1 \in 1..Len(messages) /\ 2 * i \in 1..Len(messages)
  BY <1>2, <1>3, <1>4
<1>6. messages[2 * i + 1].delta = Delta(wakes[i], wakes[i + 1]) /\ messages[2 * i + 1].microsteps = t
  BY <1>1 DEF Environment
<1> QED BY <1>1, <1>2, <1>3, <1>5, <1>6

\* An action is appended between two observations.
LEMMA ActionKeeps ==
  ASSUME ConversationInv, AppendAction
  PROVE  ConversationInv'
<1>1. PICK mark : Marked(mark)
  BY DEF ConversationInv
<1>2. /\ messages' = Append(messages, Action) /\ pending = FALSE /\ pending' = TRUE
      /\ microsteps # <<>>
      /\ UNCHANGED <<autonomous, latest, microsteps, previous, transitions, wakes>>
  BY DEF AppendAction, ConversationInv, ConversationTypes
<1>3. /\ messages \in Seq(Message) /\ wakes \in Seq(Values) /\ Len(wakes) \in Nat
      /\ Len(messages) \in Nat /\ Len(messages) = 2 * Len(wakes) - 1
  BY <1>2 DEF ConversationInv, ConversationTypes, Paired
<1>4. /\ Len(messages') = Len(messages) + 1 /\ messages' \in Seq(Message)
      /\ \A k \in 1..Len(messages) : messages'[k] = messages[k]
  BY <1>2, <1>3, ObservationIs
<1>5. ConversationTypes'
  BY <1>2, <1>4 DEF ConversationInv, ConversationTypes
<1>6. Latest'
  BY <1>2 DEF ConversationInv, Latest
<1>7. \A i \in 1..(Len(wakes) - 1) :
        messages'[2 * i + 1] = messages[2 * i + 1] /\ messages'[2 * i] = messages[2 * i]
  BY <1>4, TellsIs
<1>8. Paired'
  <2>1. /\ messages'[1] = Opening(wakes[1]) /\ Len(messages') = 2 * Len(wakes)
        /\ messages'[2 * Len(wakes)] = Action
    <3>1. Len(wakes) >= 1
      BY <1>3 DEF ConversationInv, ConversationTypes
    <3>2. 1 \in 1..Len(messages) /\ Len(messages') = 2 * Len(wakes)
      BY <1>3, <1>4, <3>1
    <3>3. messages'[2 * Len(wakes)] = Action
      BY <1>2, <1>3, ObservationIs
    <3> QED BY <1>4, <3>2, <3>3 DEF ConversationInv, Paired
  <2> QED BY <1>2, <1>7, <2>1 DEF ConversationInv, Paired
<1>9. Marked(mark)'
  <2>1. Len(mark) = Len(wakes)
    BY <1>1 DEF Marked
  <2> QED BY <1>1, <1>2, <1>7, <2>1 DEF Marked
<1> QED BY <1>5, <1>6, <1>8, <1>9 DEF ConversationInv

\* The feedback tells all native steps but the last.
LEMMA ToldIs ==
  ASSUME ConversationInv, pending
  PROVE  /\ Told \in Seq(Deltas) /\ Len(Told) + 1 = Len(microsteps)
         /\ \A j \in 1..Len(Told) : Told[j] = microsteps[j]
<1>0. /\ microsteps \in Seq(Deltas) /\ microsteps # <<>>
      /\ ~autonomous => Len(microsteps) <= 1
  BY DEF ConversationInv, ConversationTypes, Latest
<1>1. microsteps \in Seq(Deltas) /\ Len(microsteps) \in Nat /\ Len(microsteps) # 0
  BY <1>0
<1>2. CASE autonomous
  <2>1. Told = SubSeq(microsteps, 1, Len(microsteps) - 1)
    BY <1>2 DEF Told, Front
  <2>2. PICK n \in Nat : n + 1 = Len(microsteps)
    BY <1>1
  <2>3. n = Len(microsteps) - 1
    BY <1>1, <2>2
  <2>4. /\ SubSeq(microsteps, 1, n) \in Seq(Deltas) /\ Len(SubSeq(microsteps, 1, n)) = n
        /\ \A j \in 1..n : SubSeq(microsteps, 1, n)[j] = microsteps[j]
    BY <1>1, <2>2
  <2> QED BY <2>1, <2>2, <2>3, <2>4
<1>3. CASE ~autonomous
  <2>1. Len(microsteps) <= 1
    BY <1>0, <1>3
  <2>2. Told = <<>>
    BY <1>3 DEF Told
  <2>3. Len(microsteps) = 0 + 1
    <3>1. \A n \in Nat : n # 0 /\ n <= 1 => n = 0 + 1
      OBVIOUS
    <3> QED BY <1>1, <2>1, <3>1
  <2>4. <<>> \in Seq(Deltas) /\ Len(<<>>) = 0
    OBVIOUS
  <2> QED BY <2>2, <2>3, <2>4
<1> QED BY <1>2, <1>3

\* Feedback brings the builder to where the loop is.
LEMMA EnvironmentKeeps ==
  ASSUME ConversationInv, AppendEnvironment
  PROVE  ConversationInv'
<1>1. PICK mark : Marked(mark)
  BY DEF ConversationInv
<1>2. PICK told : told = Told
  OBVIOUS
<1>3. PICK n : n = Len(wakes)
  OBVIOUS
<1>4. PICK t : t = Len(transitions)
  OBVIOUS
<1>5. PICK m : m = Len(microsteps)
  OBVIOUS
<1>6. PICK message : message = Environment(Delta(latest, previous), told)
  OBVIOUS
<1>7. /\ pending /\ messages' = Append(messages, message)
      /\ latest' = previous /\ pending' = FALSE /\ microsteps' = <<>>
      /\ wakes' = Append(wakes, previous)
      /\ UNCHANGED <<autonomous, previous, transitions>>
  BY <1>2, <1>6 DEF AppendEnvironment
<1>8. /\ messages \in Seq(Message) /\ wakes \in Seq(Values) /\ transitions \in Seq(Values)
      /\ n \in Nat \ {0} /\ t \in Nat \ {0} /\ m \in Nat \ {0} /\ m < t
      /\ Len(messages) = 2 * n
      /\ latest = wakes[n] /\ previous = transitions[t] /\ latest = transitions[t - m]
      /\ told \in Seq(Deltas) /\ Len(told) + 1 = m /\ \A j \in 1..Len(told) : told[j] = microsteps[j]
  <2>1. told \in Seq(Deltas) /\ Len(told) + 1 = m /\ \A j \in 1..Len(told) : told[j] = microsteps[j]
    BY <1>2, <1>5, <1>7, ToldIs
  <2>2. /\ messages \in Seq(Message) /\ wakes \in Seq(Values) /\ transitions \in Seq(Values)
        /\ wakes # <<>> /\ transitions # <<>> /\ microsteps \in Seq(Deltas)
    BY DEF ConversationInv, ConversationTypes
  <2>3. /\ latest = wakes[n] /\ previous = transitions[t] /\ latest = transitions[t - m] /\ m < t
        /\ microsteps # <<>>
    BY <1>3, <1>4, <1>5, <1>7 DEF ConversationInv, Latest
  <2>4. Len(messages) = 2 * n
    BY <1>3, <1>7 DEF ConversationInv, Paired
  <2>5. n \in Nat \ {0} /\ t \in Nat \ {0} /\ m \in Nat \ {0}
    BY <1>3, <1>4, <1>5, <2>2, <2>3
  <2> QED BY <2>1, <2>2, <2>3, <2>4, <2>5
<1>9. latest \in Values /\ previous \in Values /\ message \in Message
  <2>1. latest \in Values /\ previous \in Values
    BY <1>3, <1>4, <1>8
  <2> QED BY <1>6, <1>8, <2>1, ObservationIs
<1>10. /\ Len(messages') = 2 * n + 1 /\ messages'[2 * n + 1] = message
       /\ messages' \in Seq(Message)
       /\ \A k \in 1..Len(messages) : messages'[k] = messages[k]
  <2>1. messages \in Seq(Message) /\ message \in Message /\ messages' = Append(messages, message)
    BY <1>7, <1>8, <1>9
  <2>2. /\ Len(messages') = Len(messages) + 1 /\ messages' \in Seq(Message)
        /\ messages'[Len(messages) + 1] = message
        /\ \A k \in 1..Len(messages) : messages'[k] = messages[k]
    BY <2>1, AppendProperties
  <2> QED BY <1>8, <2>2
<1>11. /\ Len(wakes') = n + 1 /\ wakes'[n + 1] = previous /\ wakes' \in Seq(Values)
       /\ \A k \in 1..n : wakes'[k] = wakes[k]
  BY <1>3, <1>7, <1>8, <1>9
<1>12. ConversationTypes'
  <2>1. microsteps' \in Seq(Deltas) /\ wakes' # <<>>
    BY <1>7, <1>11
  <2>2. autonomous' \in BOOLEAN /\ pending' \in BOOLEAN
    BY <1>7 DEF ConversationInv, ConversationTypes
  <2>3. transitions' \in Seq(Values) /\ transitions' # <<>>
    BY <1>7 DEF ConversationInv, ConversationTypes
  <2> QED BY <1>10, <1>11, <2>1, <2>2, <2>3 DEF ConversationTypes
<1>13. Latest'
  <2>1. Len(microsteps') = 0 /\ Len(transitions') = t /\ transitions'[t] = previous /\ t - 0 = t
    BY <1>4, <1>7, <1>8
  <2>2. latest' = wakes'[Len(wakes')] /\ previous' = transitions'[Len(transitions')]
    BY <1>7, <1>11, <2>1
  <2> QED BY <1>7, <1>8, <2>1, <2>2 DEF Latest
<1>14. ASSUME NEW i \in 1..(n - 1)
       PROVE  /\ messages'[2 * i + 1] = messages[2 * i + 1] /\ messages'[2 * i] = messages[2 * i]
              /\ wakes'[i] = wakes[i] /\ wakes'[i + 1] = wakes[i + 1]
  <2>1. 2 * i + 1 \in 1..Len(messages) /\ 2 * i \in 1..Len(messages)
    BY <1>3, TellsIs
  <2>2. i \in 1..n /\ i + 1 \in 1..n
    BY <1>8
  <2> QED BY <1>10, <1>11, <2>1, <2>2
<1>15. wakes'[n] = wakes[n] /\ messages'[2 * n] = messages[2 * n] /\ messages'[1] = messages[1] /\ wakes'[1] = wakes[1]
  <2>1. n \in 1..n /\ 2 * n \in 1..Len(messages) /\ 1 \in 1..Len(messages) /\ 1 \in 1..n
    BY <1>8
  <2> QED BY <1>10, <1>11, <2>1
<1>16. Paired'
  <2>1. \A i \in 1..(n - 1) :
          /\ messages[2 * i] = Action
          /\ \E q \in Seq(Deltas) : messages[2 * i + 1] = Environment(Delta(wakes[i], wakes[i + 1]), q)
    BY <1>3 DEF ConversationInv, Paired
  <2>2. messages[2 * n] = Action
    BY <1>3, <1>7 DEF ConversationInv, Paired
  <2>3. ASSUME NEW i \in 1..n
        PROVE  /\ messages'[2 * i] = Action
               /\ \E q \in Seq(Deltas) : messages'[2 * i + 1] = Environment(Delta(wakes'[i], wakes'[i + 1]), q)
    <3>1. CASE i = n
      BY <1>6, <1>8, <1>10, <1>11, <1>15, <2>2, <3>1
    <3>2. CASE i # n
      <4>1. i \in 1..(n - 1)
        BY <1>8, <3>2
      <4> QED BY <1>14, <2>1, <4>1
    <3> QED BY <3>1, <3>2
  <2>4. messages'[1] = Opening(wakes'[1])
    BY <1>15 DEF ConversationInv, Paired
  <2>5. Len(messages') = 2 * Len(wakes') - 1 /\ Len(wakes') - 1 = n
    BY <1>8, <1>10, <1>11
  <2> QED BY <1>7, <2>3, <2>4, <2>5 DEF Paired
<1>17. PICK next : next = Append(mark, t)
  OBVIOUS
<1>18. Marked(next)'
  <2>1. /\ mark \in Seq(Nat) /\ Len(mark) = n
        /\ mark[1] = 1 /\ mark[n] = t - m
        /\ \A i \in 1..n : mark[i] \in 1..t /\ wakes[i] = transitions[mark[i]]
    BY <1>1, <1>3, <1>4, <1>5 DEF Marked
  <2>2. /\ next \in Seq(Nat) /\ Len(next) = n + 1 /\ next[n + 1] = t
        /\ \A k \in 1..n : next[k] = mark[k]
    BY <1>8, <1>17, <2>1
  <2>3. /\ Len(next) = Len(wakes') /\ next[1] = 1
        /\ next[Len(next)] = Len(transitions') - Len(microsteps')
    <3>1. 1 \in 1..n /\ Len(microsteps') = 0 /\ Len(transitions') = t /\ t - 0 = t
      BY <1>4, <1>7, <1>8
    <3> QED BY <1>11, <2>1, <2>2, <3>1
  <2>4. ASSUME NEW i \in 1..Len(next)
        PROVE  next[i] \in 1..Len(transitions') /\ wakes'[i] = transitions'[next[i]]
    <3>1. CASE i \in 1..n
      BY <1>4, <1>7, <1>11, <2>1, <2>2, <3>1
    <3>2. CASE i = n + 1
      BY <1>4, <1>7, <1>8, <1>11, <2>2, <3>2
    <3> QED BY <1>8, <2>2, <3>1, <3>2
  <2>5. ASSUME NEW i \in 1..(Len(next) - 1)
        PROVE  LET q == messages'[2 * i + 1].microsteps
               IN  /\ next[i + 1] = next[i] + Len(q) + 1
                   /\ \A j \in 1..Len(q) :
                        q[j] = Delta(transitions'[next[i] + j - 1], transitions'[next[i] + j])
    <3>1. i \in 1..n
      BY <1>8, <2>2
    <3>2. CASE i = n
      <4>1. messages'[2 * i + 1].microsteps = told
        BY <1>6, <1>10, <3>2 DEF Environment
      <4>2. next[i + 1] = t /\ next[i] = t - m
        BY <1>8, <2>1, <2>2, <3>2
      <4>3. next[i + 1] = next[i] + Len(told) + 1
        <5>1. Len(told) \in Nat
          BY <1>8
        <5>2. \A k \in Nat : k + 1 = m => t = t - m + k + 1
          BY <1>8
        <5> QED BY <1>8, <4>2, <5>1, <5>2
      <4>4. ASSUME NEW j \in 1..Len(told)
            PROVE  told[j] = Delta(transitions'[next[i] + j - 1], transitions'[next[i] + j])
        <5>1. j \in 1..m /\ told[j] = microsteps[j]
          BY <1>8
        <5>2. microsteps[j] = Delta(transitions[t - m + j - 1], transitions[t - m + j])
          <6>1. \A k \in 1..Len(microsteps) :
                  microsteps[k] = Delta(transitions[Len(transitions) - Len(microsteps) + k - 1],
                                        transitions[Len(transitions) - Len(microsteps) + k])
            BY DEF ConversationInv, Latest
          <6> QED BY <1>4, <1>5, <5>1, <6>1
        <5> QED BY <1>7, <4>2, <5>1, <5>2
      <4> QED BY <4>1, <4>3, <4>4
    <3>3. CASE i # n
      <4>0. n \in Nat /\ i \in 1..n /\ i # n
        BY <1>8, <3>1, <3>3
      <4>1. i \in 1..(n - 1) /\ i \in 1..(Len(mark) - 1) /\ i + 1 \in 1..n
        BY <2>1, <4>0
      <4>2. messages'[2 * i + 1] = messages[2 * i + 1] /\ next[i] = mark[i] /\ next[i + 1] = mark[i + 1]
        BY <1>14, <2>2, <3>1, <4>1
      <4>3. LET q == messages[2 * i + 1].microsteps
            IN  /\ mark[i + 1] = mark[i] + Len(q) + 1
                /\ \A j \in 1..Len(q) : q[j] = Delta(transitions[mark[i] + j - 1], transitions[mark[i] + j])
        BY <1>1, <4>1 DEF Marked
      <4> QED BY <1>7, <4>2, <4>3
    <3> QED BY <3>2, <3>3
  <2> QED BY <2>2, <2>3, <2>4, <2>5 DEF Marked
<1> QED BY <1>12, <1>13, <1>16, <1>18 DEF ConversationInv

\* Every step keeps the invariant.
LEMMA ConversationNext == ConversationInv /\ [Next]_vars => ConversationInv'
<1> SUFFICES ASSUME ConversationInv, [Next]_vars PROVE ConversationInv'
  OBVIOUS
<1>1. ASSUME UNCHANGED vars PROVE ConversationInv'
  <2>1. UNCHANGED <<autonomous, messages, latest, pending, microsteps, previous, transitions, wakes>>
    BY <1>1 DEF vars
  <2>2. ConversationTypes'
    BY <2>1, Zenon DEF ConversationInv, ConversationTypes
  <2>3. Latest'
    BY <2>1, Zenon DEF ConversationInv, Latest
  <2>4. Paired'
    BY <2>1, Zenon DEF ConversationInv, Paired
  <2>5. PICK mark : Marked(mark)
    BY DEF ConversationInv
  <2>6. Marked(mark)'
    BY <2>1, <2>5, Zenon DEF Marked
  <2> QED BY <2>2, <2>3, <2>4, <2>6 DEF ConversationInv
<1>2. ASSUME NEW o \in Observations, Step(o) PROVE ConversationInv'
  BY <1>2, StepKeeps
<1>3. ASSUME NEW o \in Observations, StepRaises(o) PROVE ConversationInv'
  BY <1>1, <1>3 DEF StepRaises
<1>4. CASE AppendAction
  BY <1>4, ActionKeeps
<1>5. CASE AppendEnvironment
  BY <1>5, EnvironmentKeeps
<1>6. CASE AppendEnvironmentRaises
  BY <1>1, <1>6 DEF AppendEnvironmentRaises
<1> QED BY <1>1, <1>2, <1>3, <1>4, <1>5, <1>6 DEF Next

\* The types of the conversation, the alternation of its messages, and the native
\* steps they stand for.
THEOREM ConversationInvariant == ConversationSpec => []ConversationInv
BY ConversationInit, ConversationNext, PTL DEF ConversationSpec

(***************************************************************************)
(* What is read from the messages.                                         *)
(***************************************************************************)
\* Values that deltas lead through are the chain of the deltas from the first.
LEMMA ChainIs ==
  ASSUME NEW vals \in Seq(Values), vals # <<>>, NEW deltas, Len(deltas) = Len(vals) - 1,
         \A i \in 1..Len(deltas) : Apply(vals[i], deltas[i]) = vals[i + 1]
  PROVE  Chain(vals[1], deltas) = vals
<1>1. PICK n \in Nat : n = Len(deltas) /\ Len(vals) = n + 1
  BY LenProperties
<1> DEFINE IsChain(k) == k = [i \in 0..n |-> IF i = 0 THEN vals[1] ELSE Apply(k[i - 1], deltas[i])]
           h == [i \in 0..n |-> vals[i + 1]]
           k == CHOOSE q : IsChain(q)
<1>2. IsChain(h)
  <2>1. ASSUME NEW i \in 0..n PROVE h[i] = IF i = 0 THEN vals[1] ELSE Apply(h[i - 1], deltas[i])
    <3>1. CASE i = 0
      BY <3>1
    <3>2. CASE i # 0
      <4>1. i \in 1..n /\ i - 1 \in 0..n /\ (i - 1) + 1 = i
        BY <3>2
      <4>2. Apply(vals[i], deltas[i]) = vals[i + 1]
        BY <1>1, <4>1
      <4> QED BY <3>2, <4>1, <4>2
    <3> QED BY <3>1, <3>2
  <2>2. h = [i \in 0..n |-> h[i]]
    OBVIOUS
  <2> HIDE DEF h
  <2> QED BY <2>1, <2>2
<1>3. IsChain(k)
  <2> HIDE DEF h, IsChain
  <2> QED BY <1>2
<1>4. \A i \in 0..n : k[i] = vals[i + 1]
  <2> DEFINE S == {i \in Nat : i <= n => k[i] = vals[i + 1]}
  <2>0. \A i \in 0..n : k[i] = IF i = 0 THEN vals[1] ELSE Apply(k[i - 1], deltas[i])
    <3> HIDE DEF k
    <3> QED BY <1>3
  <2>1. 0 \in S
    <3> HIDE DEF k
    <3> QED BY <2>0
  <2>2. ASSUME NEW i \in Nat, i \in S PROVE i + 1 \in S
    <3>1. SUFFICES ASSUME i + 1 <= n PROVE k[i + 1] = vals[(i + 1) + 1]
      BY DEF k
    <3>2. i + 1 \in 0..n /\ i + 1 # 0 /\ (i + 1) - 1 = i /\ i <= n /\ i + 1 \in 1..n
      BY <3>1
    <3>3. k[i + 1] = Apply(k[i], deltas[i + 1])
      <4> HIDE DEF k
      <4> QED BY <2>0, <3>2
    <3>4. k[i] = vals[i + 1]
      <4> HIDE DEF k
      <4> QED BY <2>2, <3>2
    <3> HIDE DEF k
    <3> QED BY <1>1, <3>2, <3>3, <3>4
  <2>3. Nat \subseteq S
    <3> HIDE DEF S
    <3> QED BY <2>1, <2>2, NatIsInductive
  <2> HIDE DEF k
  <2> QED BY <2>3
<1>5. Chain(vals[1], deltas) = [i \in 1..n + 1 |-> k[i - 1]]
  BY <1>1 DEF Chain
<1>6. \A i \in 1..n + 1 : k[i - 1] = vals[i]
  <2> SUFFICES ASSUME NEW i \in 1..n + 1 PROVE k[i - 1] = vals[i]
    OBVIOUS
  <2>1. i - 1 \in 0..n /\ (i - 1) + 1 = i
    OBVIOUS
  <2> HIDE DEF k
  <2> QED BY <1>4, <2>1
<1>7. vals = [i \in 1..n + 1 |-> vals[i]]
  BY <1>1
<1> HIDE DEF k
<1> QED BY <1>5, <1>6, <1>7

\* There are as many decisions in the messages as the session has woken to.
LEMMA DecisionsIs ==
  ASSUME ConversationInv
  PROVE  Decisions = Len(wakes) - 1 /\ Decisions \in Nat
<1>1. Len(wakes) \in Nat /\ Len(wakes) # 0
  BY DEF ConversationInv, ConversationTypes
<1>2. Len(messages) = 2 * Len(wakes) \/ Len(messages) = 2 * Len(wakes) - 1
  BY DEF ConversationInv, Paired, ConversationTypes
<1>3. \A n \in Nat : n # 0 => (2 * n - 1) \div 2 = n - 1 /\ ((2 * n - 1) - 1) \div 2 = n - 1 /\ n - 1 \in Nat
  OBVIOUS
<1> QED BY <1>1, <1>2, <1>3 DEF Decisions

\* The deltas of the messages lead through what the session has woken to.
LEMMA ReconstructedIs ==
  ASSUME ConversationInv
  PROVE  Reconstructed = wakes
<1>1. PICK n \in Nat : n = Decisions /\ Len(wakes) = n + 1
  BY DecisionsIs DEF ConversationInv, ConversationTypes
<1>2. wakes \in Seq(Values) /\ wakes # <<>> /\ messages[1].observation = wakes[1]
  BY DEF ConversationInv, ConversationTypes, Paired, Opening
<1>3. PICK deltas : deltas = [i \in 1..n |-> Wakings[i].delta]
  OBVIOUS
<1>4. \A i \in 1..n : deltas[i] = Delta(wakes[i], wakes[i + 1]) /\ wakes[i] \in Values /\ wakes[i + 1] \in Values
  BY <1>1, <1>3, TellsIs DEF Wakings
<1>5. Len(deltas) = n
  BY <1>3
<1>6. \A i \in 1..Len(deltas) : Apply(wakes[i], deltas[i]) = wakes[i + 1]
  BY <1>4, <1>5, DeltaIsLossless
<1>7. Chain(wakes[1], deltas) = wakes
  BY <1>1, <1>2, <1>5, <1>6, ChainIs
<1> QED BY <1>1, <1>2, <1>3, <1>7 DEF Reconstructed

\* A beginning of a sequence, what comes next, and the element after that.
Grows(S, t, m, l) ==
  /\ SubSeq(t, m, m + l) \in Seq(S) /\ SubSeq(t, m, m + l) # <<>>
  /\ Len(SubSeq(t, m, m + l)) = l + 1
  /\ \A i \in 1..l + 1 : SubSeq(t, m, m + l)[i] = t[m + i - 1]
  /\ Last(SubSeq(t, 1, m)) = t[m]
  /\ SubSeq(t, 1, m) \o Tail(SubSeq(t, m, m + l)) \o <<t[m + l + 1]>>
       = SubSeq(t, 1, m + l + 1)

\* The three make up a longer beginning.
LEMMA PrefixGrows ==
  ASSUME NEW S, NEW t \in Seq(S), NEW m \in Nat \ {0}, NEW l \in Nat, m + l + 1 <= Len(t)
  PROVE  Grows(S, t, m, l)
<1>1. /\ Len(t) \in Nat /\ m + l \in Int /\ m \in Int /\ 1 \in Int
      /\ m \in 1..Len(t) /\ m + l \in m..Len(t) /\ m + l + 1 \in 1..Len(t)
      /\ \A i \in m..m + l : t[i] \in S
      /\ \A i \in 1..m : t[i] \in S
  OBVIOUS
<1>2. /\ SubSeq(t, m, m + l) \in Seq(S) /\ Len(SubSeq(t, m, m + l)) = l + 1
      /\ \A i \in 1..l + 1 : SubSeq(t, m, m + l)[i] = t[m + i - 1]
  <2>1. /\ SubSeq(t, m, m + l) \in Seq(S)
        /\ Len(SubSeq(t, m, m + l)) = IF m <= m + l THEN m + l - m + 1 ELSE 0
        /\ \A i \in 1..m + l - m + 1 : SubSeq(t, m, m + l)[i] = t[m + i - 1]
    BY <1>1, SubSeqProperties
  <2>2. m <= m + l /\ m + l - m + 1 = l + 1
    OBVIOUS
  <2> QED BY <2>1, <2>2
<1>3. SubSeq(t, m, m + l) # <<>>
  BY <1>2
<1>4. Last(SubSeq(t, 1, m)) = t[m]
  <2>1. /\ Len(SubSeq(t, 1, m)) = IF 1 <= m THEN m - 1 + 1 ELSE 0
        /\ \A i \in 1..m - 1 + 1 : SubSeq(t, 1, m)[i] = t[1 + i - 1]
    BY <1>1, SubSeqProperties
  <2>2. 1 <= m /\ m - 1 + 1 = m /\ m \in 1..m /\ 1 + m - 1 = m
    OBVIOUS
  <2>3. Len(SubSeq(t, 1, m)) = m /\ SubSeq(t, 1, m)[m] = t[m]
    BY <2>1, <2>2
  <2> QED BY <2>3 DEF Last
<1>5. Tail(SubSeq(t, m, m + l)) = SubSeq(t, m + 1, m + l)
  BY <1>1, HeadTailOfSubSeq
<1>6. SubSeq(t, 1, m) \o SubSeq(t, m + 1, m + l) = SubSeq(t, 1, m + l)
  <2>1. 1 \in 1..Len(t) + 1 /\ m \in 1 - 1..Len(t)
    BY <1>1
  <2> QED BY <1>1, <2>1, ConcatAdjacentSubSeq
<1>7. SubSeq(t, 1, m + l + 1) = SubSeq(t, 1, m + l) \o <<t[m + l + 1]>>
  <2>1. PICK n : n = m + l + 1
    OBVIOUS
  <2>2. n \in 1..Len(t) /\ n - 1 = m + l /\ 1 \in 1..Len(t)
    BY <1>1, <2>1
  <2>3. SubSeq(t, 1, n) = SubSeq(t, 1, n - 1) \o <<t[n]>>
    BY <2>2, SubSeqRecursiveSecond
  <2> QED BY <2>1, <2>2, <2>3
<1> QED BY <1>2, <1>3, <1>4, <1>5, <1>6, <1>7 DEF Grows

\* What is known once the message of a decision has been read.
Read(known, i) ==
  LET last == Last(known)
  IN  known \o Tail(Chain(last, Wakings[i].microsteps)) \o <<Apply(last, Wakings[i].delta)>>

\* The message of a decision leads from mark to mark.
LEMMA ReadIs ==
  ASSUME ConversationInv, NEW mark, Marked(mark), NEW i \in 1..Decisions
  PROVE  Read(SubSeq(transitions, 1, mark[i]), i) = SubSeq(transitions, 1, mark[i + 1])
<1>1. /\ Decisions \in Nat /\ Len(wakes) = Decisions + 1 /\ i \in 1..(Len(wakes) - 1)
      /\ transitions \in Seq(Values) /\ Len(mark) = Len(wakes)
      /\ i \in 1..(Len(mark) - 1) /\ i \in 1..Len(mark) /\ i + 1 \in 1..Len(mark)
  <2>1. transitions \in Seq(Values) /\ Len(wakes) \in Nat /\ Len(mark) = Len(wakes)
    BY DEF ConversationInv, ConversationTypes, Marked
  <2>2. Decisions \in Nat /\ Decisions = Len(wakes) - 1
    BY DecisionsIs
  <2>3. Len(wakes) = Decisions + 1
    BY <2>1, <2>2
  <2> QED BY <2>1, <2>2, <2>3
<1>2. PICK told : told = messages[2 * i + 1].microsteps
  OBVIOUS
<1>3. PICK m : m = mark[i]
  OBVIOUS
<1>4. PICK l : l = Len(told)
  OBVIOUS
<1>5. /\ wakes[i] \in Values /\ wakes[i + 1] \in Values /\ told \in Seq(Deltas)
      /\ Wakings[i].microsteps = told /\ Wakings[i].delta = Delta(wakes[i], wakes[i + 1])
  BY <1>1, <1>2, TellsIs DEF Wakings
<1>6. /\ m \in 1..Len(transitions) /\ wakes[i] = transitions[m]
      /\ mark[i + 1] \in 1..Len(transitions) /\ wakes[i + 1] = transitions[mark[i + 1]]
      /\ mark[i + 1] = m + l + 1
      /\ \A j \in 1..l : told[j] = Delta(transitions[m + j - 1], transitions[m + j])
  <2>1. /\ m \in 1..Len(transitions) /\ wakes[i] = transitions[m]
        /\ mark[i + 1] \in 1..Len(transitions) /\ wakes[i + 1] = transitions[mark[i + 1]]
    BY <1>1, <1>3 DEF Marked
  <2>2. /\ mark[i + 1] = mark[i] + Len(told) + 1
        /\ \A j \in 1..Len(told) : told[j] = Delta(transitions[mark[i] + j - 1], transitions[mark[i] + j])
    BY <1>1, <1>2 DEF Marked
  <2> QED BY <1>3, <1>4, <2>1, <2>2
<1>7. l \in Nat /\ m \in Nat \ {0} /\ m + l + 1 <= Len(transitions) /\ Len(transitions) \in Nat
  BY <1>1, <1>4, <1>5, <1>6
<1>8. PICK vals : vals = SubSeq(transitions, m, m + l)
  OBVIOUS
<1>9. /\ vals \in Seq(Values) /\ vals # <<>> /\ Len(vals) = l + 1
      /\ \A j \in 1..l + 1 : vals[j] = transitions[m + j - 1]
      /\ Last(SubSeq(transitions, 1, m)) = transitions[m]
      /\ SubSeq(transitions, 1, m) \o Tail(vals) \o <<transitions[m + l + 1]>>
           = SubSeq(transitions, 1, m + l + 1)
  <2>1. Grows(Values, transitions, m, l)
    BY <1>1, <1>7, PrefixGrows
  <2> QED BY <1>8, <2>1, Zenon DEF Grows
<1>10. ASSUME NEW j \in 1..l PROVE Apply(vals[j], told[j]) = vals[j + 1]
  <2>1. j \in 1..l + 1 /\ j + 1 \in 1..l + 1 /\ m + (j + 1) - 1 = m + j
    BY <1>7
  <2>2. vals[j] = transitions[m + j - 1] /\ vals[j + 1] = transitions[m + j]
    BY <1>9, <2>1
  <2>3. transitions[m + j - 1] \in Values /\ transitions[m + j] \in Values
    BY <1>1, <1>7, <2>1
  <2> QED BY <1>6, <2>2, <2>3, DeltaIsLossless
<1>11. Chain(transitions[m], told) = vals
  <2>1. vals[1] = transitions[m]
    <3>1. 1 \in 1..l + 1 /\ m + 1 - 1 = m
      BY <1>7
    <3> QED BY <1>9, <3>1
  <2>2. Len(told) = Len(vals) - 1
    BY <1>4, <1>7, <1>9
  <2>3. Chain(vals[1], told) = vals
    BY <1>4, <1>9, <1>10, <2>2, ChainIs
  <2> QED BY <2>1, <2>3
<1>12. Apply(transitions[m], Delta(wakes[i], wakes[i + 1])) = transitions[m + l + 1]
  BY <1>5, <1>6, DeltaIsLossless
<1> QED BY <1>3, <1>5, <1>6, <1>9, <1>11, <1>12 DEF Read

\* The messages tell every native step of the finished decisions.
LEMMA EverythingIs ==
  ASSUME ConversationInv
  PROVE  Everything = SubSeq(transitions, 1, Len(transitions) - Len(microsteps))
<1>1. PICK mark : Marked(mark)
  BY DEF ConversationInv
<1>2. PICK n \in Nat : n = Decisions /\ Len(mark) = n + 1
  <2>1. Len(mark) = Len(wakes) /\ Len(wakes) \in Nat
    BY <1>1 DEF Marked, ConversationInv, ConversationTypes
  <2> QED BY <2>1, DecisionsIs
<1>3. PICK first : first = <<messages[1].observation>>
  OBVIOUS
<1> DEFINE IsRead(k) == k = [i \in 0..n |-> IF i = 0 THEN first ELSE Read(k[i - 1], i)]
           h == [i \in 0..n |-> SubSeq(transitions, 1, mark[i + 1])]
           k == CHOOSE q : IsRead(q)
<1>4. first = SubSeq(transitions, 1, mark[1])
  <2>1. /\ transitions \in Seq(Values) /\ mark[1] = 1 /\ mark[1] \in 1..Len(transitions)
        /\ wakes[1] = transitions[1] /\ messages[1].observation = wakes[1]
    <3>1. 1 \in 1..Len(mark)
      BY <1>2
    <3>2. mark[1] = 1 /\ mark[1] \in 1..Len(transitions) /\ wakes[1] = transitions[mark[1]]
      BY <1>1, <3>1 DEF Marked
    <3>3. transitions \in Seq(Values) /\ messages[1].observation = wakes[1]
      BY DEF ConversationInv, ConversationTypes, Paired, Opening
    <3> QED BY <3>2, <3>3
  <2>2. SubSeq(transitions, 1, 1) = <<transitions[1]>>
    <3>1. 1 \in 1..Len(transitions) /\ 1 - 1 = 0
      BY <2>1
    <3>2. SubSeq(transitions, 1, 1) = SubSeq(transitions, 1, 1 - 1) \o <<transitions[1]>>
      BY <2>1, <3>1, SubSeqRecursiveSecond
    <3>3. SubSeq(transitions, 1, 1 - 1) = <<>>
      BY <3>1, SubSeqEmpty
    <3>4. <<transitions[1]>> \in Seq(Values)
      BY <2>1, <3>1
    <3> QED BY <3>2, <3>3, <3>4, ConcatEmptySeq
  <2> QED BY <1>3, <2>1, <2>2
<1>5. \A i \in 1..n : Read(SubSeq(transitions, 1, mark[i]), i) = SubSeq(transitions, 1, mark[i + 1])
  BY <1>1, <1>2, ReadIs
<1>6. IsRead(h)
  <2>1. ASSUME NEW i \in 0..n PROVE h[i] = IF i = 0 THEN first ELSE Read(h[i - 1], i)
    <3>1. CASE i = 0
      <4>1. i + 1 = 1
        BY <3>1
      <4>2. h[i] = SubSeq(transitions, 1, mark[i + 1])
        OBVIOUS
      <4> HIDE DEF h
      <4> QED BY <1>4, <3>1, <4>1, <4>2
    <3>2. CASE i # 0
      <4>1. i \in 1..n /\ i - 1 \in 0..n /\ (i - 1) + 1 = i
        BY <3>2
      <4>2. h[i - 1] = SubSeq(transitions, 1, mark[i])
        BY <4>1
      <4>3. h[i] = SubSeq(transitions, 1, mark[i + 1])
        OBVIOUS
      <4> HIDE DEF h
      <4> QED BY <1>5, <3>2, <4>1, <4>2, <4>3
    <3> QED BY <3>1, <3>2
  <2>2. h = [i \in 0..n |-> h[i]]
    OBVIOUS
  <2> HIDE DEF h
  <2> QED BY <2>1, <2>2
<1>7. IsRead(k)
  <2> HIDE DEF h, IsRead
  <2> QED BY <1>6
<1>8. \A i \in 0..n : k[i] = IF i = 0 THEN first ELSE Read(k[i - 1], i)
  <2> HIDE DEF k
  <2> QED BY <1>7
<1>9. Everything = k[n]
  BY <1>2, <1>3 DEF Everything, Read
<1> DEFINE S == {i \in Nat : i <= n => k[i] = SubSeq(transitions, 1, mark[i + 1])}
<1>10. 0 \in S
  <2> HIDE DEF k
  <2>1. 0 \in 0..n /\ 0 + 1 = 1
    OBVIOUS
  <2>2. k[0] = first
    BY <1>8, <2>1
  <2> QED BY <1>4, <2>1, <2>2
<1>11. ASSUME NEW i \in Nat, i \in S PROVE i + 1 \in S
  <2> HIDE DEF k
  <2> SUFFICES ASSUME i + 1 <= n PROVE k[i + 1] = SubSeq(transitions, 1, mark[(i + 1) + 1])
    OBVIOUS
  <2>1. i + 1 \in 0..n /\ i + 1 # 0 /\ (i + 1) - 1 = i /\ i <= n /\ i + 1 \in 1..n
    OBVIOUS
  <2>2. k[i] = SubSeq(transitions, 1, mark[i + 1])
    BY <1>11, <2>1
  <2>3. k[i + 1] = Read(k[i], i + 1)
    BY <1>8, <2>1
  <2> QED BY <1>5, <2>1, <2>2, <2>3
<1>12. Nat \subseteq S
  <2> HIDE DEF S
  <2> QED BY <1>10, <1>11, NatIsInductive
<1>13. k[n] = SubSeq(transitions, 1, mark[n + 1])
  <2>1. n \in S /\ n <= n
    <3> HIDE DEF S
    <3> QED BY <1>12
  <2> HIDE DEF k
  <2> QED BY <2>1
<1>14. mark[n + 1] = Len(transitions) - Len(microsteps)
  BY <1>1, <1>2 DEF Marked
<1> HIDE DEF k
<1> QED BY <1>9, <1>13, <1>14

(***************************************************************************)
(* The properties of the conversation.                                     *)
(***************************************************************************)
\* "initial_full_plus_lossless_deltas": whoever has only the messages knows every
\* observation of every finished decision, after errors too, and validate finds
\* what the session has woken to.
THEOREM MessagesReconstruct == ConversationSpec => []HistoryReconstructs
<1>1. ConversationInv => HistoryReconstructs
  BY ReconstructedIs, EverythingIs DEF HistoryReconstructs
<1> QED BY <1>1, ConversationInvariant, PTL

\* A message repeated in the history is refused, unless it says that nothing has
\* changed.
THEOREM MessagesAreRefusedTwice == ConversationSpec => []RepeatedIsRefused
<1>1. ConversationInv => RepeatedIsRefused
  <2> SUFFICES ASSUME ConversationInv, NEW i \in 1..Decisions, Wakings[i].delta # None
               PROVE  Apply(Reconstructed[i + 1], Wakings[i].delta) = Rejected
    BY DEF RepeatedIsRefused
  <2>1. i \in 1..(Len(wakes) - 1)
    BY DecisionsIs
  <2>2. /\ wakes[i] \in Values /\ wakes[i + 1] \in Values
        /\ Wakings[i].delta = Delta(wakes[i], wakes[i + 1])
    BY <2>1, TellsIs DEF Wakings
  <2>3. wakes[i] # wakes[i + 1]
    BY <2>2, DeltaSays
  <2> QED BY <2>2, <2>3, ReconstructedIs, DeltaIsRefusedTwice
<1> QED BY <1>1, ConversationInvariant, PTL

\* A receipt is never refused for its delta: applied on the spot, the delta leads
\* to the observation that it was made from.
THEOREM ReceiptsAreAccepted ==
  ConversationSpec => [](\A o \in Observations : Apply(previous, Delta(previous, o)) = o)
<1>1. ConversationInv => \A o \in Observations : Apply(previous, Delta(previous, o)) = o
  <2>1. ConversationInv => previous \in Values
    BY DEF ConversationInv, ConversationTypes, Latest
  <2> QED BY <2>1, ObservationIs, DeltaIsLossless
<1> QED BY <1>1, ConversationInvariant, PTL
=============================================================================
