-------------------------- MODULE SkillScript_proofs --------------------------
(***************************************************************************)
(* Proofs, for any scripts, steps, outputs and depths: that a run fails    *)
(* with its first failure, that it records the steps it began and each of  *)
(* them once, that a tool reads what was stored last, and that none is     *)
(* called after an abort.  They rest on the shape of the stack (StackInv): *)
(* what is under way is what the step around it began last.                *)
(***************************************************************************)
EXTENDS SkillScript, TLAPS

-------------------------------------------------------------------------------
(* Paths                                                                     *)

LEMMA PrefixMeans ==
    ASSUME NEW X, NEW s \in Seq(X), NEW t \in Seq(X)
    PROVE  IsPrefix(s, t) <=> Len(s) <= Len(t) /\ \A i \in 1 .. Len(s) : s[i] = t[i]
<1>1. ASSUME Len(s) <= Len(t)
      PROVE  /\ SubSeq(s, 1, Len(s)) = s
             /\ SubSeq(t, 1, Len(s)) \in Seq(X) /\ Len(SubSeq(t, 1, Len(s))) = Len(s)
             /\ \A i \in 1 .. Len(s) : SubSeq(t, 1, Len(s))[i] = t[i]
  BY <1>1
<1>2. ASSUME NEW u \in Seq(X), Len(u) = Len(s) PROVE u = s <=> \A i \in 1 .. Len(s) : u[i] = s[i]
  BY <1>2
<1> QED BY <1>1, <1>2 DEF IsPrefix

LEMMA PrefixOrder ==
    ASSUME NEW X, NEW s \in Seq(X), NEW t \in Seq(X), NEW u \in Seq(X)
    PROVE  /\ IsPrefix(s, s)
           /\ IsPrefix(s, t) /\ IsPrefix(t, u) => IsPrefix(s, u)
           /\ IsPrefix(s, u) /\ IsPrefix(t, u) => IsPrefix(s, t) \/ IsPrefix(t, s)
           /\ IsPrefix(s, u) /\ IsPrefix(t, u) /\ Len(s) = Len(t) => s = t
           /\ IsPrefix(s, t) => Len(s) <= Len(t)
<1>1. Len(s) \in Nat /\ Len(t) \in Nat /\ Len(u) \in Nat OBVIOUS
<1>2. IsPrefix(s, s) BY PrefixMeans
<1>3. IsPrefix(s, t) /\ IsPrefix(t, u) => IsPrefix(s, u) BY PrefixMeans
<1>4. IsPrefix(s, u) /\ IsPrefix(t, u) => IsPrefix(s, t) \/ IsPrefix(t, s)
  <2> SUFFICES ASSUME IsPrefix(s, u), IsPrefix(t, u) PROVE IsPrefix(s, t) \/ IsPrefix(t, s)
    OBVIOUS
  <2>1. /\ \A i \in 1 .. Len(s) : s[i] = u[i]
        /\ \A i \in 1 .. Len(t) : t[i] = u[i]
    BY PrefixMeans
  <2>2. CASE Len(s) <= Len(t) BY <2>1, <2>2, <1>1, PrefixMeans
  <2>3. CASE Len(t) <= Len(s) BY <2>1, <2>3, <1>1, PrefixMeans
  <2> QED BY <1>1, <2>2, <2>3
<1>5. IsPrefix(s, u) /\ IsPrefix(t, u) /\ Len(s) = Len(t) => s = t
  <2> SUFFICES ASSUME IsPrefix(s, u), IsPrefix(t, u), Len(s) = Len(t) PROVE s = t
    OBVIOUS
  <2>1. \A i \in 1 .. Len(s) : s[i] = t[i] BY PrefixMeans
  <2> QED BY <2>1
<1>6. IsPrefix(s, t) => Len(s) <= Len(t) BY PrefixMeans
<1> QED BY <1>2, <1>3, <1>4, <1>5, <1>6


PathSet == Seq(Ids \cup Nat)
Foreach(s, x) == x # Root /\ s.kind[x] = "foreach"

\* The path of substep m of step x in its iteration j, if the path of x is p.
Child(s, x, p, j, m) ==
    p \o (IF Foreach(s, x) THEN <<j>> ELSE <<>>) \o <<s.id[s.body[x][m]]>>

LEMMA ChildPaths ==
    ASSUME NEW s \in Script, NEW x \in Nodes, NEW p \in PathSet,
           NEW j \in Nat, NEW m \in DOMAIN s.body[x]
    PROVE  /\ Child(s, x, p, j, m) \in PathSet
           /\ IsPrefix(p, Child(s, x, p, j, m))
           /\ Len(Child(s, x, p, j, m)) = Len(p) + (IF Foreach(s, x) THEN 2 ELSE 1)
           /\ Child(s, x, p, j, m)[Len(Child(s, x, p, j, m))] = s.id[s.body[x][m]]
           /\ Foreach(s, x) => Child(s, x, p, j, m)[Len(p) + 1] = j
<1> PICK y : y = s.id[s.body[x][m]]
  OBVIOUS
<1>1. s.body[x] \in Seq(Steps) BY DEF Script
<1>2. y \in Ids
  <2>1. s.body[x][m] \in Steps BY <1>1
  <2> QED BY <2>1 DEF Script
<1> DEFINE Q == Ids \cup Nat
<1>3. p \in Seq(Q) /\ y \in Q /\ j \in Q BY <1>2 DEF PathSet
<1>4. Len(p) \in Nat BY <1>3
<1>5. CASE Foreach(s, x)
  <2> DEFINE c == p \o <<j>> \o <<y>>
  <2>1. Child(s, x, p, j, m) = c BY <1>5 DEF Child
  <2> HIDE DEF Q
  <2>2. /\ c \in Seq(Q) /\ Len(c) = Len(p) + 2 /\ c[Len(p) + 1] = j /\ c[Len(p) + 2] = y
        /\ \A i \in 1 .. Len(p) : c[i] = p[i]
    BY <1>3
  <2> HIDE DEF c
  <2>3. IsPrefix(p, c) BY <1>3, <1>4, <2>2, PrefixMeans
  <2> QED BY <1>5, <2>1, <2>2, <2>3 DEF PathSet, Q
<1>6. CASE ~ Foreach(s, x)
  <2> DEFINE c == p \o <<y>>
  <2>1. Child(s, x, p, j, m) = c
    <3>1. Child(s, x, p, j, m) = p \o <<>> \o <<y>> BY <1>6 DEF Child
    <3>2. p \o <<>> = p BY <1>3
    <3> QED BY <3>1, <3>2
  <2> HIDE DEF Q
  <2>2. /\ c \in Seq(Q) /\ Len(c) = Len(p) + 1 /\ c[Len(p) + 1] = y
        /\ \A i \in 1 .. Len(p) : c[i] = p[i]
    BY <1>3
  <2> HIDE DEF c
  <2>3. IsPrefix(p, c) BY <1>3, <1>4, <2>2, PrefixMeans
  <2> QED BY <1>6, <2>1, <2>2, <2>3 DEF PathSet, Q
<1> QED BY <1>5, <1>6

\* The steps of a step of the script are steps of the script.
LEMMA InScriptClosed ==
    ASSUME NEW s \in Script, NEW x \in InScript(s) \cup {Root}
    PROVE  ToSet(s.body[x]) \subseteq InScript(s)
<1> SUFFICES ASSUME NEW y \in ToSet(s.body[x]) PROVE y \in InScript(s)
  OBVIOUS
<1>1. x \in Nodes BY DEF InScript, Nodes
<1>2. s.body[x] \in Seq(Steps) BY <1>1 DEF Script
<1>3. y \in Steps BY <1>2 DEF ToSet
<1>4. ASSUME NEW S \in SUBSET Steps, \A n \in {Root} \cup S : ToSet(s.body[n]) \subseteq S
      PROVE  y \in S
  <2>1. x \in {Root} \cup S BY <1>4 DEF InScript
  <2> QED BY <2>1, <1>4
<1> QED BY <1>3, <1>4 DEF InScript

LEMMA BodySteps ==
    ASSUME NEW s \in Script, NEW x \in InScript(s) \cup {Root}, NEW m \in DOMAIN s.body[x]
    PROVE  s.body[x][m] \in InScript(s)
<1>1. s.body[x][m] \in ToSet(s.body[x]) BY DEF ToSet
<1> QED BY <1>1, InScriptClosed

\* A path that begins with those of two substeps has the iteration and the id of each.
LEMMA PathsDiffer ==
    ASSUME NEW s \in Script, NEW x \in Nodes, NEW p \in PathSet, NEW q \in PathSet
    PROVE  \A i, j \in Nat : \A m, n \in DOMAIN s.body[x] :
             IsPrefix(Child(s, x, p, i, m), q) /\ IsPrefix(Child(s, x, p, j, n), q)
               => /\ Foreach(s, x) => i = j
                  /\ s.id[s.body[x][m]] = s.id[s.body[x][n]]
<1> DEFINE d == IF Foreach(s, x) THEN 2 ELSE 1
           PathOf(c, j, m) ==
             /\ c \in PathSet /\ Len(c) = Len(p) + d
             /\ c[Len(c)] = s.id[s.body[x][m]]
             /\ Foreach(s, x) => c[Len(p) + 1] = j
<1>1. \A j \in Nat : \A m \in DOMAIN s.body[x] : PathOf(Child(s, x, p, j, m), j, m)
  BY ChildPaths
<1>2. ASSUME NEW i \in Nat, NEW j \in Nat, NEW m \in DOMAIN s.body[x], NEW n \in DOMAIN s.body[x],
             NEW c, NEW e, PathOf(c, i, m), PathOf(e, j, n), IsPrefix(c, q), IsPrefix(e, q)
      PROVE  (Foreach(s, x) => i = j) /\ s.id[s.body[x][m]] = s.id[s.body[x][n]]
  <2>1. c = e BY <1>2, PrefixOrder DEF PathSet
  <2> QED BY <1>2, <2>1
<1> HIDE DEF PathOf
<1> QED BY <1>1, <1>2

\* Two steps of a step, in two iterations, do not have the same path.
LEMMA ChildrenDiffer ==
    ASSUME NEW s \in Script, IsTree(s), Valid(s), NEW x \in InScript(s) \cup {Root},
           NEW p \in PathSet, NEW i \in Nat, NEW j \in Nat, Foreach(s, x) \/ i = j,
           NEW m \in DOMAIN s.body[x], NEW n \in DOMAIN s.body[x],
           NEW q \in PathSet,
           IsPrefix(Child(s, x, p, i, m), q), IsPrefix(Child(s, x, p, j, n), q)
    PROVE  i = j /\ m = n
<1>1. x \in Nodes BY DEF InScript, Nodes
<1>2. /\ Foreach(s, x) => i = j
      /\ s.id[s.body[x][m]] = s.id[s.body[x][n]]
  BY <1>1, PathsDiffer
<1>3. s.body[x][m] \in InScript(s) /\ s.body[x][n] \in InScript(s) BY BodySteps
<1>4. s.body[x][m] = s.body[x][n] BY <1>2, <1>3 DEF Valid
<1> QED BY <1>1, <1>2, <1>4 DEF IsTree

-------------------------------------------------------------------------------
(* The steps under way                                                       *)

Frames ==
    [step : Nodes, path : PathSet, next : Nat \ {0}, item : Nat \ {0}, items : Nat,
     loop : BOOLEAN, copy : [Outputs -> Nat]]

\* What has begun last in the steps under way k < n is what n is part of.
Leads(s, t, k, n) ==
    /\ t[k].next - 1 \in DOMAIN s.body[t[k].step]
    /\ IsPrefix(Child(s, t[k].step, t[k].path, t[k].item, t[k].next - 1), t[n].path)

\* The steps under way are the script and steps of it, each part of what the one
\* before it has begun last.
Shape(s, t) ==
    /\ t \in Seq(Frames) /\ Len(t) \in Nat \ {0}
    /\ t[1].step = Root
    /\ \A k \in 2 .. Len(t) : t[k].step \in InScript(s)
    /\ \A k \in 2 .. Len(t) - 1 : s.kind[t[k].step] # "tool"
    /\ \A k \in 1 .. Len(t) :
          ~ Foreach(s, t[k].step) => t[k].item = 1 /\ t[k].items <= 1
    /\ \A n \in 1 .. Len(t) : \A k \in 1 .. n - 1 : Leads(s, t, k, n)

\* What the engine does to the steps under way: f is the last of them.
LastOf(t) == t[Len(t)]

Below(t, u) == \A k \in 1 .. Len(t) - 1 : u[k] = t[k]

\* f has become g, and its next substep has begun.
Pushed(s, t, u) ==
    /\ u \in Seq(Frames) /\ Len(u) = Len(t) + 1
    /\ Below(t, u)
    /\ LET f == t[Len(t)]
           g == u[Len(t)]
           h == u[Len(t) + 1]
       IN /\ f.next \in DOMAIN s.body[f.step]
          /\ g.step = f.step /\ g.path = f.path /\ g.next = f.next + 1 /\ g.item = f.item
          /\ g.items = f.items /\ g.loop = f.loop /\ g.copy = f.copy
          /\ h.step = s.body[f.step][f.next]
          /\ h.path = Child(s, f.step, f.path, f.item, f.next)
          /\ h.item = 1 /\ h.items = 1 /\ h.next = 1 /\ h.loop = f.loop /\ h.copy = f.copy

\* f has begun its next iteration.
Turned(s, t, u, c) ==
    /\ u \in Seq(Frames) /\ Len(u) = Len(t)
    /\ Below(t, u)
    /\ LET f == t[Len(t)]
           g == u[Len(t)]
       IN /\ f.item < f.items
          /\ g.step = f.step /\ g.path = f.path /\ g.next = 1 /\ g.item = f.item + 1
          /\ g.items = f.items /\ g.loop = f.loop /\ g.copy = c

\* The items of the loop f are known.
Looped(s, t, u, c) ==
    /\ u \in Seq(Frames) /\ Len(u) = Len(t)
    /\ Below(t, u)
    /\ LET f == t[Len(t)]
           g == u[Len(t)]
       IN /\ Foreach(s, f.step)
          /\ g.step = f.step /\ g.path = f.path /\ g.next = f.next /\ g.item = f.item
          /\ g.loop /\ g.copy = c

\* f is over.
Popped(t, u) == u \in Seq(Frames) /\ Len(u) = Len(t) - 1 /\ Below(t, u)

Replaced(t, g) == [t EXCEPT ![Len(t)] = g]

LEMMA TopReplaced ==
    ASSUME NEW t \in Seq(Frames), Len(t) \in Nat \ {0}, NEW g \in Frames
    PROVE  /\ Replaced(t, g) \in Seq(Frames) /\ Len(Replaced(t, g)) = Len(t)
           /\ Replaced(t, g)[Len(t)] = g /\ Below(t, Replaced(t, g))
<1> DEFINE u == [t EXCEPT ![Len(t)] = g]
<1>1. u \in Seq(Frames) /\ Len(u) = Len(t) OBVIOUS
<1>2. u[Len(t)] = g OBVIOUS
<1>3. \A k \in 1 .. Len(t) - 1 : u[k] = t[k] OBVIOUS
<1> QED BY <1>1, <1>2, <1>3 DEF Below, Replaced

LEMMA LastPopped ==
    ASSUME NEW t \in Seq(Frames), Len(t) > 1
    PROVE  Popped(t, Front(t))
<1>1. Front(t) = SubSeq(t, 1, Len(t) - 1) BY DEF Front
<1>2. SubSeq(t, 1, Len(t) - 1) \in Seq(Frames) /\ Len(SubSeq(t, 1, Len(t) - 1)) = Len(t) - 1
  OBVIOUS
<1>3. \A k \in 1 .. Len(t) - 1 : SubSeq(t, 1, Len(t) - 1)[k] = t[k] OBVIOUS
<1> QED BY <1>1, <1>2, <1>3 DEF Popped, Below

LEMMA PushKeeps ==
    ASSUME NEW s \in Script, NEW t, Shape(s, t), NEW u, Pushed(s, t, u),
           LastOf(t).step = Root \/ s.kind[LastOf(t).step] # "tool"
    PROVE  Shape(s, u)
<1> PICK d \in Nat \ {0} : d = Len(t)
  BY DEF Shape
<1> PICK f \in Frames : f = t[d]
  BY DEF Shape
<1> PICK g \in Frames : g = u[d]
  BY DEF Pushed
<1> PICK h \in Frames : h = u[d + 1]
  BY DEF Pushed
<1>1. /\ u \in Seq(Frames) /\ Len(u) = d + 1 /\ \A k \in 1 .. d - 1 : u[k] = t[k]
      /\ f.next \in DOMAIN s.body[f.step]
      /\ g.step = f.step /\ g.path = f.path /\ g.next = f.next + 1 /\ g.item = f.item
      /\ g.items = f.items
      /\ h.step = s.body[f.step][f.next]
      /\ h.path = Child(s, f.step, f.path, f.item, f.next)
      /\ h.item = 1 /\ h.items = 1
  BY DEF Pushed, Below
<1>2. f.step \in Nodes /\ f.path \in PathSet /\ f.item \in Nat /\ f.next \in Nat
  BY DEF Frames
<1>3. h.path \in PathSet /\ IsPrefix(f.path, h.path) /\ IsPrefix(h.path, h.path)
  <2>1. /\ Child(s, f.step, f.path, f.item, f.next) \in PathSet
        /\ IsPrefix(f.path, Child(s, f.step, f.path, f.item, f.next))
    BY <1>1, <1>2, ChildPaths
  <2> QED BY <1>1, <2>1, PrefixOrder DEF PathSet
<1>4. f.step \in InScript(s) \cup {Root} BY DEF Shape
<1>5. h.step \in InScript(s) BY <1>1, <1>4, BodySteps
<1>6. u[1].step = Root
  <2>1. t[1].step = Root BY DEF Shape
  <2>2. CASE d = 1 BY <2>1, <2>2, <1>1
  <2>3. CASE d > 1 BY <2>1, <2>3, <1>1
  <2> QED BY <2>2, <2>3
<1>7. \A k \in 2 .. d + 1 : u[k].step \in InScript(s)
  <2> SUFFICES ASSUME NEW k \in 2 .. d + 1 PROVE u[k].step \in InScript(s)
    OBVIOUS
  <2>1. k <= d => t[k].step \in InScript(s) BY DEF Shape
  <2>2. k < d => u[k] = t[k] BY <1>1
  <2>3. k < d \/ k = d \/ k = d + 1 OBVIOUS
  <2> QED BY <1>1, <1>5, <2>1, <2>2, <2>3
<1>8. \A k \in 2 .. d : s.kind[u[k].step] # "tool"
  <2> SUFFICES ASSUME NEW k \in 2 .. d PROVE s.kind[u[k].step] # "tool"
    OBVIOUS
  <2>1. k < d => s.kind[t[k].step] # "tool" BY DEF Shape
  <2>2. k < d => u[k] = t[k] BY <1>1
  <2>3. k = d => s.kind[f.step] # "tool"
    <3>1. k = d => f.step \in InScript(s) BY DEF Shape
    <3>2. Root \notin InScript(s) BY SkillScriptAssumption DEF InScript
    <3> QED BY <3>1, <3>2 DEF LastOf
  <2> QED BY <1>1, <2>1, <2>2, <2>3
<1>9. \A k \in 1 .. d + 1 : ~ Foreach(s, u[k].step) => u[k].item = 1 /\ u[k].items <= 1
  <2> SUFFICES ASSUME NEW k \in 1 .. d + 1, ~ Foreach(s, u[k].step)
               PROVE  u[k].item = 1 /\ u[k].items <= 1
    OBVIOUS
  <2>1. k <= d /\ ~ Foreach(s, t[k].step) => t[k].item = 1 /\ t[k].items <= 1 BY DEF Shape
  <2>2. k < d => u[k] = t[k] BY <1>1
  <2>3. k < d \/ k = d \/ k = d + 1 OBVIOUS
  <2> QED BY <1>1, <2>1, <2>2, <2>3
<1>10. \A n \in 1 .. d + 1 : \A k \in 1 .. n - 1 : Leads(s, u, k, n)
  <2> SUFFICES ASSUME NEW n \in 1 .. d + 1, NEW k \in 1 .. n - 1 PROVE Leads(s, u, k, n)
    OBVIOUS
  <2>1. n <= d => Leads(s, t, k, n) BY DEF Shape
  <2>2. k < d => u[k] = t[k] BY <1>1
  <2>3. CASE n <= d
    <3>1. k < d /\ u[k] = t[k] BY <2>2, <2>3
    <3>2. u[n].path = t[n].path
      <4>1. n < d => u[n] = t[n] BY <1>1
      <4> QED BY <2>3, <4>1, <1>1
    <3> QED BY <2>1, <2>3, <3>1, <3>2 DEF Leads
  <2>4. CASE n = d + 1 /\ k = d
    <3>1. g.next - 1 = f.next BY <1>1, <1>2
    <3> QED BY <2>4, <3>1, <1>1, <1>3 DEF Leads
  <2>5. CASE n = d + 1 /\ k < d
    <3>1. Leads(s, t, k, d) BY <2>5 DEF Shape
    <3>2. u[k] = t[k] BY <2>2, <2>5
    <3> PICK e \in Frames : e = t[k]
      BY <2>5 DEF Shape
    <3>3. /\ e.next - 1 \in DOMAIN s.body[e.step]
          /\ IsPrefix(Child(s, e.step, e.path, e.item, e.next - 1), f.path)
      BY <3>1 DEF Leads
    <3>4. e.step \in Nodes /\ e.path \in PathSet /\ e.item \in Nat BY DEF Frames
    <3>5. Child(s, e.step, e.path, e.item, e.next - 1) \in PathSet
      BY <3>3, <3>4, ChildPaths
    <3>6. IsPrefix(Child(s, e.step, e.path, e.item, e.next - 1), h.path)
      BY <1>2, <1>3, <3>3, <3>5, PrefixOrder DEF PathSet
    <3> QED BY <2>5, <3>2, <3>3, <3>6 DEF Leads
  <2> QED BY <2>3, <2>4, <2>5
<1> QED BY <1>1, <1>6, <1>7, <1>8, <1>9, <1>10 DEF Shape

LEMMA TopKeeps ==
    ASSUME NEW s \in Script, NEW t, Shape(s, t), NEW u, NEW c,
           Turned(s, t, u, c) \/ Looped(s, t, u, c)
    PROVE  Shape(s, u)
<1> PICK d \in Nat \ {0} : d = Len(t)
  BY DEF Shape
<1> PICK f \in Frames : f = t[d]
  BY DEF Shape
<1>1. /\ u \in Seq(Frames) /\ Len(u) = d /\ \A k \in 1 .. d - 1 : u[k] = t[k]
      /\ u[d].step = f.step /\ u[d].path = f.path
  BY DEF Turned, Looped, Below
<1>2. Foreach(s, f.step)
  <2>1. CASE Turned(s, t, u, c)
    <3>1. f.item < f.items /\ f.item \in Nat /\ f.items \in Nat BY <2>1 DEF Turned, Frames
    <3>2. ~ Foreach(s, f.step) => f.item = 1 /\ f.items <= 1 BY DEF Shape
    <3> QED BY <3>1, <3>2
  <2> QED BY <2>1 DEF Looped
<1>3. u[1].step = Root
  <2>1. t[1].step = Root BY DEF Shape
  <2>2. CASE d = 1 BY <2>1, <2>2, <1>1
  <2>3. CASE d > 1 BY <2>1, <2>3, <1>1
  <2> QED BY <2>2, <2>3
<1>4. \A k \in 2 .. d : u[k].step \in InScript(s)
  <2> SUFFICES ASSUME NEW k \in 2 .. d PROVE u[k].step \in InScript(s)
    OBVIOUS
  <2>1. t[k].step \in InScript(s) BY DEF Shape
  <2>2. k < d => u[k] = t[k] BY <1>1
  <2> QED BY <1>1, <2>1, <2>2
<1>5. \A k \in 2 .. d - 1 : s.kind[u[k].step] # "tool"
  <2>1. \A k \in 2 .. d - 1 : s.kind[t[k].step] # "tool" BY DEF Shape
  <2> QED BY <2>1, <1>1
<1>6. \A k \in 1 .. d : ~ Foreach(s, u[k].step) => u[k].item = 1 /\ u[k].items <= 1
  <2> SUFFICES ASSUME NEW k \in 1 .. d, ~ Foreach(s, u[k].step)
               PROVE  u[k].item = 1 /\ u[k].items <= 1
    OBVIOUS
  <2>1. ~ Foreach(s, t[k].step) => t[k].item = 1 /\ t[k].items <= 1 BY DEF Shape
  <2>2. k < d => u[k] = t[k] BY <1>1
  <2> QED BY <1>1, <1>2, <2>1, <2>2
<1>7. \A n \in 1 .. d : \A k \in 1 .. n - 1 : Leads(s, u, k, n)
  <2> SUFFICES ASSUME NEW n \in 1 .. d, NEW k \in 1 .. n - 1 PROVE Leads(s, u, k, n)
    OBVIOUS
  <2>1. Leads(s, t, k, n) BY DEF Shape
  <2>2. u[k] = t[k] BY <1>1
  <2>3. u[n].path = t[n].path
    <3>1. n < d => u[n] = t[n] BY <1>1
    <3> QED BY <3>1, <1>1
  <2> QED BY <2>1, <2>2, <2>3 DEF Leads
<1> QED BY <1>1, <1>3, <1>4, <1>5, <1>6, <1>7 DEF Shape

LEMMA PopKeeps ==
    ASSUME NEW s \in Script, NEW t, Shape(s, t), Len(t) > 1, NEW u, Popped(t, u)
    PROVE  /\ Shape(s, u)
           /\ LastOf(u).step = Root \/ s.kind[LastOf(u).step] # "tool"
<1> PICK d \in Nat \ {0} : d = Len(t)
  BY DEF Shape
<1>1. /\ u \in Seq(Frames) /\ Len(u) = d - 1 /\ \A k \in 1 .. d - 1 : u[k] = t[k]
      /\ d - 1 \in Nat \ {0}
  BY DEF Popped, Below
<1>2. u[1].step = Root BY <1>1 DEF Shape
<1>3. \A k \in 2 .. d - 1 : u[k].step \in InScript(s) BY <1>1 DEF Shape
<1>4. \A k \in 2 .. d - 1 : s.kind[u[k].step] # "tool" BY <1>1 DEF Shape
<1>5. \A k \in 1 .. d - 1 : ~ Foreach(s, u[k].step) => u[k].item = 1 /\ u[k].items <= 1
  BY <1>1 DEF Shape
<1>6. \A n \in 1 .. d - 1 : \A k \in 1 .. n - 1 : Leads(s, u, k, n)
  <2> SUFFICES ASSUME NEW n \in 1 .. d - 1, NEW k \in 1 .. n - 1 PROVE Leads(s, u, k, n)
    OBVIOUS
  <2>1. Leads(s, t, k, n) BY DEF Shape
  <2>2. u[k] = t[k] /\ u[n] = t[n] BY <1>1
  <2> QED BY <2>1, <2>2 DEF Leads
<1>7. LastOf(u).step = Root \/ s.kind[LastOf(u).step] # "tool"
  <2>1. CASE d = 2 BY <1>1, <1>2, <2>1 DEF LastOf
  <2>2. CASE d > 2 BY <1>1, <1>4, <2>2 DEF LastOf
  <2> QED BY <1>1, <2>1, <2>2
<1> QED BY <1>1, <1>2, <1>3, <1>4, <1>5, <1>6, <1>7 DEF Shape

-------------------------------------------------------------------------------
(* What a step of the engine does                                            *)

Inner == {"step.started", "delay", "tool", "step.finished", "step.failed"}
Outer == {"new", "execution.started", "execution.finished"} \cup Over
Statuses == {"completed", "skipped", "failed"}

\* The engine waits for something of a step, or for something of the whole run.
StackInv ==
    /\ script \in Scripts /\ Shape(script, stack)
    /\ values \in [Outputs -> Nat] /\ calls \in Nat /\ refused \in Nat
    /\ records \in Seq([path : PathSet, status : Statuses])
    /\ at \in Inner \cup Outer \cup {"next"}
    /\ at \in Inner => Len(stack) > 1
    /\ at \in Outer => Len(stack) = 1
    /\ at \notin {"new", "rejected"} => Valid(script)
    /\ at = "next" => Step = Root \/ script.kind[Step] # "tool"
    /\ result # "none" => at \in {"execution.finished"} \cup Over

\* Nothing begins and nothing is recorded.
Stays ==
    /\ UNCHANGED <<stack, records, started, result>>
    /\ \/ at' = at
       \/ at = "new" /\ at' = "execution.started" /\ Valid(script)
       \/ at \in {"new", "execution.started"} /\ at' = "rejected"
       \/ at = "execution.finished" /\ result = "failed" /\ at' = "rejected"
       \/ at = "execution.finished" /\ at' = "returned"
       \/ at = "execution.started" /\ at' = "next"
       \/ at = "step.started" /\ at' = "next" /\ script.kind[Step] = "group"
       \/ at = "step.started" /\ at' \in {"delay", "tool"}
       \/ at = "delay" /\ at' = "tool"

Begins ==
    /\ at = "next" /\ at' = "step.started" /\ UNCHANGED <<records, result>>
    /\ Pushed(script, stack, stack')
    /\ started' = started \cup {stack'[Len(stack) + 1].path}

Turns ==
    /\ at = "next" /\ at' = "next" /\ UNCHANGED <<records, started, result>>
    /\ Turned(script, stack, stack', Scope(Parent))

Loops ==
    /\ at = "step.started" /\ at' = "next" /\ UNCHANGED <<records, started, result>>
    /\ Looped(script, stack, stack', Scope(Parent))

Settles ==
    /\ (at = "next" /\ Step # Root) \/ at \in {"step.started", "tool"}
    /\ at' = "step.finished" /\ UNCHANGED <<stack, started, result>>
    /\ \E status \in {"completed", "skipped"} :
          records' = Append(records, [path |-> LastOf(stack).path, status |-> status])

Ends ==
    /\ at = "step.finished" /\ at' = "next" /\ UNCHANGED <<records, started, result>>
    /\ Popped(stack, stack')

Completes ==
    /\ at = "next" /\ Step = Root /\ at' = "execution.finished"
    /\ result' = "completed" /\ UNCHANGED <<stack, records, started>>

\* An error gets to the last of left.
Throws(left) ==
    /\ stack' = left /\ started' = started
    /\ IF Len(left) > 1
       THEN /\ records' = Append(records, [path |-> LastOf(left).path, status |-> "failed"])
            /\ at' = "step.failed" /\ result' = result
       ELSE result' = "failed" /\ at' = "execution.finished" /\ records' = records

Fails ==
    \/ at \in {"next", "step.started", "delay", "tool"} /\ Throws(stack)
    \/ at = "step.failed" /\ Throws(Front(stack))

\* An error of the listener, where the step has no record yet or has one already.
FailsLate ==
    /\ refused' > 0
    /\ \/ at = "step.started" /\ Throws(Front(stack))
       \/ at = "step.finished" /\ Throws(stack)
       \/ at = "execution.finished" /\ result = "completed" /\ Throws(stack)

Moves ==
    \/ Stays \/ Begins \/ Turns \/ Loops \/ Settles \/ Ends \/ Completes \/ Fails
    \/ FailsLate

\* What is stored only grows, by what the last call of a tool came to.
Stores ==
    /\ calls' \in {calls, calls + 1}
    /\ \/ values' = values
       \/ \E o \in Outputs : values' = [values EXCEPT ![o] = calls] /\ calls' = calls

LEMMA ThrowThrows ==
    ASSUME NEW code, NEW left, Throw(code, left), started' = started PROVE Throws(left)
BY DEF Throw, Throws, LastOf, Last

LEMMA ParentScope ==
    ASSUME StackInv, Len(stack) > 1 PROVE Scope(Parent) \in [Outputs -> Nat]
<1>1. stack \in Seq(Frames) /\ Len(stack) \in Nat BY DEF StackInv, Shape
<1>2. stack[Len(stack) - 1] \in Frames BY <1>1
<1> QED BY <1>2 DEF StackInv, Scope, Parent, Frames

LEMMA TopIsTyped ==
    ASSUME StackInv
    PROVE  /\ Top = LastOf(stack) /\ Top \in Frames /\ Depth = Len(stack)
           /\ stack \in Seq(Frames) /\ Len(stack) \in Nat \ {0}
           /\ Step \in Nodes /\ script \in Script
           /\ Len(stack) > 1 => Step \in InScript(script)
           /\ Len(stack) = 1 => Step = Root
<1>1. stack \in Seq(Frames) /\ Len(stack) \in Nat \ {0} BY DEF StackInv, Shape
<1>2. Top = LastOf(stack) BY DEF Top, Last, LastOf
<1>3. Top \in Frames BY <1>1, <1>2 DEF LastOf
<1>4. Depth = Len(stack) BY DEF Depth
<1>5. Step \in Nodes BY <1>3 DEF Frames, Step
<1>6. script \in Script BY SkillScriptAssumption DEF StackInv
<1>7. Len(stack) > 1 => Step \in InScript(script) BY <1>1, <1>2 DEF StackInv, Shape, Step, LastOf
<1>8. Len(stack) = 1 => Step = Root BY <1>1, <1>2 DEF StackInv, Shape, Step, LastOf
<1> QED BY <1>1, <1>2, <1>3, <1>4, <1>5, <1>6, <1>7, <1>8

\* The step under way with a field of it changed, as a frame.
PassedTop == [Top EXCEPT !.next = Top.next + 1]
TurnedTop(c) == [Top EXCEPT !.next = 1, !.item = Top.item + 1, !.copy = c]
LoopedTop(n, c) == [Top EXCEPT !.items = n, !.loop = TRUE, !.copy = c]
Passed == [stack EXCEPT ![Depth].next = @ + 1]

LEMMA ChangedTop ==
    ASSUME StackInv, NEW f \in Frames, f = Top, NEW c \in [Outputs -> Nat], NEW n \in Nat
    PROVE  /\ PassedTop \in Frames /\ TurnedTop(c) \in Frames /\ LoopedTop(n, c) \in Frames
           /\ LET g == PassedTop
              IN /\ g.step = f.step /\ g.path = f.path /\ g.next = f.next + 1 /\ g.item = f.item
                 /\ g.items = f.items /\ g.loop = f.loop /\ g.copy = f.copy
           /\ LET g == TurnedTop(c)
              IN /\ g.step = f.step /\ g.path = f.path /\ g.next = 1 /\ g.item = f.item + 1
                 /\ g.items = f.items /\ g.loop = f.loop /\ g.copy = c
           /\ LET g == LoopedTop(n, c)
              IN /\ g.step = f.step /\ g.path = f.path /\ g.next = f.next /\ g.item = f.item
                 /\ g.items = n /\ g.loop /\ g.copy = c
<1>1. f.next + 1 \in Nat \ {0} /\ f.item + 1 \in Nat \ {0} BY DEF Frames
<1>2. /\ PassedTop \in Frames
      /\ PassedTop.step = f.step /\ PassedTop.path = f.path /\ PassedTop.next = f.next + 1
      /\ PassedTop.item = f.item /\ PassedTop.items = f.items /\ PassedTop.loop = f.loop
      /\ PassedTop.copy = f.copy
  BY <1>1 DEF PassedTop, Frames
<1>3. \A i \in Nat \ {0} : \E g \in Frames :
         /\ g = [f EXCEPT !.next = 1, !.item = i, !.copy = c]
         /\ g.step = f.step /\ g.path = f.path /\ g.next = 1 /\ g.item = i
         /\ g.items = f.items /\ g.loop = f.loop /\ g.copy = c
  <2> TAKE i \in Nat \ {0}
  <2>1. PICK g1 \in Frames :
           /\ g1 = [f EXCEPT !.next = 1]
           /\ g1.step = f.step /\ g1.path = f.path /\ g1.next = 1 /\ g1.items = f.items
           /\ g1.loop = f.loop
    <3>1. [f EXCEPT !.next = 1] \in Frames BY DEF Frames
    <3> QED BY <3>1 DEF Frames
  <2>2. PICK g2 \in Frames :
           /\ g2 = [g1 EXCEPT !.item = i]
           /\ g2.step = f.step /\ g2.path = f.path /\ g2.next = 1 /\ g2.items = f.items
           /\ g2.item = i /\ g2.loop = f.loop
    <3>1. [g1 EXCEPT !.item = i] \in Frames BY DEF Frames
    <3> QED BY <2>1, <3>1 DEF Frames
  <2>3. PICK g3 \in Frames :
           /\ g3 = [g2 EXCEPT !.copy = c]
           /\ g3.step = f.step /\ g3.path = f.path /\ g3.next = 1 /\ g3.items = f.items
           /\ g3.item = i /\ g3.loop = f.loop /\ g3.copy = c
    <3>1. [g2 EXCEPT !.copy = c] \in Frames BY DEF Frames
    <3> QED BY <2>2, <3>1 DEF Frames
  <2>4. [f EXCEPT !.next = 1, !.item = i, !.copy = c]
           = [[[f EXCEPT !.next = 1] EXCEPT !.item = i] EXCEPT !.copy = c]
    OBVIOUS
  <2> QED BY <2>1, <2>2, <2>3, <2>4
<1>4. \E g \in Frames :
         /\ g = [f EXCEPT !.items = n, !.loop = TRUE, !.copy = c]
         /\ g.step = f.step /\ g.path = f.path /\ g.next = f.next /\ g.item = f.item
         /\ g.items = n /\ g.loop /\ g.copy = c
  <2>1. PICK g1 \in Frames :
           /\ g1 = [f EXCEPT !.items = n]
           /\ g1.step = f.step /\ g1.path = f.path /\ g1.next = f.next /\ g1.item = f.item
           /\ g1.items = n
    <3>1. [f EXCEPT !.items = n] \in Frames BY DEF Frames
    <3> QED BY <3>1 DEF Frames
  <2>2. PICK g2 \in Frames :
           /\ g2 = [g1 EXCEPT !.loop = TRUE]
           /\ g2.step = f.step /\ g2.path = f.path /\ g2.next = f.next /\ g2.item = f.item
           /\ g2.items = n /\ g2.loop
    <3>1. [g1 EXCEPT !.loop = TRUE] \in Frames BY DEF Frames
    <3> QED BY <2>1, <3>1 DEF Frames
  <2>3. PICK g3 \in Frames :
           /\ g3 = [g2 EXCEPT !.copy = c]
           /\ g3.step = f.step /\ g3.path = f.path /\ g3.next = f.next /\ g3.item = f.item
           /\ g3.items = n /\ g3.loop /\ g3.copy = c
    <3>1. [g2 EXCEPT !.copy = c] \in Frames BY DEF Frames
    <3> QED BY <2>2, <3>1 DEF Frames
  <2>4. [f EXCEPT !.items = n, !.loop = TRUE, !.copy = c]
           = [[[f EXCEPT !.items = n] EXCEPT !.loop = TRUE] EXCEPT !.copy = c]
    OBVIOUS
  <2> QED BY <2>1, <2>2, <2>3, <2>4
<1>5. PICK g \in Frames :
         /\ g = TurnedTop(c)
         /\ g.step = f.step /\ g.path = f.path /\ g.next = 1 /\ g.item = f.item + 1
         /\ g.items = f.items /\ g.loop = f.loop /\ g.copy = c
  <2> PICK i \in Nat \ {0} : i = f.item + 1
    BY <1>1
  <2>1. TurnedTop(c) = [f EXCEPT !.next = 1, !.item = i, !.copy = c] BY DEF TurnedTop
  <2>2. PICK h \in Frames :
           /\ h = [f EXCEPT !.next = 1, !.item = i, !.copy = c]
           /\ h.step = f.step /\ h.path = f.path /\ h.next = 1 /\ h.item = i
           /\ h.items = f.items /\ h.loop = f.loop /\ h.copy = c
    BY <1>3, Zenon
  <2>3. h = TurnedTop(c) BY <2>1, <2>2, Zenon
  <2> HIDE <2>1
  <2> QED BY <2>2, <2>3, Zenon
<1>6. PICK h \in Frames :
         /\ h = LoopedTop(n, c)
         /\ h.step = f.step /\ h.path = f.path /\ h.next = f.next /\ h.item = f.item
         /\ h.items = n /\ h.loop /\ h.copy = c
  <2>1. LoopedTop(n, c) = [f EXCEPT !.items = n, !.loop = TRUE, !.copy = c] BY DEF LoopedTop
  <2> QED BY <1>4, <2>1
<1> QED BY <1>2, <1>5, <1>6

\* A substep begins.
LEMMA EnterMoves ==
    ASSUME StackInv, at = "next", Top.next <= Len(script.body[Step]),
           NEW x, x = script.body[Step][Top.next],
           stack' = Append(Passed, Frame(x, Path(x), 1, Top.loop, Top.copy))
    PROVE  /\ Pushed(script, stack, stack')
           /\ stack'[Len(stack) + 1].path = Path(x)
<1> PICK d \in Nat \ {0} : d = Len(stack)
  BY TopIsTyped
<1> PICK f \in Frames : f = Top
  BY TopIsTyped
<1> DEFINE h == Frame(x, Path(x), 1, f.loop, f.copy)
<1>1. f = stack[d] /\ stack \in Seq(Frames) /\ Step = f.step
  BY TopIsTyped DEF LastOf, Step
<1>2. f.next \in DOMAIN script.body[f.step] /\ f.step \in InScript(script) \cup {Root}
  <2>1. f.next \in Nat \ {0} /\ f.step \in Nodes BY DEF Frames
  <2>2. script.body[f.step] \in Seq(Steps) BY <2>1, TopIsTyped DEF Script
  <2>3. f.step \in InScript(script) \cup {Root} BY <1>1, TopIsTyped
  <2> QED BY <1>1, <2>1, <2>2, <2>3
<1>3. f.copy \in [Outputs -> Nat] BY DEF Frames
<1>4. /\ PassedTop \in Frames
      /\ PassedTop.step = f.step /\ PassedTop.path = f.path /\ PassedTop.next = f.next + 1
      /\ PassedTop.item = f.item /\ PassedTop.items = f.items /\ PassedTop.loop = f.loop
      /\ PassedTop.copy = f.copy
  BY <1>3, ChangedTop
<1>5. x \in InScript(script) /\ x \in Nodes
  <2>1. x \in InScript(script) BY <1>1, <1>2, TopIsTyped, BodySteps
  <2> QED BY <2>1 DEF InScript, Nodes
<1>6. Path(x) = Child(script, f.step, f.path, f.item, f.next)
  BY <1>1 DEF Path, Child, Foreach
<1>7. Path(x) \in PathSet
  <2>1. f.step \in Nodes /\ f.path \in PathSet /\ f.item \in Nat BY DEF Frames
  <2>2. Child(script, f.step, f.path, f.item, f.next) \in PathSet
    BY <1>2, <2>1, TopIsTyped, ChildPaths
  <2> QED BY <1>6, <2>2
<1>8. h \in Frames BY <1>5, <1>7 DEF Frames, Frame
<1>9. /\ h.step = x /\ h.path = Path(x) /\ h.item = 1 /\ h.items = 1 /\ h.next = 1
      /\ h.loop = f.loop /\ h.copy = f.copy
  BY DEF Frame
<1>10. stack' = Append(Passed, h) OBVIOUS
<1> HIDE DEF h
<1>11. Passed \in Seq(Frames) /\ Len(Passed) = d /\ Passed[d] = PassedTop /\ Below(stack, Passed)
  <2>1. Passed = Replaced(stack, PassedTop)
    BY <1>1, TopIsTyped DEF Passed, Replaced, PassedTop
  <2> QED BY <1>1, <1>4, <2>1, TopReplaced
<1>12. /\ stack' \in Seq(Frames) /\ Len(stack') = d + 1 /\ stack'[d + 1] = h
       /\ stack'[d] = PassedTop /\ \A k \in 1 .. d - 1 : stack'[k] = stack[k]
  <2>1. \A k \in 1 .. d : Append(Passed, h)[k] = Passed[k] BY <1>11, <1>8
  <2>2. Append(Passed, h) \in Seq(Frames) /\ Len(Append(Passed, h)) = d + 1
        /\ Append(Passed, h)[d + 1] = h
    BY <1>11, <1>8
  <2>3. \A k \in 1 .. d - 1 : Passed[k] = stack[k] BY <1>11 DEF Below
  <2> QED BY <1>10, <1>11, <2>1, <2>2, <2>3
<1>13. x = script.body[f.step][f.next] BY <1>1
<1>14. Pushed(script, stack, stack')
  BY <1>1, <1>2, <1>4, <1>6, <1>9, <1>12, <1>13 DEF Pushed, Below
<1> QED BY <1>14, <1>9, <1>12

\* The step under way is replaced by itself, a loop whose items are known.
LEMMA LoopMoves ==
    ASSUME StackInv, at = "step.started", script.kind[Step] = "foreach", NEW n \in Nat,
           NEW c, c = Scope(Parent), stack' = Replaced(stack, LoopedTop(n, c))
    PROVE  Looped(script, stack, stack', c)
<1> PICK d \in Nat \ {0} : d = Len(stack)
  BY TopIsTyped
<1> PICK f \in Frames : f = Top
  BY TopIsTyped
<1> PICK g : g = LoopedTop(n, c)
  OBVIOUS
<1>1. f = stack[d] /\ stack \in Seq(Frames) /\ Step = f.step
  BY TopIsTyped DEF LastOf, Step
<1>2. c \in [Outputs -> Nat]
  <2>1. Len(stack) > 1 BY DEF StackInv, Inner
  <2> QED BY <2>1, ParentScope
<1>3. /\ g \in Frames /\ g.step = f.step /\ g.path = f.path /\ g.next = f.next
      /\ g.item = f.item /\ g.items = n /\ g.loop /\ g.copy = c
  BY <1>2, ChangedTop
<1>4. Foreach(script, f.step)
  <2>1. Len(stack) > 1 BY DEF StackInv, Inner
  <2>2. Step \in InScript(script) BY <2>1, TopIsTyped
  <2>3. Step # Root BY <2>2, SkillScriptAssumption DEF InScript
  <2> QED BY <1>1, <2>3 DEF Foreach
<1>5. /\ stack' \in Seq(Frames) /\ Len(stack') = d /\ stack'[d] = g /\ Below(stack, stack')
  BY <1>1, <1>3, TopReplaced
<1> QED BY <1>1, <1>3, <1>4, <1>5 DEF Looped

\* The step under way begins its next iteration.
LEMMA TurnMoves ==
    ASSUME StackInv, Top.item < Top.items, NEW c, c = Scope(Parent),
           stack' = Replaced(stack, TurnedTop(c))
    PROVE  Turned(script, stack, stack', c)
<1> PICK d \in Nat \ {0} : d = Len(stack)
  BY TopIsTyped
<1> PICK f \in Frames : f = Top
  BY TopIsTyped
<1> PICK g : g = TurnedTop(c)
  OBVIOUS
<1>1. f = stack[d] /\ stack \in Seq(Frames) /\ Step = f.step
  BY TopIsTyped DEF LastOf, Step
<1>2. c \in [Outputs -> Nat]
  <2>1. Foreach(script, f.step)
    <3>1. ~ Foreach(script, f.step) => f.item = 1 /\ f.items <= 1
      BY <1>1, TopIsTyped DEF StackInv, Shape
    <3>2. f.item < f.items /\ f.item \in Nat /\ f.items \in Nat BY DEF Frames
    <3> QED BY <3>1, <3>2
  <2>2. Step # Root BY <1>1, <2>1 DEF Foreach
  <2>3. Len(stack) > 1 BY <2>2, TopIsTyped
  <2> QED BY <2>3, ParentScope
<1>3. /\ g \in Frames /\ g.step = f.step /\ g.path = f.path /\ g.next = 1
      /\ g.item = f.item + 1 /\ g.items = f.items /\ g.loop = f.loop /\ g.copy = c
  BY <1>2, ChangedTop
<1>4. /\ stack' \in Seq(Frames) /\ Len(stack') = d /\ stack'[d] = g /\ Below(stack, stack')
  BY <1>1, <1>3, TopReplaced
<1> QED BY <1>1, <1>3, <1>4 DEF Turned

\* A step whose when does not throw is skipped or executed, as its kind says.
LEMMA ExecuteCases ==
    ASSUME StackInv, Execute
    PROVE  /\ at = "step.started" /\ UNCHANGED <<script, values, started, refused>>
           /\ \/ Throw("WHEN_EVALUATION_FAILED", stack) /\ calls' = calls
              \/ /\ records' = Record("skipped") /\ at' = "step.finished"
                 /\ UNCHANGED <<stack, result, calls>>
              \/ script.kind[Step] = "tool" /\ ExecuteToolStep
              \/ script.kind[Step] = "group" /\ ExecuteGroupStep /\ calls' = calls
              \/ /\ script.kind[Step] = "foreach" /\ calls' = calls
                 /\ \/ \E n \in Nat : ExecuteForeachStep(n)
                    \/ ~ Resolvable /\ Throw("VARIABLE_RESOLVE_FAILED", stack)
<1>1. at = "step.started" /\ UNCHANGED <<script, values, started, refused>> BY DEF Execute
<1>2. PICK when \in WhenValues(Step) :
        CASE when = "throws" ->
                Throw("WHEN_EVALUATION_FAILED", stack) /\ UNCHANGED calls
          [] when = "false" ->
                /\ records' = Record("skipped") /\ at' = "step.finished"
                /\ UNCHANGED <<stack, calls, error, result>>
          [] when = "true" ->
                CASE script.kind[Step] = "tool" -> ExecuteToolStep
                  [] script.kind[Step] = "group" -> ExecuteGroupStep /\ UNCHANGED calls
                  [] script.kind[Step] = "foreach" ->
                        /\ IF Resolvable
                           THEN \E n \in Items : ExecuteForeachStep(n)
                           ELSE Throw("VARIABLE_RESOLVE_FAILED", stack)
                        /\ UNCHANGED calls
  BY DEF Execute
<1>3. when \in {"true", "false", "throws"} BY DEF WhenValues
<1>4. script.kind[Step] \in {"tool", "group", "foreach"}
  <2>1. Len(stack) > 1 BY <1>1 DEF StackInv, Inner
  <2>2. Step \in Steps BY <2>1, TopIsTyped DEF InScript
  <2> QED BY <2>2, TopIsTyped DEF Script, Kinds
<1>5. \A n \in Items : n \in Nat BY SkillScriptAssumption DEF Items
<1>6. CASE when = "throws" BY <1>1, <1>2, <1>6
<1>7. CASE when = "false" BY <1>1, <1>2, <1>7
<1>8. CASE when = "true" /\ script.kind[Step] = "tool" BY <1>1, <1>2, <1>8
<1>9. CASE when = "true" /\ script.kind[Step] = "group" BY <1>1, <1>2, <1>9
<1>10. CASE when = "true" /\ script.kind[Step] = "foreach"
  <2>1. /\ IF Resolvable
           THEN \E n \in Items : ExecuteForeachStep(n)
           ELSE Throw("VARIABLE_RESOLVE_FAILED", stack)
        /\ UNCHANGED calls
    BY <1>2, <1>10
  <2> QED BY <1>1, <1>5, <1>10, <2>1
<1> QED BY <1>3, <1>4, <1>6, <1>7, <1>8, <1>9, <1>10

LEMMA NextMoves ==
    ASSUME StackInv, [Next]_vars
    PROVE  Moves /\ Stores /\ script' = script /\ refused' \in {refused, refused + 1}
<1>1. CASE Run BY <1>1 DEF Run, Moves, Stays, Stores
<1>2. CASE Enter
  <2>1. UNCHANGED <<script, refused, values, calls>> /\ at = "next" BY <1>2 DEF Enter
  <2>2. CASE \E code : Throw(code, stack) /\ started' = started
    BY <2>1, <2>2, ThrowThrows DEF Moves, Fails, Stores
  <2>3. CASE ~ \E code : Throw(code, stack) /\ started' = started
    <3> PICK x : x = script.body[Step][Top.next]
      OBVIOUS
    <3>1. /\ Top.next <= Len(script.body[Step])
          /\ stack' = Append(Passed, Frame(x, Path(x), 1, Top.loop, Top.copy))
          /\ started' = started \cup {Path(x)} /\ at' = "step.started"
          /\ UNCHANGED <<records, result>>
      BY <1>2, <2>3 DEF Enter, Passed
    <3>2. Pushed(script, stack, stack') /\ stack'[Len(stack) + 1].path = Path(x)
      BY <2>1, <3>1, EnterMoves
    <3>3. started' = started \cup {stack'[Len(stack) + 1].path} BY <3>1, <3>2
    <3>4. Begins BY <2>1, <3>1, <3>2, <3>3 DEF Begins
    <3> QED BY <2>1, <3>4 DEF Moves, Stores
  <2> QED BY <2>2, <2>3
<1>3. CASE Iterate
  <2>1. /\ at = "next" /\ at' = "next" /\ Top.item < Top.items
        /\ UNCHANGED <<script, refused, records, started, result, values, calls>>
    BY <1>3 DEF Iterate
  <2>2. stack' = Replaced(stack, TurnedTop(Scope(Parent)))
    BY <1>3 DEF Iterate, Replaced, TurnedTop, Depth
  <2>3. Turns BY <2>1, <2>2, TurnMoves DEF Turns
  <2> QED BY <2>1, <2>3 DEF Moves, Stores
<1>4. CASE Close
  <2>1. UNCHANGED <<script, refused, stack, started, values, calls>> /\ at = "next"
    BY <1>4 DEF Close
  <2>2. CASE Step = Root BY <1>4, <2>1, <2>2 DEF Close, Moves, Completes, Stores
  <2>3. CASE Step # Root
    <3>1. records' = Append(records, [path |-> LastOf(stack).path, status |-> "completed"])
      BY <1>4, <2>3, TopIsTyped DEF Close, Record
    <3>2. Settles BY <1>4, <2>1, <2>3, <3>1 DEF Close, Settles
    <3> QED BY <2>1, <3>2 DEF Moves, Stores
  <2> QED BY <2>2, <2>3
<1>5. CASE DelayEnds
  <2>1. UNCHANGED <<script, refused, started, values>> /\ at = "delay" BY <1>5 DEF DelayEnds
  <2>2. \/ \E code : Throw(code, stack) /\ calls' = calls
        \/ at' = "tool" /\ calls' = calls + 1 /\ UNCHANGED <<stack, records, result>>
    BY <1>5 DEF DelayEnds, CallTool
  <2> QED BY <2>1, <2>2, ThrowThrows DEF Moves, Fails, Stays, Stores
<1>6. CASE Execute
  <2>1. at = "step.started" /\ UNCHANGED <<script, values, started, refused>>
    BY <1>6, ExecuteCases
  <2>2. CASE \E code : Throw(code, stack) /\ calls' = calls
    BY <2>1, <2>2, ThrowThrows DEF Moves, Fails, Stores
  <2>3. CASE /\ records' = Record("skipped") /\ at' = "step.finished"
             /\ UNCHANGED <<stack, result, calls>>
    <3>1. records' = Append(records, [path |-> LastOf(stack).path, status |-> "skipped"])
      BY <2>3, TopIsTyped DEF Record
    <3>2. Settles BY <2>1, <2>3, <3>1 DEF Settles
    <3> QED BY <2>1, <2>3, <3>2 DEF Moves, Stores
  <2>4. CASE ExecuteToolStep
    <3>1. \/ \E code : Throw(code, stack) /\ calls' = calls
          \/ /\ at' \in {"delay", "tool"} /\ UNCHANGED <<stack, records, result>>
             /\ calls' \in {calls, calls + 1}
      BY <2>4 DEF ExecuteToolStep, CallTool
    <3>2. CASE at' \in {"delay", "tool"} /\ UNCHANGED <<stack, records, result>>
               /\ calls' \in {calls, calls + 1}
      <4>1. Stays BY <2>1, <3>2 DEF Stays
      <4> QED BY <2>1, <3>2, <4>1 DEF Moves, Stores
    <3> QED BY <2>2, <3>1, <3>2
  <2>5. CASE script.kind[Step] = "group" /\ ExecuteGroupStep /\ calls' = calls
    <3>1. Stays BY <2>1, <2>5 DEF ExecuteGroupStep, Stays
    <3> QED BY <2>1, <2>5, <3>1 DEF Moves, Stores
  <2>6. ASSUME script.kind[Step] = "foreach", calls' = calls, NEW n \in Nat, ExecuteForeachStep(n)
        PROVE  Moves /\ Stores
    <3>1. CASE \E code : Throw(code, stack) BY <2>2, <2>6, <3>1
    <3>2. CASE ~ \E code : Throw(code, stack)
      <4>1. /\ stack' = Replaced(stack, LoopedTop(n, Scope(Parent)))
            /\ at' = "next" /\ UNCHANGED <<records, result>>
        BY <2>6, <3>2 DEF ExecuteForeachStep, Replaced, LoopedTop, Depth
      <4>2. Loops BY <2>1, <2>6, <4>1, LoopMoves DEF Loops
      <4> QED BY <2>1, <2>6, <4>2 DEF Moves, Stores
    <3> QED BY <3>1, <3>2
  <2>7. Moves /\ Stores BY <1>6, <2>2, <2>3, <2>4, <2>5, <2>6, ExecuteCases
  <2>8. refused \in Nat BY DEF StackInv
  <2> QED BY <2>1, <2>7, <2>8
<1>7. CASE ToolReturns
  <2>1. UNCHANGED <<script, started, refused, calls>> /\ at = "tool" BY <1>7 DEF ToolReturns
  <2>2. \/ \E code : Throw(code, stack)
        \/ /\ records' = Append(records, [path |-> LastOf(stack).path, status |-> "completed"])
           /\ at' = "step.finished" /\ UNCHANGED <<stack, result>>
    BY <1>7, TopIsTyped DEF ToolReturns, Record
  <2>3. \/ values' = values
        \/ \E o \in Outputs : values' = [values EXCEPT ![o] = calls]
    <3>1. \/ values' = values
          \/ /\ script.output[Step] # NoOutput
             /\ values' = [values EXCEPT ![script.output[Step]] = calls]
      BY <1>7 DEF ToolReturns
    <3>2. script.output[Step] # NoOutput => script.output[Step] \in Outputs
      <4>1. Len(stack) > 1 BY <2>1 DEF StackInv, Inner
      <4>2. Step \in Steps BY <4>1, TopIsTyped DEF InScript
      <4> QED BY <4>2, TopIsTyped DEF Script
    <3> QED BY <3>1, <3>2
  <2>4. Stores BY <2>1, <2>3 DEF Stores
  <2> QED BY <2>1, <2>2, <2>4, ThrowThrows DEF Moves, Fails, Settles
<1>8. CASE Taken
  <2>1. UNCHANGED <<script, started, refused, values, calls>> BY <1>8 DEF Taken
  <2>2. \/ at = "execution.started" /\ at' = "next" /\ UNCHANGED <<stack, records, error, result>>
        \/ /\ at = "step.finished" /\ at' = "next" /\ stack' = Front(stack)
           /\ UNCHANGED <<records, error, result>>
        \/ at = "step.failed" /\ Throw(error, Front(stack))
        \/ at = "execution.finished" /\ at' = "returned" /\ UNCHANGED <<stack, records, error, result>>
    BY <1>8 DEF Taken, StepFailed
  <2>3. at = "step.finished" => Popped(stack, Front(stack))
    <3>1. at = "step.finished" => Len(stack) > 1 BY DEF StackInv, Inner
    <3> QED BY <3>1, TopIsTyped, LastPopped
  <2> QED BY <2>1, <2>2, <2>3, ThrowThrows DEF Moves, Stays, Ends, Fails, Stores
<1>9. CASE Rejects
  <2>1. UNCHANGED <<script, started, values, calls>> /\ refused' = refused + 1
    BY <1>9 DEF Rejects
  <2>2. \/ at \in {"step.started", "step.failed"} /\ Throw("RUNTIME_EXCEPTION", Front(stack))
        \/ at = "step.finished" /\ Throw("RUNTIME_EXCEPTION", stack)
        \/ at = "execution.finished" /\ result = "completed" /\ Throw("RUNTIME_EXCEPTION", stack)
        \/ /\ at = "execution.started" \/ (at = "execution.finished" /\ result = "failed")
           /\ at' = "rejected" /\ UNCHANGED <<stack, records, error, result>>
    BY <1>9 DEF Rejects
  <2>3. refused' > 0 BY <2>1 DEF StackInv
  <2> QED BY <2>1, <2>2, <2>3, ThrowThrows DEF Moves, Stays, Fails, FailsLate, Stores
<1>10. CASE Abort
  <2>1. UNCHANGED <<script, started, refused, values, calls>> BY <1>10 DEF Abort
  <2>2. \/ at \in {"delay", "tool"} /\ \E code : Throw(code, stack)
        \/ UNCHANGED <<at, stack, records, error, result>>
    BY <1>10 DEF Abort
  <2> QED BY <2>1, <2>2, ThrowThrows DEF Moves, Stays, Fails, Stores
<1>11. CASE UNCHANGED vars BY <1>11 DEF vars, Moves, Stays, Stores
<1> QED
  BY <1>1, <1>2, <1>3, <1>4, <1>5, <1>6, <1>7, <1>8, <1>9, <1>10, <1>11 DEF Next

LEMMA StackInit == ASSUME Init PROVE StackInv
<1> DEFINE f == Frame(Root, <<>>, 1, FALSE, Nothing)
<1>1. Nothing \in [Outputs -> Nat] BY DEF Nothing
<1>2. f \in Frames /\ f.step = Root /\ f.item = 1 /\ f.items = 1
  BY <1>1 DEF Frames, Frame, Nodes, PathSet
<1> HIDE DEF f
<1>3. stack = <<f>> BY DEF Init, f
<1>4. stack \in Seq(Frames) /\ Len(stack) = 1 /\ stack[1] = f BY <1>2, <1>3
<1>5. Shape(script, stack) BY <1>2, <1>4 DEF Shape
<1>6. records \in Seq([path : PathSet, status : Statuses]) BY DEF Init
<1> QED BY <1>1, <1>4, <1>5, <1>6 DEF Init, StackInv, Inner, Outer

LEMMA StackNext == ASSUME StackInv, [Next]_vars PROVE StackInv'
<1> PICK s \in Script : s = script
  BY TopIsTyped
<1> PICK t : t = stack
  OBVIOUS
<1> PICK u : u = stack'
  OBVIOUS
<1>0. /\ Moves /\ Stores /\ script' = script /\ refused' \in Nat
      /\ s \in Scripts /\ Shape(s, t) /\ Len(t) \in Nat \ {0} /\ t \in Seq(Frames)
  <2>1. Moves /\ Stores /\ script' = script /\ refused' \in {refused, refused + 1}
    BY NextMoves
  <2>2. s \in Scripts /\ Shape(s, t) /\ refused \in Nat BY DEF StackInv
  <2>3. refused' \in Nat BY <2>1, <2>2
  <2>4. Len(t) \in Nat \ {0} /\ t \in Seq(Frames) BY <2>2 DEF Shape
  <2> QED BY <2>1, <2>2, <2>3, <2>4
<1>1. values' \in [Outputs -> Nat] /\ calls' \in Nat BY <1>0 DEF StackInv, Stores
<1>2. Len(t) > 1 => Popped(t, Front(t)) BY <1>0, LastPopped
<1>3. LastOf(t).path \in PathSet
  <2>1. LastOf(t) \in Frames BY <1>0 DEF LastOf
  <2> QED BY <2>1 DEF Frames
<1> DEFINE R == [path : PathSet, status : Statuses]
<1>4. records \in Seq(R) BY DEF StackInv
<1>5. ASSUME NEW p \in PathSet, NEW e \in Statuses
      PROVE  Append(records, [path |-> p, status |-> e]) \in Seq(R)
  BY <1>4
<1> DEFINE Rest ==
       /\ Shape(s, u) /\ records' \in Seq(R)
       /\ at' \in Inner \cup Outer \cup {"next"}
       /\ at' \in Inner => Len(u) > 1
       /\ at' \in Outer => Len(u) = 1
       /\ at' \notin {"new", "rejected"} => Valid(s)
       /\ at' = "next" => LastOf(u).step = Root \/ s.kind[LastOf(u).step] # "tool"
       /\ result' # "none" => at' \in {"execution.finished"} \cup Over
<1>6. Step = LastOf(t).step BY TopIsTyped DEF Step
<1>7. ASSUME NEW left, Throws(left), Shape(s, left), Valid(s), at \notin Over, result = "none" \/ Len(left) = 1
      PROVE  Rest
  <2>1. u = left /\ Len(left) \in Nat \ {0} BY <1>7 DEF Throws, Shape
  <2> PICK n \in Nat \ {0} : n = Len(left)
    BY <2>1
  <2>2. LastOf(left).path \in PathSet
    <3>1. left \in Seq(Frames) BY <1>7 DEF Shape
    <3>2. LastOf(left) \in Frames BY <2>1, <3>1 DEF LastOf
    <3> QED BY <3>2 DEF Frames
  <2>3. CASE Len(left) > 1
    <3>1. /\ records' = Append(records, [path |-> LastOf(left).path, status |-> "failed"])
          /\ at' = "step.failed" /\ result' = result
      BY <1>7, <2>3 DEF Throws
    <3>2. records' \in Seq(R) BY <1>5, <2>2, <3>1 DEF Statuses
    <3>3. result' = "none"
      <4>1. n # 1 BY <2>3
      <4>2. Len(left) # 1 BY <4>1
      <4>3. result = "none" BY <1>7, <4>2, Zenon
      <4> QED BY <3>1, <4>3
    <3> QED BY <1>7, <2>1, <2>3, <3>1, <3>2, <3>3 DEF Inner, Outer, Over
  <2>4. CASE ~ (Len(left) > 1)
    <3>1. result' = "failed" /\ at' = "execution.finished" /\ records' = records
      BY <1>7, <2>4 DEF Throws
    <3>2. Len(u) = 1
      <4>1. n = 1 BY <2>4
      <4> QED BY <2>1, <4>1
    <3> QED BY <1>4, <1>7, <2>1, <3>1, <3>2 DEF Inner, Outer, Over
  <2> QED BY <2>3, <2>4
<1>8. Rest
  <2>0. /\ at \in Inner \cup Outer \cup {"next"}
        /\ at \in Inner => Len(t) > 1
        /\ at \in Outer => Len(t) = 1
        /\ at \notin {"new", "rejected"} => Valid(s)
        /\ at = "next" => LastOf(t).step = Root \/ s.kind[LastOf(t).step] # "tool"
        /\ result # "none" => at \in {"execution.finished"} \cup Over
    BY <1>6 DEF StackInv
  <2>1. CASE Stays
    <3>1. u = t /\ records' = records /\ result' = result BY <2>1 DEF Stays
    <3>2. CASE at' = at BY <1>0, <1>4, <2>0, <3>1, <3>2
    <3>3. CASE at = "new" /\ at' = "execution.started" /\ Valid(script)
      BY <1>0, <1>4, <2>0, <3>1, <3>3 DEF Inner, Outer, Over
    <3>4. CASE at \in {"new", "execution.started"} /\ at' = "rejected"
      BY <1>0, <1>4, <2>0, <3>1, <3>4 DEF Inner, Outer, Over
    <3>5. CASE at = "execution.finished" /\ at' \in {"rejected", "returned"}
      BY <1>0, <1>4, <2>0, <3>1, <3>5 DEF Inner, Outer, Over
    <3>6. CASE at = "execution.started" /\ at' = "next"
      <4>1. LastOf(t).step = Root BY <2>0, <3>6, <1>0 DEF LastOf, Shape, Outer
      <4> QED BY <1>0, <1>4, <2>0, <3>1, <3>6, <4>1 DEF Inner, Outer, Over
    <3>7. CASE at = "step.started" /\ at' = "next" /\ script.kind[Step] = "group"
      BY <1>0, <1>4, <1>6, <2>0, <3>1, <3>7 DEF Inner, Outer, Over
    <3>8. CASE at \in {"step.started", "delay"} /\ at' \in {"delay", "tool"}
      BY <1>0, <1>4, <2>0, <3>1, <3>8 DEF Inner, Outer, Over
    <3> QED BY <2>1, <3>2, <3>3, <3>4, <3>5, <3>6, <3>7, <3>8 DEF Stays
  <2>2. CASE Begins
    <3>1. /\ at = "next" /\ at' = "step.started" /\ Pushed(s, t, u)
          /\ records' = records /\ result' = result
      BY <2>2 DEF Begins
    <3>2. Shape(s, u) BY <1>0, <2>0, <3>1, PushKeeps
    <3>3. Len(u) > 1 BY <1>0, <3>1 DEF Pushed
    <3> QED BY <1>4, <2>0, <3>1, <3>2, <3>3 DEF Inner, Outer, Over
  <2>3. CASE Turns \/ Loops
    <3>1. PICK c : Turned(s, t, u, c) \/ Looped(s, t, u, c)
      BY <2>3 DEF Turns, Loops
    <3>2. /\ at \in {"next", "step.started"} /\ at' = "next"
          /\ records' = records /\ result' = result
      BY <2>3 DEF Turns, Loops
    <3>3. Shape(s, u) BY <1>0, <3>1, TopKeeps
    <3>4. LastOf(u).step = LastOf(t).step BY <1>0, <3>1 DEF Turned, Looped, LastOf
    <3>5. LastOf(t).step = Root \/ s.kind[LastOf(t).step] # "tool"
      <4>1. at = "step.started" => Looped(s, t, u, Scope(Parent))
        BY <2>3 DEF Turns, Loops
      <4>2. at = "step.started" => s.kind[LastOf(t).step] = "foreach"
        BY <4>1 DEF Looped, Foreach, LastOf
      <4> QED BY <2>0, <3>2, <4>2
    <3> QED BY <1>4, <2>0, <3>2, <3>3, <3>4, <3>5 DEF Inner, Outer, Over
  <2>4. CASE Settles
    <3>1. /\ (at = "next" /\ Step # Root) \/ at \in {"step.started", "tool"}
          /\ at' = "step.finished" /\ u = t /\ result' = result
      BY <2>4 DEF Settles
    <3>2. records' \in Seq(R)
      BY <2>4, <1>3, <1>5 DEF Settles, Statuses
    <3>3. at = "next" => Len(t) > 1 BY <1>0, <3>1, TopIsTyped
    <3> QED BY <1>0, <2>0, <3>1, <3>2, <3>3 DEF Inner, Outer, Over
  <2>5. CASE Ends
    <3>1. /\ at = "step.finished" /\ at' = "next" /\ Popped(t, u)
          /\ records' = records /\ result' = result
      BY <2>5 DEF Ends
    <3>2. Shape(s, u) /\ (LastOf(u).step = Root \/ s.kind[LastOf(u).step] # "tool")
      BY <1>0, <2>0, <3>1, PopKeeps DEF Inner
    <3> QED BY <1>4, <2>0, <3>1, <3>2 DEF Inner, Outer, Over
  <2>6. CASE Completes
    <3>1. /\ at = "next" /\ Step = Root /\ at' = "execution.finished" /\ u = t
          /\ records' = records
      BY <2>6 DEF Completes
    <3>2. Len(t) = 1
      <4>1. Len(t) > 1 => Step \in InScript(script) BY TopIsTyped
      <4>2. Root \notin InScript(script) BY SkillScriptAssumption DEF InScript
      <4> PICK n \in Nat \ {0} : n = Len(t)
        BY <1>0
      <4>3. ~ (n > 1) BY <3>1, <4>1, <4>2
      <4>4. n = 1 BY <4>3
      <4> QED BY <4>4
    <3> QED BY <1>0, <1>4, <2>0, <3>1, <3>2 DEF Inner, Outer, Over
  <2>7. CASE Fails \/ FailsLate
    <3>1. CASE Throws(stack) /\ at \in {"next", "step.started", "delay", "tool", "step.finished"}
      BY <1>0, <1>7, <2>0, <3>1 DEF Over
    <3>2. CASE Throws(stack) /\ at = "execution.finished" /\ result = "completed"
      BY <1>0, <1>7, <2>0, <3>2 DEF Over, Outer
    <3>3. CASE Throws(Front(stack)) /\ at \in {"step.started", "step.failed"}
      <4>1. Len(t) > 1 BY <2>0, <3>3 DEF Inner
      <4>2. Shape(s, Front(t)) BY <1>0, <1>2, <4>1, PopKeeps
      <4> QED BY <1>7, <2>0, <3>3, <4>2 DEF Over
    <3> QED BY <2>7, <3>1, <3>2, <3>3 DEF Fails, FailsLate
  <2> QED BY <1>0, <2>1, <2>2, <2>3, <2>4, <2>5, <2>6, <2>7 DEF Moves
<1>9. LastOf(u) = Top' BY DEF Top, Last, LastOf
<1> QED BY <1>0, <1>1, <1>8, <1>9 DEF StackInv, Step

LEMMA ChildNests ==
    ASSUME NEW s \in Script, NEW x \in Nodes, NEW p \in PathSet,
           NEW j \in Nat, NEW m \in DOMAIN s.body[x],
           NEW q \in PathSet, IsPrefix(Child(s, x, p, j, m), q)
    PROVE  IsPrefix(p, q) /\ Len(p) < Len(q)
<1> DEFINE c == Child(s, x, p, j, m)
<1>1. /\ c \in PathSet /\ IsPrefix(p, c)
      /\ Len(c) = Len(p) + (IF Foreach(s, x) THEN 2 ELSE 1)
  BY ChildPaths, SMTT(30)
<1>2. IsPrefix(c, q) OBVIOUS
<1> HIDE DEF c
<1>3. Len(p) \in Nat /\ Len(c) \in Nat /\ Len(q) \in Nat BY <1>1 DEF PathSet
<1>4. Len(p) < Len(c) BY <1>1, <1>3
<1>5. IsPrefix(p, q) /\ Len(c) <= Len(q) BY <1>1, <1>2, PrefixOrder DEF PathSet
<1> QED BY <1>3, <1>4, <1>5

\* A step under way is one of the script, and its path goes on where that of each
\* step around it ends.
LEMMA PathsNest ==
    ASSUME NEW s \in Script, NEW t, Shape(s, t), NEW n \in 1 .. Len(t), NEW k \in 1 .. n - 1
    PROVE  /\ t[k].path \in PathSet /\ t[n].path \in PathSet
           /\ IsPrefix(t[k].path, t[n].path)
           /\ Len(t[k].path) < Len(t[n].path)
<1>1. Leads(s, t, k, n) BY DEF Shape
<1> PICK f \in Frames : f = t[k]
  BY DEF Shape
<1> PICK g \in Frames : g = t[n]
  BY DEF Shape
<1>2. /\ f.step \in Nodes /\ f.path \in PathSet /\ f.item \in Nat /\ g.path \in PathSet
      /\ f.next - 1 \in DOMAIN s.body[f.step]
  BY <1>1 DEF Frames, Leads
<1> PICK x \in Nodes : x = f.step
  BY <1>2
<1> PICK p \in PathSet : p = f.path
  BY <1>2
<1> PICK q \in PathSet : q = g.path
  BY <1>2
<1> PICK m \in DOMAIN s.body[x] : m = f.next - 1
  BY <1>2
<1> PICK j \in Nat : j = f.item
  BY <1>2
<1>3. IsPrefix(Child(s, x, p, j, m), q) BY <1>1 DEF Leads
<1>4. IsPrefix(p, q) /\ Len(p) < Len(q) BY <1>3, ChildNests
<1> QED BY <1>4

\* The path of the step around the one under way.
LEMMA FrontPath ==
    ASSUME StackInv, Len(stack) > 1, NEW p, p = LastOf(Front(stack)).path
    PROVE  /\ p \in PathSet /\ LastOf(stack).path \in PathSet
           /\ IsPrefix(p, LastOf(stack).path)
<1>1. stack \in Seq(Frames) /\ Len(stack) \in Nat BY TopIsTyped
<1>2. Popped(stack, Front(stack)) BY <1>1, LastPopped
<1>3. LastOf(Front(stack)) = stack[Len(stack) - 1]
  <2> PICK d \in Nat : d = Len(stack)
    BY <1>1
  <2>1. Len(Front(stack)) = d - 1 /\ Front(stack)[d - 1] = stack[d - 1]
    BY <1>2 DEF Popped, Below
  <2> QED BY <2>1 DEF LastOf
<1>4. Shape(script, stack) /\ script \in Script BY TopIsTyped DEF StackInv
<1>5. Len(stack) \in 1 .. Len(stack) /\ Len(stack) - 1 \in 1 .. Len(stack) - 1 BY <1>1
<1> QED BY <1>3, <1>4, <1>5, PathsNest DEF LastOf

-------------------------------------------------------------------------------
(* The first failure ends the run                                            *)

RecordSet == [path : PathSet, status : Statuses]

NoFailure(r) == \A i \in DOMAIN r : r[i].status # "failed"

\* What failed is p, or part of it.
Under(r, p) == \A i \in DOMAIN r : r[i].status = "failed" => IsPrefix(p, r[i].path)

Final(r) ==
    \A i \in DOMAIN r : r[i].status = "failed" =>
        \A j \in i + 1 .. Len(r) : r[j].status = "failed" /\ IsPrefix(r[j].path, r[i].path)

\* After a failure the run is over, or the listener is told of a step that failed
\* because of it.
FailInv ==
    /\ Final(records)
    /\ \/ NoFailure(records)
       \/ result = "failed"
       \/ at = "step.failed" /\ Under(records, LastOf(stack).path)

LEMMA RecordAdded ==
    ASSUME NEW r \in Seq(RecordSet), NEW e \in RecordSet, NEW q, q = Append(r, e)
    PROVE  /\ q \in Seq(RecordSet) /\ Len(r) \in Nat /\ Len(q) = Len(r) + 1
           /\ DOMAIN r = 1 .. Len(r) /\ DOMAIN q = 1 .. Len(r) + 1
           /\ \A i \in 1 .. Len(r) : q[i] = r[i]
           /\ q[Len(r) + 1] = e
  OBVIOUS

LEMMA FailureAdded ==
    ASSUME NEW r \in Seq(RecordSet), Final(r), NEW p \in PathSet, Under(r, p),
           NEW q, q = Append(r, [path |-> p, status |-> "failed"])
    PROVE  Final(q) /\ Under(q, p)
<1> DEFINE e == [path |-> p, status |-> "failed"]
<1>1. e \in RecordSet /\ e.path = p /\ e.status = "failed" BY DEF RecordSet, Statuses
<1>2. q = Append(r, e) OBVIOUS
<1> HIDE DEF e
<1> PICK n \in Nat : n = Len(r)
  OBVIOUS
<1>3. /\ Len(q) = n + 1 /\ DOMAIN r = 1 .. n /\ DOMAIN q = 1 .. n + 1
      /\ \A i \in 1 .. n : q[i] = r[i]
      /\ q[n + 1] = e
  BY <1>1, <1>2, RecordAdded
<1>4. IsPrefix(p, p) BY PrefixOrder DEF PathSet
<1>5. ASSUME NEW i \in 1 .. n + 1, q[i].status = "failed" PROVE IsPrefix(p, q[i].path)
  <2>1. i \in 1 .. n => IsPrefix(p, q[i].path) BY <1>3, <1>5 DEF Under
  <2>2. i = n + 1 => IsPrefix(p, q[i].path) BY <1>1, <1>3, <1>4
  <2> QED BY <2>1, <2>2
<1>6. ASSUME NEW i \in 1 .. n + 1, q[i].status = "failed", NEW j \in i + 1 .. n + 1
      PROVE  q[j].status = "failed" /\ IsPrefix(q[j].path, q[i].path)
  <2>1. CASE j \in 1 .. n
    <3>1. i \in 1 .. n BY <2>1, <1>6
    <3>2. q[i] = r[i] /\ q[j] = r[j] BY <1>3, <2>1, <3>1
    <3>3. r[j].status = "failed" /\ IsPrefix(r[j].path, r[i].path)
      <4>1. i \in DOMAIN r /\ r[i].status = "failed" /\ j \in i + 1 .. Len(r)
        BY <1>3, <1>6, <2>1, <3>1, <3>2
      <4> QED BY <4>1 DEF Final
    <3> QED BY <3>2, <3>3
  <2>2. CASE j = n + 1 BY <1>1, <1>3, <1>5, <1>6, <2>2
  <2> QED BY <2>1, <2>2, <1>6
<1> QED BY <1>3, <1>5, <1>6 DEF Final, Under

LEMMA NoneIsFinal == ASSUME NEW r, NoFailure(r) PROVE Final(r) /\ \A p : Under(r, p)
BY DEF NoFailure, Final, Under

LEMMA NoneAdded ==
    ASSUME NEW r \in Seq(RecordSet), NoFailure(r), NEW p \in PathSet,
           NEW e \in {"completed", "skipped"},
           NEW q, q = Append(r, [path |-> p, status |-> e])
    PROVE  NoFailure(q)
<1> DEFINE d == [path |-> p, status |-> e]
<1>1. d \in RecordSet /\ d.status # "failed" BY DEF RecordSet, Statuses
<1>2. q = Append(r, d) OBVIOUS
<1> HIDE DEF d
<1> PICK n \in Nat : n = Len(r)
  OBVIOUS
<1>3. /\ DOMAIN r = 1 .. n /\ DOMAIN q = 1 .. n + 1 /\ q[n + 1] = d
      /\ \A i \in 1 .. n : q[i] = r[i]
  BY <1>1, <1>2, RecordAdded
<1> SUFFICES ASSUME NEW i \in 1 .. n + 1 PROVE q[i].status # "failed"
  BY <1>3 DEF NoFailure
<1>4. i \in 1 .. n => r[i].status # "failed" BY <1>3 DEF NoFailure
<1> QED BY <1>1, <1>3, <1>4

LEMMA FailNext == ASSUME StackInv, StackInv', FailInv, [Next]_vars PROVE FailInv'
<1> PICK r \in Seq(RecordSet) : r = records
  BY DEF StackInv, RecordSet
<1> PICK q \in Seq(RecordSet) : q = records'
  BY DEF StackInv, RecordSet
<1>0. Moves /\ Final(r) BY NextMoves DEF FailInv
<1>1. result # "none" => at \in {"execution.finished"} \cup Over BY DEF StackInv
<1>2. at \in {"next", "step.started", "delay", "tool", "step.finished"} => result = "none" /\ NoFailure(r)
  BY <1>1 DEF FailInv, Over
<1>3. at = "execution.finished" /\ result = "completed" => NoFailure(r) BY DEF FailInv
<1>4. at \in Inner => Len(stack) > 1 BY DEF StackInv
<1>5. LastOf(stack).path \in PathSet
  <2>1. LastOf(stack) \in Frames BY TopIsTyped
  <2> QED BY <2>1 DEF Frames
<1>6. ASSUME NEW left, Throws(left), LastOf(left).path \in PathSet, Under(r, LastOf(left).path)
      PROVE  FailInv'
  <2>1. stack' = left BY <1>6 DEF Throws
  <2>2. CASE Len(left) > 1
    <3>1. q = Append(r, [path |-> LastOf(left).path, status |-> "failed"]) /\ at' = "step.failed"
      BY <1>6, <2>2 DEF Throws
    <3>2. Final(q) /\ Under(q, LastOf(left).path) BY <1>0, <1>6, <3>1, FailureAdded
    <3> QED BY <2>1, <3>1, <3>2 DEF FailInv
  <2>3. CASE ~ (Len(left) > 1)
    <3>1. result' = "failed" /\ q = r BY <1>6, <2>3 DEF Throws
    <3> QED BY <1>0, <3>1 DEF FailInv
  <2> QED BY <2>2, <2>3
<1>7. CASE Stays
  <2>1. UNCHANGED <<stack, records, result>> BY <1>7 DEF Stays
  <2>2. at' = at \/ at # "step.failed" BY <1>7 DEF Stays
  <2> QED BY <2>1, <2>2 DEF FailInv
<1>8. CASE Begins \/ Turns \/ Loops \/ Ends \/ Completes
  <2>1. at \in {"next", "step.started", "step.finished"} /\ q = r
    BY <1>8 DEF Begins, Turns, Loops, Ends, Completes
  <2>2. NoFailure(q) BY <1>2, <2>1
  <2> QED BY <1>0, <2>1, <2>2 DEF FailInv
<1>9. CASE Settles
  <2>1. at \in {"next", "step.started", "tool"} BY <1>9 DEF Settles
  <2>2. PICK e \in {"completed", "skipped"} :
           q = Append(r, [path |-> LastOf(stack).path, status |-> e])
    BY <1>9 DEF Settles
  <2>3. NoFailure(q) BY <1>2, <1>5, <2>1, <2>2, NoneAdded
  <2> QED BY <2>3, NoneIsFinal DEF FailInv
<1>10. CASE Fails \/ FailsLate
  <2>1. CASE /\ Throws(stack)
             /\ \/ at \in {"next", "step.started", "delay", "tool", "step.finished"}
                \/ at = "execution.finished" /\ result = "completed"
    <3>1. NoFailure(r) BY <1>2, <1>3, <2>1
    <3> QED BY <1>5, <1>6, <2>1, <3>1, NoneIsFinal
  <2>2. CASE Throws(Front(stack)) /\ at \in {"step.started", "step.failed"}
    <3> PICK p : p = LastOf(Front(stack)).path
      OBVIOUS
    <3>1. Len(stack) > 1 BY <1>4, <2>2 DEF Inner
    <3>2. p \in PathSet /\ IsPrefix(p, LastOf(stack).path) BY <3>1, FrontPath
    <3>3. NoFailure(r) \/ Under(r, LastOf(stack).path)
      BY <1>1, <1>2, <2>2 DEF FailInv, Over
    <3>4. Under(r, p)
      <4>1. CASE NoFailure(r) BY <4>1, NoneIsFinal
      <4>2. CASE Under(r, LastOf(stack).path)
        <5> SUFFICES ASSUME NEW i \in DOMAIN r, r[i].status = "failed"
                     PROVE  IsPrefix(p, r[i].path)
          BY DEF Under
        <5>1. IsPrefix(LastOf(stack).path, r[i].path) BY <4>2 DEF Under
        <5>2. r[i].path \in PathSet
          <6>1. r[i] \in RecordSet OBVIOUS
          <6> QED BY <6>1 DEF RecordSet
        <5> QED BY <1>5, <3>2, <5>1, <5>2, PrefixOrder DEF PathSet
      <4> QED BY <3>3, <4>1, <4>2
    <3> QED BY <1>6, <2>2, <3>2, <3>4
  <2> QED BY <1>10, <2>1, <2>2 DEF Fails, FailsLate
<1> QED BY <1>0, <1>7, <1>8, <1>9, <1>10 DEF Moves

\* The first failure ends a run: the steps around what failed fail too, from the inside
\* outwards, nothing else is recorded, and the run has not completed.
\* (skillScriptEngine.ts: the catch block of runStepWithLifecycle, finishFailedStep, run)
THEOREM FailureEndsRun == Spec => []FailureIsFinal
<1>1. Init => StackInv /\ FailInv
  <2>1. Init => NoFailure(records) BY DEF Init, NoFailure
  <2> QED BY <2>1, StackInit, NoneIsFinal DEF FailInv
<1>2. StackInv /\ FailInv /\ [Next]_vars => (StackInv /\ FailInv)' BY StackNext, FailNext
<1>3. StackInv /\ FailInv => FailureIsFinal
  <2> SUFFICES ASSUME StackInv, FailInv, NEW i \in DOMAIN records, records[i].status = "failed"
               PROVE  /\ result # "completed"
                      /\ \A j \in i + 1 .. Len(records) :
                            /\ records[j].status = "failed"
                            /\ IsPrefix(records[j].path, records[i].path)
    BY DEF FailureIsFinal
  <2>1. result = "completed" => at # "step.failed" BY DEF StackInv, Over
  <2>2. ~ NoFailure(records) BY DEF NoFailure
  <2> QED BY <2>1, <2>2 DEF FailInv, Final
<1> QED BY <1>1, <1>2, <1>3, PTL DEF Spec

-------------------------------------------------------------------------------
(* Every step that was begun has its record                                  *)

\* p is, or is part of, a substep that f has begun.
Done(s, f, p) ==
    \E j \in Nat \ {0} : \E m \in DOMAIN s.body[f.step] :
        /\ j < f.item \/ (j = f.item /\ m < f.next)
        /\ IsPrefix(Child(s, f.step, f.path, j, m), p)

\* The first n steps under way are without a record, and what is recorded of their
\* substeps are those that have begun.
Clear(s, t, n, P) ==
    \A k \in 1 .. n : \A p \in P :
        /\ ~ IsPrefix(p, t[k].path)
        /\ IsPrefix(t[k].path, p) => Done(s, t[k], p)

StackPaths(t) == {t[k].path : k \in 2 .. Len(t)}

\* The steps under way that have no record yet.
OpenCount == IF at \in {"step.finished", "step.failed"} THEN Len(stack) - 1 ELSE Len(stack)

InOrder(r) == \A i, j \in DOMAIN r : i < j => ~ IsPrefix(r[i].path, r[j].path)

PathsOf(r) == {r[i].path : i \in DOMAIN r}

RecordInv ==
    refused = 0 =>
        /\ started = Paths \cup StackPaths(stack)
        /\ at \in {"step.finished", "step.failed"} => LastOf(stack).path \in Paths
        /\ Clear(script, stack, OpenCount, Paths)
        /\ InOrder(records)

\* The next substep of f has not begun.
LEMMA FreshChild ==
    ASSUME NEW s \in Script, IsTree(s), Valid(s), NEW f \in Frames,
           f.step \in InScript(s) \cup {Root}, f.next \in DOMAIN s.body[f.step],
           ~ Foreach(s, f.step) => f.item = 1,
           NEW q \in PathSet, IsPrefix(Child(s, f.step, f.path, f.item, f.next), q)
    PROVE  ~ Done(s, f, q)
<1> SUFFICES ASSUME NEW j \in Nat \ {0}, NEW m \in DOMAIN s.body[f.step],
                    j < f.item \/ (j = f.item /\ m < f.next),
                    IsPrefix(Child(s, f.step, f.path, j, m), q)
             PROVE  FALSE
  BY DEF Done
<1>1. f.path \in PathSet /\ f.item \in Nat \ {0} /\ f.next \in Nat BY DEF Frames
<1>2. Foreach(s, f.step) \/ j = f.item BY <1>1
<1>3. j = f.item /\ m = f.next BY <1>1, <1>2, ChildrenDiffer
<1> QED BY <1>1, <1>3

LEMMA PushClears ==
    ASSUME NEW s \in Script, IsTree(s), Valid(s), NEW t, Shape(s, t), NEW u, Pushed(s, t, u),
           NEW P \in SUBSET PathSet, Clear(s, t, Len(t), P)
    PROVE  Clear(s, u, Len(t) + 1, P) /\ StackPaths(u) = StackPaths(t) \cup {u[Len(t) + 1].path}
<1> PICK d \in Nat \ {0} : d = Len(t)
  BY DEF Shape
<1> PICK f \in Frames : f = t[d]
  BY DEF Shape
<1> PICK g \in Frames : g = u[d]
  BY DEF Pushed
<1> PICK h \in Frames : h = u[d + 1]
  BY DEF Pushed
<1>1. /\ u \in Seq(Frames) /\ Len(u) = d + 1 /\ \A k \in 1 .. d - 1 : u[k] = t[k]
      /\ f.next \in DOMAIN s.body[f.step]
      /\ g.step = f.step /\ g.path = f.path /\ g.next = f.next + 1 /\ g.item = f.item
      /\ h.path = Child(s, f.step, f.path, f.item, f.next)
  BY DEF Pushed, Below
<1>2. /\ f.step \in Nodes /\ f.path \in PathSet /\ f.item \in Nat \ {0} /\ f.next \in Nat
      /\ h.path \in PathSet
  BY DEF Frames
<1>3. f.step \in InScript(s) \cup {Root} /\ (~ Foreach(s, f.step) => f.item = 1)
  BY DEF Shape
<1>4. ASSUME NEW q \in PathSet, IsPrefix(h.path, q) PROVE ~ Done(s, f, q)
  BY <1>1, <1>3, <1>4, FreshChild
<1>5. IsPrefix(f.path, h.path) /\ IsPrefix(h.path, h.path)
  <2>1. IsPrefix(h.path, h.path) BY <1>2, PrefixOrder DEF PathSet
  <2>2. IsPrefix(Child(s, f.step, f.path, f.item, f.next), h.path) BY <1>1, <2>1
  <2>3. f.item \in Nat BY <1>2
  <2> QED BY <1>1, <1>2, <2>1, <2>2, <2>3, ChildNests
<1>6. ASSUME NEW p \in P
      PROVE  ~ IsPrefix(p, h.path) /\ ~ IsPrefix(h.path, p)
  <2>0. p \in PathSet OBVIOUS
  <2>1. ~ IsPrefix(p, f.path) /\ (IsPrefix(f.path, p) => Done(s, f, p))
    BY DEF Clear
  <2>2. ASSUME IsPrefix(p, h.path) PROVE FALSE
    <3>1. IsPrefix(f.path, p) BY <1>2, <1>5, <2>0, <2>1, <2>2, PrefixOrder DEF PathSet
    <3>2. PICK j \in Nat \ {0}, m \in DOMAIN s.body[f.step] :
             /\ j < f.item \/ (j = f.item /\ m < f.next)
             /\ IsPrefix(Child(s, f.step, f.path, j, m), p)
      BY <2>1, <3>1 DEF Done
    <3> PICK c : c = Child(s, f.step, f.path, j, m)
      OBVIOUS
    <3>3. c \in PathSet
      <4>1. j \in Nat OBVIOUS
      <4> QED BY <1>2, <4>1, ChildPaths
    <3>4. IsPrefix(c, h.path) BY <1>2, <2>0, <2>2, <3>2, <3>3, PrefixOrder DEF PathSet
    <3>5. Done(s, f, h.path) BY <3>2, <3>4 DEF Done
    <3> QED BY <1>2, <1>4, <1>5, <3>5
  <2>3. ASSUME IsPrefix(h.path, p) PROVE FALSE
    <3>1. IsPrefix(f.path, p) BY <1>2, <1>5, <2>0, <2>3, PrefixOrder DEF PathSet
    <3> QED BY <1>4, <2>0, <2>1, <2>3, <3>1
  <2> QED BY <2>2, <2>3
<1>7. Clear(s, u, d + 1, P)
  <2> SUFFICES ASSUME NEW k \in 1 .. d + 1, NEW p \in P
               PROVE  /\ ~ IsPrefix(p, u[k].path)
                      /\ IsPrefix(u[k].path, p) => Done(s, u[k], p)
    BY DEF Clear
  <2>1. k <= d => ~ IsPrefix(p, t[k].path) /\ (IsPrefix(t[k].path, p) => Done(s, t[k], p))
    BY DEF Clear
  <2>2. CASE k < d
    <3>1. u[k] = t[k] BY <1>1, <2>2
    <3> QED BY <2>1, <2>2, <3>1
  <2>3. CASE k = d
    <3>1. ASSUME Done(s, f, p) PROVE Done(s, g, p)
      <4>1. PICK j \in Nat \ {0}, m \in DOMAIN s.body[f.step] :
               /\ j < f.item \/ (j = f.item /\ m < f.next)
               /\ IsPrefix(Child(s, f.step, f.path, j, m), p)
        BY <3>1 DEF Done
      <4>2. m \in Nat
        <5>1. s.body[f.step] \in Seq(Steps) BY <1>2 DEF Script
        <5> QED BY <5>1
      <4>3. j < g.item \/ (j = g.item /\ m < g.next) BY <1>1, <1>2, <4>1, <4>2
      <4> QED BY <1>1, <4>1, <4>3 DEF Done
    <3> QED BY <1>1, <2>1, <2>3, <3>1
  <2>4. CASE k = d + 1 BY <1>6, <2>4
  <2> QED BY <2>2, <2>3, <2>4
<1>8. StackPaths(u) = StackPaths(t) \cup {h.path}
  <2>1. \A k \in 2 .. d : u[k].path = t[k].path BY <1>1
  <2>2. \A k \in 2 .. d + 1 : k \in 2 .. d \/ k = d + 1 BY <1>1
  <2>3. d + 1 \in 2 .. d + 1 /\ \A k \in 2 .. d : k \in 2 .. d + 1 OBVIOUS
  <2>4. StackPaths(u) = {u[k].path : k \in 2 .. d + 1} BY <1>1 DEF StackPaths
  <2>5. StackPaths(t) = {t[k].path : k \in 2 .. d} BY DEF StackPaths
  <2> QED BY <2>1, <2>2, <2>3, <2>4, <2>5
<1> QED BY <1>7, <1>8

LEMMA TopClears ==
    ASSUME NEW s \in Script, NEW t, Shape(s, t), NEW u, NEW c,
           Turned(s, t, u, c) \/ Looped(s, t, u, c),
           NEW P \in SUBSET PathSet, Clear(s, t, Len(t), P)
    PROVE  Clear(s, u, Len(t), P) /\ StackPaths(u) = StackPaths(t)
<1> PICK d \in Nat \ {0} : d = Len(t)
  BY DEF Shape
<1> PICK f \in Frames : f = t[d]
  BY DEF Shape
<1> PICK g \in Frames : g = u[d]
  BY DEF Turned, Looped
<1>1. /\ u \in Seq(Frames) /\ Len(u) = d /\ \A k \in 1 .. d - 1 : u[k] = t[k]
      /\ g.step = f.step /\ g.path = f.path
      /\ g.item = f.item + 1 \/ (g.item = f.item /\ g.next = f.next)
  BY DEF Turned, Looped, Below
<1>2. f.item \in Nat BY DEF Frames
<1>3. ASSUME NEW p, Done(s, f, p) PROVE Done(s, g, p)
  <2>1. PICK j \in Nat \ {0}, m \in DOMAIN s.body[f.step] :
           /\ j < f.item \/ (j = f.item /\ m < f.next)
           /\ IsPrefix(Child(s, f.step, f.path, j, m), p)
    BY <1>3 DEF Done
  <2>2. j < g.item \/ (j = g.item /\ m < g.next) BY <1>1, <1>2, <2>1
  <2> QED BY <1>1, <2>1, <2>2 DEF Done
<1>4. Clear(s, u, d, P)
  <2> SUFFICES ASSUME NEW k \in 1 .. d, NEW p \in P
               PROVE  /\ ~ IsPrefix(p, u[k].path)
                      /\ IsPrefix(u[k].path, p) => Done(s, u[k], p)
    BY DEF Clear
  <2>1. ~ IsPrefix(p, t[k].path) /\ (IsPrefix(t[k].path, p) => Done(s, t[k], p))
    BY DEF Clear
  <2>2. CASE k < d
    <3>1. u[k] = t[k] BY <1>1, <2>2
    <3> QED BY <2>1, <3>1
  <2>3. CASE k = d BY <1>1, <1>3, <2>1, <2>3
  <2> QED BY <2>2, <2>3
<1>5. StackPaths(u) = StackPaths(t)
  <2>1. \A k \in 2 .. d : u[k].path = t[k].path BY <1>1
  <2> QED BY <1>1, <2>1 DEF StackPaths
<1> QED BY <1>4, <1>5

LEMMA PopClears ==
    ASSUME NEW s \in Script, NEW t, Shape(s, t), Len(t) > 1, NEW u, Popped(t, u),
           NEW P, Clear(s, t, Len(t) - 1, P)
    PROVE  /\ Clear(s, u, Len(t) - 1, P)
           /\ StackPaths(t) = StackPaths(u) \cup {LastOf(t).path}
<1> PICK d \in Nat \ {0} : d = Len(t)
  BY DEF Shape
<1>1. Len(u) = d - 1 /\ \A k \in 1 .. d - 1 : u[k] = t[k] BY DEF Popped, Below
<1>2. Clear(s, u, d - 1, P) BY <1>1 DEF Clear
<1>3. StackPaths(u) = {t[k].path : k \in 2 .. d - 1}
  <2>1. \A k \in 2 .. d - 1 : u[k].path = t[k].path BY <1>1
  <2> QED BY <1>1, <2>1 DEF StackPaths
<1>4. StackPaths(t) = {t[k].path : k \in 2 .. d} BY DEF StackPaths
<1>5. \A k \in 2 .. d : k \in 2 .. d - 1 \/ k = d OBVIOUS
<1>6. d \in 2 .. d /\ \A k \in 2 .. d - 1 : k \in 2 .. d OBVIOUS
<1> QED BY <1>2, <1>3, <1>4, <1>5, <1>6 DEF LastOf

\* The innermost open step gets its record.
LEMMA RecordClears ==
    ASSUME NEW s \in Script, NEW t, Shape(s, t), NEW n \in 2 .. Len(t),
           NEW P \in SUBSET PathSet, Clear(s, t, n, P)
    PROVE  Clear(s, t, n - 1, P \cup {t[n].path})
<1> SUFFICES ASSUME NEW k \in 1 .. n - 1, NEW p \in P \cup {t[n].path}
             PROVE  /\ ~ IsPrefix(p, t[k].path)
                    /\ IsPrefix(t[k].path, p) => Done(s, t[k], p)
  BY DEF Clear
<1>0. Len(t) \in Nat BY DEF Shape
<1>1. CASE p \in P
  <2>1. k \in 1 .. n BY <1>0
  <2> QED BY <1>1, <2>1 DEF Clear
<1>2. CASE p = t[n].path
  <2>1. n \in 1 .. Len(t) /\ k \in 1 .. Len(t) BY <1>0
  <2>2. /\ t[k].path \in PathSet /\ p \in PathSet /\ IsPrefix(t[k].path, p)
        /\ Len(t[k].path) < Len(p)
    BY <1>2, <2>1, PathsNest
  <2>3. ~ IsPrefix(p, t[k].path)
    <3>1. Len(p) \in Nat /\ Len(t[k].path) \in Nat BY <2>2 DEF PathSet
    <3>2. IsPrefix(p, t[k].path) => Len(p) <= Len(t[k].path)
      BY <2>2, PrefixOrder DEF PathSet
    <3> QED BY <2>2, <3>1, <3>2
  <2>4. Done(s, t[k], p)
    <3> PICK f \in Frames : f = t[k]
      BY <2>1 DEF Shape
    <3>1. /\ f.next - 1 \in DOMAIN s.body[f.step]
          /\ IsPrefix(Child(s, f.step, f.path, f.item, f.next - 1), p)
      BY <1>2, <2>1 DEF Shape, Leads
    <3>2. f.item \in Nat \ {0} /\ f.next \in Nat BY DEF Frames
    <3>3. f.next - 1 < f.next BY <3>2
    <3> QED BY <3>1, <3>2, <3>3 DEF Done
  <2> QED BY <2>3, <2>4
<1> QED BY <1>1, <1>2

Recorded(r, p, e) == Append(r, [path |-> p, status |-> e])

\* The record of an open step keeps the records in order.
LEMMA RecordOrders ==
    ASSUME NEW r \in Seq(RecordSet), InOrder(r), NEW p \in PathSet, NEW e \in Statuses,
           \A i \in DOMAIN r : ~ IsPrefix(r[i].path, p)
    PROVE  /\ InOrder(Recorded(r, p, e))
           /\ PathsOf(Recorded(r, p, e)) = PathsOf(r) \cup {p}
<1> PICK q : q = Recorded(r, p, e)
  OBVIOUS
<1> DEFINE d == [path |-> p, status |-> e]
<1>1. d \in RecordSet /\ d.path = p BY DEF RecordSet
<1>2. q = Append(r, d) BY DEF Recorded
<1> HIDE DEF d
<1> PICK n \in Nat : n = Len(r)
  OBVIOUS
<1>3. /\ DOMAIN r = 1 .. n /\ DOMAIN q = 1 .. n + 1 /\ q[n + 1] = d
      /\ \A i \in 1 .. n : q[i] = r[i]
  BY <1>1, <1>2, RecordAdded
<1>4. InOrder(q)
  <2> SUFFICES ASSUME NEW i \in 1 .. n + 1, NEW j \in 1 .. n + 1, i < j
               PROVE  ~ IsPrefix(q[i].path, q[j].path)
    BY <1>3 DEF InOrder
  <2>1. i \in 1 .. n OBVIOUS
  <2>2. j \in 1 .. n => ~ IsPrefix(r[i].path, r[j].path) BY <1>3, <2>1 DEF InOrder
  <2>3. j = n + 1 => ~ IsPrefix(r[i].path, p) BY <1>3, <2>1
  <2> QED BY <1>1, <1>3, <2>1, <2>2, <2>3
<1>5. PathsOf(q) = PathsOf(r) \cup {p}
  <2>1. \A i \in 1 .. n + 1 : i \in 1 .. n \/ i = n + 1 OBVIOUS
  <2>2. n + 1 \in 1 .. n + 1 /\ \A i \in 1 .. n : i \in 1 .. n + 1 OBVIOUS
  <2>3. PathsOf(q) = {q[i].path : i \in 1 .. n + 1} /\ PathsOf(r) = {r[i].path : i \in 1 .. n}
    BY <1>3 DEF PathsOf
  <2> QED BY <1>1, <1>3, <2>1, <2>2, <2>3
<1> QED BY <1>4, <1>5

LEMMA RecordNext == ASSUME StackInv, StackInv', RecordInv, [Next]_vars PROVE RecordInv'
<1> SUFFICES ASSUME refused' = 0
             PROVE  /\ started' = Paths' \cup StackPaths(stack')
                    /\ at' \in {"step.finished", "step.failed"} => LastOf(stack').path \in Paths'
                    /\ Clear(script', stack', OpenCount', Paths')
                    /\ InOrder(records')
  BY DEF RecordInv
<1> PICK s \in Script : s = script
  BY TopIsTyped
<1> PICK t : t = stack
  OBVIOUS
<1> PICK u : u = stack'
  OBVIOUS
<1> PICK r \in Seq(RecordSet) : r = records
  BY DEF StackInv, RecordSet
<1> PICK q \in Seq(RecordSet) : q = records'
  BY DEF StackInv, RecordSet
<1> PICK P : P = PathsOf(r)
  OBVIOUS
<1> PICK Q : Q = PathsOf(q)
  OBVIOUS
<1> PICK n : n = OpenCount
  OBVIOUS
<1>0. Paths = P /\ Paths' = Q BY DEF Paths, PathsOf
<1>1. /\ Moves /\ s = script' /\ refused = 0
      /\ Shape(s, t) /\ t \in Seq(Frames) /\ Len(t) \in Nat \ {0}
  <2>1. Moves /\ script' = script /\ refused' \in {refused, refused + 1} BY NextMoves
  <2>2. refused \in Nat /\ Shape(s, t) BY DEF StackInv
  <2>3. refused = 0 BY <2>1, <2>2
  <2> QED BY <2>1, <2>2, <2>3, TopIsTyped
<1>2. /\ started = P \cup StackPaths(t)
      /\ at \in {"step.finished", "step.failed"} => LastOf(t).path \in P
      /\ Clear(s, t, n, P) /\ InOrder(r)
  BY <1>0, <1>1 DEF RecordInv
<1>3. P \in SUBSET PathSet
  <2>1. \A i \in DOMAIN r : r[i] \in RecordSet OBVIOUS
  <2> QED BY <2>1 DEF RecordSet, PathsOf
<1>4. at \notin {"step.finished", "step.failed"} => n = Len(t) BY DEF OpenCount
<1>5. at \in {"step.finished", "step.failed"} => n = Len(t) - 1 BY DEF OpenCount
<1>6. at \in Inner => Len(t) > 1 BY DEF StackInv
<1>7. at \notin {"new", "rejected"} => Valid(s) /\ IsTree(s)
  BY SkillScriptAssumption DEF StackInv
<1> DEFINE Goal(v, m) ==
       /\ started' = Q \cup StackPaths(v)
       /\ at' \in {"step.finished", "step.failed"} => LastOf(v).path \in Q
       /\ Clear(s, v, m, Q) /\ InOrder(q)
<1>8. ASSUME at' \notin {"step.finished", "step.failed"}, Goal(u, Len(u)) PROVE Goal(u, OpenCount')
  <2>1. OpenCount' = Len(u) BY <1>8 DEF OpenCount
  <2> QED BY <1>8, <2>1
<1>9. ASSUME at' \in {"step.finished", "step.failed"}, Goal(u, Len(u) - 1) PROVE Goal(u, OpenCount')
  <2>1. OpenCount' = Len(u) - 1 BY <1>9 DEF OpenCount
  <2> QED BY <1>9, <2>1
\* The innermost step of v gets its record.
<1>10. ASSUME NEW v, Shape(s, v), Len(v) > 1, Clear(s, v, Len(v), P),
              started = P \cup StackPaths(v), u = v, started' = started,
              NEW e \in Statuses, q = Append(r, [path |-> LastOf(v).path, status |-> e])
       PROVE  Goal(u, Len(u) - 1)
  <2>1. v \in Seq(Frames) /\ Len(v) \in Nat BY <1>10 DEF Shape
  <2> PICK d \in Nat : d = Len(v)
    BY <2>1
  <2>2. LastOf(v) \in Frames BY <1>10, <2>1 DEF LastOf
  <2> PICK p \in PathSet : p = LastOf(v).path
    BY <2>2 DEF Frames
  <2>3. v[d].path = p /\ d \in 2 .. Len(v) /\ d \in 1 .. Len(v) BY <1>10 DEF LastOf
  <2>4. \A i \in DOMAIN r : ~ IsPrefix(r[i].path, p)
    <3> TAKE i \in DOMAIN r
    <3>1. r[i].path \in P BY DEF PathsOf
    <3> QED BY <1>10, <2>3, <3>1 DEF Clear
  <2>5. InOrder(q) /\ Q = P \cup {p}
    <3>1. q = Recorded(r, p, e) BY <1>10 DEF Recorded
    <3>2. InOrder(r) BY <1>2
    <3>3. InOrder(Recorded(r, p, e)) /\ PathsOf(Recorded(r, p, e)) = PathsOf(r) \cup {p}
      BY <2>4, <3>2, RecordOrders
    <3> QED BY <3>1, <3>3
  <2>6. Clear(s, v, d - 1, Q)
    <3>1. Clear(s, v, d, P) BY <1>10
    <3>2. Clear(s, v, d - 1, P \cup {v[d].path}) BY <1>3, <1>10, <2>3, <3>1, RecordClears
    <3> QED BY <2>3, <2>5, <3>2
  <2>7. p \in StackPaths(v) BY <2>3 DEF StackPaths
  <2>8. started' = Q \cup StackPaths(v) BY <1>10, <2>5, <2>7
  <2> QED BY <1>10, <2>5, <2>6, <2>8
<1>11. ASSUME NEW left, Throws(left), Shape(s, left), Clear(s, left, Len(left), P),
              started = P \cup StackPaths(left)
       PROVE  Goal(u, OpenCount')
  <2>1. u = left /\ started' = started BY <1>11 DEF Throws
  <2>2. CASE Len(left) > 1
    <3>1. /\ q = Append(r, [path |-> LastOf(left).path, status |-> "failed"])
          /\ at' = "step.failed"
      BY <1>11, <2>2 DEF Throws
    <3>2. "failed" \in Statuses BY DEF Statuses
    <3>3. Goal(u, Len(u) - 1) BY <1>10, <1>11, <2>1, <2>2, <3>1, <3>2
    <3> QED BY <1>9, <3>1, <3>3
  <2>3. CASE ~ (Len(left) > 1)
    <3>1. q = r /\ at' = "execution.finished" BY <1>11, <2>3 DEF Throws
    <3>2. Q = P BY <3>1
    <3>3. Goal(u, Len(u)) BY <1>2, <1>11, <2>1, <3>1, <3>2
    <3> QED BY <1>8, <3>1, <3>3
  <2> QED BY <2>2, <2>3
<1>12. Goal(u, OpenCount')
  <2>1. CASE Stays
    <3>1. u = t /\ q = r /\ started' = started BY <2>1 DEF Stays
    <3>2. \/ at' = at
          \/ /\ at \notin {"step.finished", "step.failed"}
             /\ at' \notin {"step.finished", "step.failed"}
      BY <2>1 DEF Stays
    <3>3. OpenCount' = n BY <3>1, <3>2 DEF OpenCount
    <3>4. at' \in {"step.finished", "step.failed"} => at' = at BY <3>2
    <3> QED BY <1>2, <3>1, <3>3, <3>4
  <2>2. CASE Begins
    <3>1. /\ at = "next" /\ at' = "step.started" /\ q = r
          /\ Pushed(s, t, u) /\ started' = started \cup {u[Len(t) + 1].path}
      BY <2>2 DEF Begins
    <3>2. /\ Clear(s, u, Len(t) + 1, P) /\ StackPaths(u) = StackPaths(t) \cup {u[Len(t) + 1].path}
      BY <1>1, <1>2, <1>3, <1>4, <1>7, <3>1, PushClears
    <3>3. Len(u) = Len(t) + 1 BY <3>1 DEF Pushed
    <3>4. started' = P \cup StackPaths(u) BY <1>2, <3>1, <3>2
    <3>5. Goal(u, Len(u)) BY <1>2, <3>1, <3>2, <3>3, <3>4
    <3> QED BY <1>8, <3>1, <3>5
  <2>3. CASE Turns \/ Loops
    <3>1. /\ at \in {"next", "step.started"} /\ at' = "next" /\ q = r /\ started' = started
      BY <2>3 DEF Turns, Loops
    <3>2. PICK c : Turned(s, t, u, c) \/ Looped(s, t, u, c)
      BY <2>3 DEF Turns, Loops
    <3>3. Clear(s, u, Len(t), P) /\ StackPaths(u) = StackPaths(t)
      BY <1>1, <1>2, <1>3, <1>4, <3>1, <3>2, TopClears
    <3>4. Len(u) = Len(t) BY <3>2 DEF Turned, Looped
    <3>5. Goal(u, Len(u)) BY <1>2, <3>1, <3>3, <3>4
    <3> QED BY <1>8, <3>1, <3>5
  <2>4. CASE Settles
    <3>1. /\ (at = "next" /\ Step # Root) \/ at \in {"step.started", "tool"}
          /\ at' = "step.finished" /\ u = t /\ started' = started
      BY <2>4 DEF Settles
    <3>2. PICK e \in Statuses : q = Append(r, [path |-> LastOf(t).path, status |-> e])
      BY <2>4 DEF Settles, Statuses
    <3>3. Len(t) > 1
      <4> PICK m \in Nat \ {0} : m = Len(t)
        BY <1>1
      <4>1. Step # Root => m # 1 BY TopIsTyped
      <4>2. Step # Root => m > 1 BY <4>1
      <4> QED BY <1>6, <3>1, <4>2 DEF Inner
    <3>4. Goal(u, Len(u) - 1) BY <1>1, <1>2, <1>4, <1>10, <3>1, <3>2, <3>3
    <3> QED BY <1>9, <3>1, <3>4
  <2>5. CASE Ends
    <3>1. /\ at = "step.finished" /\ at' = "next" /\ q = r /\ started' = started
          /\ Popped(t, u)
      BY <2>5 DEF Ends
    <3>2. Len(t) > 1 BY <1>6, <3>1 DEF Inner
    <3>3. Clear(s, u, Len(t) - 1, P) /\ StackPaths(t) = StackPaths(u) \cup {LastOf(t).path}
      BY <1>1, <1>2, <1>5, <3>1, <3>2, PopClears
    <3>4. Len(u) = Len(t) - 1 BY <3>1 DEF Popped
    <3>5. started' = P \cup StackPaths(u) BY <1>2, <3>1, <3>3
    <3>6. Goal(u, Len(u)) BY <1>2, <3>1, <3>3, <3>4, <3>5
    <3> QED BY <1>8, <3>1, <3>6
  <2>6. CASE Completes
    <3>1. /\ at = "next" /\ at' = "execution.finished" /\ u = t /\ q = r /\ started' = started
      BY <2>6 DEF Completes
    <3>2. Goal(u, Len(u)) BY <1>2, <1>4, <3>1
    <3> QED BY <1>8, <3>1, <3>2
  <2>7. CASE Fails
    <3>1. CASE at \in {"next", "step.started", "delay", "tool"} /\ Throws(stack)
      <4>1. Clear(s, t, Len(t), P) BY <1>2, <1>4, <3>1
      <4> QED BY <1>1, <1>2, <1>11, <3>1, <4>1
    <3>2. CASE at = "step.failed" /\ Throws(Front(stack))
      <4> PICK v : v = Front(t)
        OBVIOUS
      <4>1. Len(t) > 1 BY <1>6, <3>2 DEF Inner
      <4>2. Popped(t, v) BY <1>1, <4>1, LastPopped
      <4>3. Shape(s, v) BY <1>1, <4>1, <4>2, PopKeeps
      <4>4. /\ Clear(s, v, Len(t) - 1, P)
            /\ StackPaths(t) = StackPaths(v) \cup {LastOf(t).path}
        BY <1>1, <1>2, <1>5, <3>2, <4>1, <4>2, PopClears
      <4>5. Clear(s, v, Len(v), P) BY <4>2, <4>4 DEF Popped
      <4>6. started = P \cup StackPaths(v) BY <1>2, <3>2, <4>4
      <4>7. Throws(v) BY <3>2
      <4> QED BY <1>11, <4>3, <4>5, <4>6, <4>7
    <3> QED BY <2>7, <3>1, <3>2 DEF Fails
  <2>8. ~ FailsLate
    <3>1. ~ (refused' > 0) OBVIOUS
    <3> QED BY <3>1 DEF FailsLate
  <2> QED BY <1>1, <2>1, <2>2, <2>3, <2>4, <2>5, <2>6, <2>7, <2>8 DEF Moves
<1> QED BY <1>0, <1>1, <1>12

LEMMA RecordInit == ASSUME Init PROVE RecordInv
<1>1. StackInv BY StackInit
<1>2. records = <<>> /\ started = {} /\ at = "new" /\ Len(stack) = 1 BY DEF Init
<1>3. Paths = {} BY <1>2 DEF Paths
<1>4. StackPaths(stack) = {} BY <1>2 DEF StackPaths
<1>5. \A n : Clear(script, stack, n, Paths) BY <1>3 DEF Clear
<1>6. InOrder(records) BY <1>2 DEF InOrder
<1> QED BY <1>2, <1>3, <1>4, <1>5, <1>6 DEF RecordInv

\* As long as the listener takes what it is told, a run that ends has recorded every step
\* it began, and nothing else; no record has the path of an earlier one, nor does one of a
\* substep come after that of the step it is part of.
\* (skillScriptEngine.ts: executeStep, finishStep, finishFailedStep)
THEOREM EveryStepIsRecorded == Spec => []StartedAreRecorded
<1>1. Init => StackInv /\ RecordInv BY StackInit, RecordInit
<1>2. StackInv /\ RecordInv /\ [Next]_vars => (StackInv /\ RecordInv)'
  BY StackNext, RecordNext
<1>3. StackInv /\ RecordInv => StartedAreRecorded
  <2> SUFFICES ASSUME StackInv, RecordInv, refused = 0
               PROVE  /\ result # "none" => Paths = started
                      /\ InOrder(records)
    BY DEF StartedAreRecorded, InOrder
  <2>1. started = Paths \cup StackPaths(stack) /\ InOrder(records) BY DEF RecordInv
  <2>2. result # "none" => StackPaths(stack) = {}
    <3>1. result # "none" => Len(stack) = 1 BY DEF StackInv, Outer
    <3> QED BY <3>1 DEF StackPaths
  <2> QED BY <2>1, <2>2
<1> QED BY <1>1, <1>2, <1>3, PTL DEF Spec

-------------------------------------------------------------------------------
(* What a step reads                                                         *)

\* The copies of the steps under way are not newer than v.
Older(t, v) == \A k \in 1 .. Len(t) : \A o \in Outputs : t[k].copy[o] <= v[o]

\* Only the steps of a loop have a copy for their scope.
Copied(s, t) ==
    \A k \in 1 .. Len(t) : t[k].loop => \E i \in 2 .. k : s.kind[t[i].step] = "foreach"

ReadInv ==
    /\ \A o \in Outputs : values[o] <= calls
    /\ Older(stack, values) /\ Copied(script, stack)
    /\ at = "tool" => Resolvable
    /\ FailsToRead => ~ Resolvable

LEMMA ValuesGrow ==
    ASSUME StackInv, Stores, \A o \in Outputs : values[o] <= calls
    PROVE  /\ values' \in [Outputs -> Nat]
           /\ \A o \in Outputs : values[o] <= values'[o] /\ values'[o] <= calls'
<1>1. values \in [Outputs -> Nat] /\ calls \in Nat /\ calls' \in {calls, calls + 1}
  BY DEF StackInv, Stores
<1>2. CASE values' = values BY <1>1, <1>2
<1>3. ASSUME NEW o \in Outputs, values' = [values EXCEPT ![o] = calls], calls' = calls
      PROVE  /\ values' \in [Outputs -> Nat]
             /\ \A x \in Outputs : values[x] <= values'[x] /\ values'[x] <= calls'
  <2>1. values' \in [Outputs -> Nat] BY <1>1, <1>3
  <2>2. ASSUME NEW x \in Outputs PROVE values[x] <= values'[x] /\ values'[x] <= calls'
    <3>1. values[x] \in Nat /\ values[x] <= calls BY <1>1
    <3>2. values'[x] = calls \/ values'[x] = values[x] BY <1>1, <1>3
    <3> QED BY <1>1, <1>3, <3>1, <3>2
  <2> QED BY <2>1, <2>2
<1> QED BY <1>2, <1>3 DEF Stores

LEMMA StillOlder ==
    ASSUME NEW t \in Seq(Frames), NEW v \in [Outputs -> Nat], NEW w \in [Outputs -> Nat],
           Older(t, v), \A o \in Outputs : v[o] <= w[o]
    PROVE  Older(t, w)
<1> SUFFICES ASSUME NEW k \in 1 .. Len(t), NEW o \in Outputs PROVE t[k].copy[o] <= w[o]
  BY DEF Older
<1>1. t[k] \in Frames OBVIOUS
<1>2. t[k].copy[o] \in Nat BY <1>1 DEF Frames
<1>3. t[k].copy[o] <= v[o] BY DEF Older
<1> QED BY <1>2, <1>3

LEMMA PushCopies ==
    ASSUME NEW s \in Script, NEW t, Shape(s, t), NEW u, Pushed(s, t, u), NEW v,
           Older(t, v), Copied(s, t)
    PROVE  Older(u, v) /\ Copied(s, u)
<1> PICK d \in Nat \ {0} : d = Len(t)
  BY DEF Shape
<1>1. /\ Len(u) = d + 1 /\ \A k \in 1 .. d - 1 : u[k] = t[k]
      /\ u[d].step = t[d].step /\ u[d].copy = t[d].copy /\ u[d].loop = t[d].loop
      /\ u[d + 1].copy = t[d].copy /\ u[d + 1].loop = t[d].loop
  BY DEF Pushed, Below
<1>2. ASSUME NEW k \in 1 .. d + 1
      PROVE  \E i \in 1 .. d : i <= k /\ u[k].copy = t[i].copy /\ u[k].loop = t[i].loop
  <2>1. CASE k = d + 1 BY <1>1, <2>1
  <2>2. CASE k = d BY <1>1, <2>2
  <2>3. CASE k < d
    <3>1. u[k] = t[k] /\ k \in 1 .. d BY <1>1, <2>3
    <3> QED BY <3>1
  <2> QED BY <2>1, <2>2, <2>3
<1>3. \A k \in 1 .. d : u[k].step = t[k].step
  <2> TAKE k \in 1 .. d
  <2>1. CASE k = d BY <1>1, <2>1
  <2>2. CASE k < d
    <3>1. u[k] = t[k] BY <1>1, <2>2
    <3> QED BY <3>1
  <2> QED BY <2>1, <2>2
<1>4. Older(u, v)
  <2> SUFFICES ASSUME NEW k \in 1 .. d + 1, NEW o \in Outputs PROVE u[k].copy[o] <= v[o]
    BY <1>1 DEF Older
  <2>1. PICK i \in 1 .. d : u[k].copy = t[i].copy BY <1>2
  <2> QED BY <2>1 DEF Older
<1>5. Copied(s, u)
  <2> SUFFICES ASSUME NEW k \in 1 .. d + 1, u[k].loop
               PROVE  \E i \in 2 .. k : s.kind[u[i].step] = "foreach"
    BY <1>1 DEF Copied
  <2>1. PICK j \in 1 .. d : j <= k /\ t[j].loop BY <1>2
  <2>2. PICK i \in 2 .. j : s.kind[t[i].step] = "foreach" BY <2>1 DEF Copied
  <2>3. i \in 2 .. k /\ i \in 1 .. d BY <2>1
  <2> QED BY <1>3, <2>2, <2>3
<1> QED BY <1>4, <1>5

LEMMA TopCopies ==
    ASSUME NEW s \in Script, NEW t, Shape(s, t), Len(t) > 1, NEW u, NEW c,
           Turned(s, t, u, c) \/ Looped(s, t, u, c), NEW v,
           Older(t, v), Copied(s, t), \A o \in Outputs : c[o] <= v[o]
    PROVE  Older(u, v) /\ Copied(s, u)
<1> PICK d \in Nat \ {0} : d = Len(t)
  BY DEF Shape
<1>1. /\ Len(u) = d /\ \A k \in 1 .. d - 1 : u[k] = t[k]
      /\ u[d].step = t[d].step /\ u[d].copy = c
      /\ (u[d].loop => t[d].loop) \/ Foreach(s, t[d].step)
  <2>1. CASE Turned(s, t, u, c) BY <2>1 DEF Turned, Below
  <2>2. CASE Looped(s, t, u, c) BY <2>2 DEF Looped, Below
  <2> QED BY <2>1, <2>2
<1>2. Older(u, v)
  <2> SUFFICES ASSUME NEW k \in 1 .. d, NEW o \in Outputs PROVE u[k].copy[o] <= v[o]
    BY <1>1 DEF Older
  <2>1. k < d => u[k] = t[k] BY <1>1
  <2>2. t[k].copy[o] <= v[o] BY DEF Older
  <2> QED BY <1>1, <2>1, <2>2
<1>3. \A k \in 1 .. d : u[k].step = t[k].step
  <2> TAKE k \in 1 .. d
  <2>1. k < d => u[k] = t[k] BY <1>1
  <2> QED BY <1>1, <2>1
<1>4. Copied(s, u)
  <2> SUFFICES ASSUME NEW k \in 1 .. d, u[k].loop
               PROVE  \E i \in 2 .. k : s.kind[u[i].step] = "foreach"
    BY <1>1 DEF Copied
  <2>1. CASE t[k].loop
    <3>1. PICK i \in 2 .. k : s.kind[t[i].step] = "foreach" BY <2>1 DEF Copied
    <3>2. i \in 1 .. d OBVIOUS
    <3> QED BY <1>3, <3>1, <3>2
  <2>2. CASE ~ t[k].loop
    <3>1. k < d => u[k] = t[k] BY <1>1
    <3>2. k = d BY <2>2, <3>1
    <3>3. Foreach(s, t[d].step) BY <1>1, <2>2, <3>2
    <3>4. s.kind[u[d].step] = "foreach" BY <1>1, <3>3 DEF Foreach
    <3>5. d \in 2 .. k BY <3>2
    <3> QED BY <3>4, <3>5
  <2> QED BY <2>1, <2>2
<1> QED BY <1>2, <1>4

LEMMA PopCopies ==
    ASSUME NEW s \in Script, NEW t, Shape(s, t), Len(t) > 1, NEW u, Popped(t, u), NEW v,
           Older(t, v), Copied(s, t)
    PROVE  Older(u, v) /\ Copied(s, u)
<1> PICK d \in Nat \ {0} : d = Len(t)
  BY DEF Shape
<1>1. Len(u) = d - 1 /\ \A k \in 1 .. d - 1 : u[k] = t[k] BY DEF Popped, Below
<1>2. Older(u, v) BY <1>1 DEF Older
<1>3. Copied(s, u)
  <2> SUFFICES ASSUME NEW k \in 1 .. d - 1, u[k].loop
               PROVE  \E i \in 2 .. k : s.kind[u[i].step] = "foreach"
    BY <1>1 DEF Copied
  <2>1. PICK i \in 2 .. k : s.kind[t[i].step] = "foreach" BY <1>1 DEF Copied
  <2> QED BY <1>1, <2>1
<1> QED BY <1>2, <1>3

\* A tool that is under way found what it reads.
LEMMA ToolFound ==
    ASSUME StackInv, [Next]_vars, at' = "tool", at = "tool" => Resolvable
    PROVE  Resolvable /\ UNCHANGED <<stack, values, script>>
<1>0. ASSUME NEW code, NEW left, Throw(code, left) PROVE FALSE
  BY <1>0 DEF Throw
<1>1. CASE DelayEnds BY <1>0, <1>1 DEF DelayEnds, CallTool
<1>2. CASE Execute
  <2>1. UNCHANGED <<script, values>> BY <1>2, ExecuteCases
  <2>2. \A n : ~ ExecuteForeachStep(n) BY <1>0 DEF ExecuteForeachStep
  <2>3. ~ ExecuteGroupStep BY DEF ExecuteGroupStep
  <2>4. ExecuteToolStep BY <1>0, <1>2, <2>2, <2>3, ExecuteCases
  <2> QED BY <1>0, <2>1, <2>4 DEF ExecuteToolStep, CallTool
<1>3. CASE Run \/ Enter \/ Iterate \/ Close
  BY <1>0, <1>3 DEF Run, Enter, Iterate, Close
<1>4. CASE ToolReturns BY <1>0, <1>4 DEF ToolReturns
<1>5. CASE Taken BY <1>0, <1>5 DEF Taken, StepFailed
<1>6. CASE Rejects BY <1>0, <1>6 DEF Rejects
<1>7. CASE Abort BY <1>0, <1>7 DEF Abort
<1>8. CASE UNCHANGED vars BY <1>8 DEF vars
<1> QED BY <1>1, <1>2, <1>3, <1>4, <1>5, <1>6, <1>7, <1>8 DEF Next

\* A tool step that fails to read did not find it, where it looked.
LEMMA ReadingFails ==
    ASSUME StackInv, [Next]_vars, FailsToRead', FailsToRead => ~ Resolvable
    PROVE  ~ Resolvable /\ UNCHANGED <<stack, values, script>>
<1> USE DEF FailsToRead
<1>1. at' = "step.failed" /\ error' = "VARIABLE_RESOLVE_FAILED" /\ script'.kind[Step'] = "tool"
  OBVIOUS
<1>2. ASSUME NEW code, NEW left, Throw(code, left)
      PROVE  code = "VARIABLE_RESOLVE_FAILED" /\ stack' = left
  BY <1>1, <1>2 DEF Throw
<1>3. CASE UNCHANGED <<stack, values, script, at, error>>
  <2>1. FailsToRead
    <3>1. Step' = Step BY <1>3 DEF Step, Top
    <3> QED BY <1>1, <1>3, <3>1
  <2> QED BY <1>3, <2>1
<1>4. ASSUME CallTool PROVE ~ Resolvable /\ stack' = stack
  BY <1>1, <1>2, <1>4 DEF CallTool
<1>5. CASE DelayEnds BY <1>4, <1>5 DEF DelayEnds
<1>6. CASE Execute
  <2>1. UNCHANGED <<script, values>> BY <1>6, ExecuteCases
  <2>2. \A n : ~ ExecuteForeachStep(n) BY <1>1, <1>2 DEF ExecuteForeachStep
  <2>3. ~ ExecuteGroupStep BY <1>1 DEF ExecuteGroupStep
  <2>4. ~ Throw("WHEN_EVALUATION_FAILED", stack) BY <1>2
  <2>5. CASE ExecuteToolStep
    BY <1>1, <1>2, <1>4, <2>1, <2>5 DEF ExecuteToolStep
  <2>6. CASE script.kind[Step] = "foreach" /\ Throw("VARIABLE_RESOLVE_FAILED", stack)
    <3>1. stack' = stack BY <1>2, <2>6
    <3>2. Step' = Step BY <3>1 DEF Step, Top
    <3> QED BY <1>1, <2>1, <2>6, <3>2
  <2> QED BY <1>1, <1>6, <2>2, <2>3, <2>4, <2>5, <2>6, ExecuteCases
<1>7. CASE Run \/ Enter \/ Iterate \/ Close
  BY <1>1, <1>2, <1>7 DEF Run, Enter, Iterate, Close
<1>8. CASE ToolReturns BY <1>1, <1>2, <1>8 DEF ToolReturns
<1>9. CASE Taken
  <2>1. at = "step.failed" /\ Throw(error, Front(stack)) /\ script' = script
    BY <1>1, <1>9 DEF Taken, StepFailed
  <2>2. Len(stack) > 1 BY <2>1 DEF StackInv, Inner
  <2>3. Popped(stack, Front(stack)) BY <2>2, TopIsTyped, LastPopped
  <2>4. stack' = Front(stack) /\ Len(Front(stack)) > 1 BY <1>1, <2>1 DEF Throw
  <2>5. /\ Shape(script, Front(stack))
        /\ LastOf(Front(stack)).step = Root \/ script.kind[LastOf(Front(stack)).step] # "tool"
    BY <2>2, <2>3, TopIsTyped, PopKeeps DEF StackInv
  <2>6. LastOf(Front(stack)).step \in InScript(script)
    BY <2>4, <2>5 DEF Shape, LastOf
  <2>7. Root \notin InScript(script) BY SkillScriptAssumption DEF InScript
  <2>8. Step' = LastOf(Front(stack)).step BY <2>4 DEF Step, Top, Last, LastOf
  <2> QED BY <1>1, <2>1, <2>5, <2>6, <2>7, <2>8
<1>10. CASE Rejects BY <1>1, <1>2, <1>10 DEF Rejects
<1>11. CASE Abort
  <2>1. UNCHANGED <<script, values>> BY <1>11 DEF Abort
  <2>2. UNCHANGED <<at, stack, error>> BY <1>1, <1>2, <1>11 DEF Abort
  <2> QED BY <1>3, <2>1, <2>2
<1>12. CASE UNCHANGED vars BY <1>3, <1>12 DEF vars
<1> QED BY <1>5, <1>6, <1>7, <1>8, <1>9, <1>10, <1>11, <1>12 DEF Next

LEMMA ReadNext == ASSUME StackInv, StackInv', ReadInv, [Next]_vars PROVE ReadInv'
<1> PICK s \in Script : s = script
  BY TopIsTyped
<1> PICK t : t = stack
  OBVIOUS
<1> PICK u : u = stack'
  OBVIOUS
<1> PICK v : v = values'
  OBVIOUS
<1>1. /\ Moves /\ Stores /\ s = script'
      /\ Shape(s, t) /\ t \in Seq(Frames) /\ Len(t) \in Nat \ {0}
  BY NextMoves, TopIsTyped DEF StackInv
<1>2. /\ v \in [Outputs -> Nat]
      /\ \A o \in Outputs : values[o] <= v[o] /\ v[o] <= calls'
  BY <1>1, ValuesGrow DEF ReadInv
<1>3. Older(t, v) /\ Copied(s, t)
  <2>1. Older(t, values) /\ Copied(s, t) /\ values \in [Outputs -> Nat]
    BY DEF ReadInv, StackInv
  <2> QED BY <1>1, <1>2, <2>1, StillOlder
<1>4. Older(u, v) /\ Copied(s, u)
  <2>1. CASE u = t BY <1>3, <2>1
  <2>2. CASE Begins
    <3>1. Pushed(s, t, u) BY <2>2 DEF Begins
    <3> QED BY <1>1, <1>3, <3>1, PushCopies
  <2>3. CASE Turns \/ Loops
    <3>1. Turned(s, t, u, Scope(Parent)) \/ Looped(s, t, u, Scope(Parent))
      BY <2>3 DEF Turns, Loops
    <3>2. Len(t) > 1
      <4> PICK d \in Nat \ {0} : d = Len(t)
        BY <1>1
      <4> PICK f \in Frames : f = t[d]
        BY <1>1
      <4>1. Foreach(s, f.step)
        <5>1. CASE Looped(s, t, u, Scope(Parent)) BY <5>1 DEF Looped
        <5>2. CASE Turned(s, t, u, Scope(Parent))
          <6>1. f.item < f.items /\ f.item \in Nat /\ f.items \in Nat BY <5>2 DEF Turned, Frames
          <6>2. ~ Foreach(s, f.step) => f.item = 1 /\ f.items <= 1 BY <1>1 DEF Shape
          <6> QED BY <6>1, <6>2
        <5> QED BY <3>1, <5>1, <5>2
      <4>2. f.step # Root BY <4>1 DEF Foreach
      <4>3. d # 1 BY <1>1, <4>2 DEF Shape
      <4> QED BY <4>3
    <3>3. Len(stack) - 1 \in 1 .. Len(stack) BY <1>1, <3>2
    <3>4. \A o \in Outputs : Scope(Parent)[o] <= v[o]
      <4> TAKE o \in Outputs
      <4>1. Parent.copy[o] <= v[o] BY <1>3, <3>3 DEF Older, Parent
      <4> QED BY <1>2, <4>1 DEF Scope
    <3> QED BY <1>1, <1>3, <3>1, <3>2, <3>4, TopCopies
  <2>4. CASE Len(t) > 1 /\ u = Front(t)
    <3>1. Popped(t, u) BY <1>1, <2>4, LastPopped
    <3> QED BY <1>1, <1>3, <2>4, <3>1, PopCopies
  <2>5. CASE Ends
    <3>1. Len(t) > 1 BY <2>5 DEF Ends, StackInv, Inner
    <3>2. Popped(t, u) BY <2>5 DEF Ends
    <3> QED BY <1>1, <1>3, <3>1, <3>2, PopCopies
  <2>6. CASE Fails \/ FailsLate
    <3>1. u = t \/ (at \in {"step.started", "step.failed"} /\ u = Front(t))
      BY <2>6 DEF Fails, FailsLate, Throws
    <3>2. at \in {"step.started", "step.failed"} => Len(t) > 1 BY DEF StackInv, Inner
    <3> QED BY <2>1, <2>4, <3>1, <3>2
  <2>7. CASE Stays \/ Settles \/ Completes BY <2>1, <2>7 DEF Stays, Settles, Completes
  <2> QED BY <1>1, <2>2, <2>3, <2>5, <2>6, <2>7 DEF Moves
<1>5. UNCHANGED <<stack, values, script>> => (Resolvable' <=> Resolvable)
  BY DEF Resolvable, Step, Top, Scope, Parent
<1>6. (at = "tool" => Resolvable)' BY <1>5, ToolFound DEF ReadInv
<1>7. (FailsToRead => ~ Resolvable)' BY <1>5, ReadingFails DEF ReadInv
<1> QED BY <1>1, <1>2, <1>4, <1>6, <1>7 DEF ReadInv

LEMMA ReadInit == ASSUME Init PROVE ReadInv
<1>1. StackInv BY StackInit
<1>2. at = "new" /\ values = Nothing /\ calls = 0 BY DEF Init
<1>3. \A o \in Outputs : values[o] <= calls BY <1>2 DEF Nothing
<1>4. Len(stack) = 1 /\ stack[1].loop = FALSE /\ stack[1].copy = Nothing
  BY DEF Init, Frame
<1>5. Older(stack, values) BY <1>2, <1>4 DEF Older, Nothing
<1>6. Copied(script, stack) BY <1>4 DEF Copied
<1> QED BY <1>2, <1>3, <1>5, <1>6 DEF ReadInv, FailsToRead

\* A tool that is called reads what was stored, outside of loops the last of it, and
\* fails there only when there is none: what an iteration copied is never newer.
\* (skillScriptEngine.ts: executeForeachStep; skillScriptTemplate.ts: resolveTemplateValue)
THEOREM StoredIsRead == Spec => []ReadsAreStored
<1>1. Init => StackInv /\ ReadInv BY StackInit, ReadInit
<1>2. StackInv /\ ReadInv /\ [Next]_vars => (StackInv /\ ReadInv)' BY StackNext, ReadNext
<1>3. StackInv /\ ReadInv => ReadsAreStored
  <2> SUFFICES ASSUME StackInv, ReadInv PROVE ReadsAreStored
    OBVIOUS
  <2> PICK d \in Nat \ {0} : d = Len(stack)
    BY TopIsTyped
  <2>1. Parent = stack[d - 1] BY DEF Parent
  <2>2. at = "tool" \/ FailsToRead => d > 1 /\ Step \in Steps
    <3>1. at = "tool" \/ FailsToRead => Len(stack) > 1 BY DEF StackInv, Inner, FailsToRead
    <3> QED BY <3>1, TopIsTyped DEF InScript
  <2>3. d > 1 /\ ~ InLoop => Scope(Parent) = values
    <3> SUFFICES ASSUME d > 1, Parent.loop PROVE InLoop
      BY DEF Scope
    <3>1. d - 1 \in 1 .. Len(stack) /\ Copied(script, stack) BY DEF ReadInv
    <3>2. PICK i \in 2 .. d - 1 : script.kind[stack[i].step] = "foreach"
      BY <2>1, <3>1 DEF Copied
    <3> QED BY <3>2 DEF InLoop
  <2>4. Step \in Steps => script.reads[Step] \subseteq Outputs BY TopIsTyped DEF Script
  <2>5. ASSUME at = "tool", NEW o \in script.reads[Step]
        PROVE  /\ Scope(Parent)[o] \in 1 .. values[o]
               /\ ~ InLoop => Scope(Parent)[o] = values[o]
    <3>1. d > 1 /\ o \in Outputs BY <2>2, <2>4, <2>5
    <3>2. Scope(Parent)[o] # 0 BY <2>5 DEF ReadInv, Resolvable
    <3>3. Scope(Parent)[o] \in Nat
      <4>1. Scope(Parent) \in [Outputs -> Nat] BY <3>1, ParentScope
      <4> QED BY <3>1, <4>1
    <3>4. values[o] \in Nat BY <3>1 DEF StackInv
    <3>5. Scope(Parent)[o] <= values[o]
      <4>1. d - 1 \in 1 .. Len(stack) BY <3>1
      <4>2. Parent.copy[o] <= values[o] BY <2>1, <3>1, <4>1 DEF ReadInv, Older
      <4> QED BY <3>4, <4>2 DEF Scope
    <3> QED BY <2>3, <3>1, <3>2, <3>3, <3>4, <3>5
  <2>6. ASSUME FailsToRead, ~ InLoop PROVE \E o \in script.reads[Step] : values[o] = 0
    <3>1. ~ Resolvable BY <2>6 DEF ReadInv
    <3>2. Scope(Parent) = values BY <2>2, <2>3, <2>6
    <3> QED BY <3>1, <3>2 DEF Resolvable
  <2> QED BY <2>5, <2>6 DEF ReadsAreStored
<1> QED BY <1>1, <1>2, <1>3, PTL DEF Spec

\* Once the user has aborted, no step calls a tool.
\* (skillScriptEngine.ts: ensureNotAborted before the delay, during it and in executeTool)
THEOREM AbortedCallNoTool == Spec => AbortedCallsNothing
<1>1. ASSUME StackInv, [Next]_vars, aborted PROVE calls' = calls
  <2>1. CASE Execute
    BY <1>1, <2>1, ExecuteCases DEF ExecuteToolStep, Canceled
  <2>2. CASE DelayEnds BY <1>1, <2>2 DEF DelayEnds, CallTool, Canceled
  <2>3. CASE Run \/ Enter \/ Iterate \/ Close \/ ToolReturns \/ Taken \/ Rejects \/ Abort
    BY <2>3 DEF Run, Enter, Iterate, Close, ToolReturns, Taken, Rejects, Abort
  <2>4. CASE UNCHANGED vars BY <2>4 DEF vars
  <2> QED BY <1>1, <2>1, <2>2, <2>3, <2>4 DEF Next
<1> QED BY <1>1, StackInit, StackNext, PTL DEF Spec, AbortedCallsNothing

===============================================================================
