----------------------- MODULE ReconfigurationProofs -----------------------
(***************************************************************************)
(* Membership changes, for every set of nodes, every window and log length, *)
(* any number of concurrent changes, retries, aborts and crashes: a slot    *)
(* has one decision across configurations (SlotsAgree), no replica refuses  *)
(* its log (PrefixesApply), an added voter has the prefix before it counts  *)
(* (AddedVoters), and a change reported complete is not lost (ChangesKept). *)
(*                                                                         *)
(* A core state is Derived from a set of certificates when it is the end of *)
(* a replay of some log of them.  The invariant says that every node's core *)
(* is derived, and that every request, vote and certificate was issued in a *)
(* derived state.  Two derived states with the same values agree on the     *)
(* configurations, the certificates apart.  A certificate beyond a freeze's *)
(* window needs an old quorum to have voted there; the freeze has a quorum  *)
(* of recorders that promised to know nothing there and that vote later     *)
(* only after they applied it, so an old quorum cannot exist (NoOldQuorum)  *)
(* and the least slot with two values leads to a contradiction.             *)
(***************************************************************************)
EXTENDS Reconfiguration, FiniteSetTheorems, WellFoundedInduction, TLAPS

\* Every non-empty set of naturals has a least element: the induction that all
\* arguments over slots below use.
LEMMA LeastNatural ==
    ASSUME NEW T, T \subseteq Nat, T # {}
    PROVE  \E x \in T : \A y \in T : x <= y
<1> DEFINE R == OpToRel(<, Nat)
<1>1. IsWellFoundedOn(R, Nat)
  BY NatLessThanWellFounded
<1>2. \A p \in Nat \X Nat : p \in R <=> p[1] < p[2]
  BY DEF OpToRel
<1> HIDE DEF R
<1>3. PICK x \in T : \A y \in T : ~(<<y, x>> \in R)
  BY <1>1, WFMin
<1>4. \A y \in T : ~(y < x)
  BY <1>2, <1>3
<1>5. QED
  BY <1>3, <1>4

\* Induction up to a bound, for a set.
LEMMA Induction ==
    ASSUME NEW K \in Nat, NEW S, 0 \in S,
           \A k \in 1 .. K : k - 1 \in S => k \in S
    PROVE  0 .. K \subseteq S
<1>1. SUFFICES ASSUME (0 .. K) \ S # {} PROVE FALSE
  OBVIOUS
<1> DEFINE T == (0 .. K) \ S
<1>5. T \subseteq Nat
  OBVIOUS
<1>2. PICK x \in T : \A y \in T : x <= y
  BY <1>1, <1>5, LeastNatural
<1>3. x \in 1 .. K /\ x - 1 \in 0 .. K /\ x - 1 < x
  BY <1>2
<1>4. QED
  BY <1>2, <1>3

\* A bounded set of naturals has a largest element, which Max is.
LEMMA MaxOf ==
    ASSUME NEW B \in Nat, NEW S, S \subseteq 0 .. B, S # {}
    PROVE  Max(S) \in S /\ \A x \in S : x <= Max(S)
<1> DEFINE T == {y \in Nat : \E x \in S : y + x = B}
<1>1. T # {}
  <2>1. PICK x \in S : x \in 0 .. B
    OBVIOUS
  <2>2. B - x \in T
    BY <2>1
  <2>3. QED
    BY <2>2
<1>2. PICK t \in T : \A y \in T : t <= y
  BY <1>1, LeastNatural
<1>3. PICK m \in S : t + m = B
  BY <1>2
<1>4. ASSUME NEW x \in S PROVE m >= x
  <2>1. x \in 0 .. B /\ m \in 0 .. B
    OBVIOUS
  <2>2. B - x \in T
    BY <2>1
  <2>3. t <= B - x /\ t \in Nat /\ t + m = B
    BY <1>2, <1>3, <2>2
  <2>4. QED
    BY <2>1, <2>3
<1>5. QED
  BY <1>3, <1>4 DEF Max

-----------------------------------------------------------------------------
\* A value that slot s may hold: a freeze names its slot, and leaves room for a
\* terminal; a terminal names the freeze a window below.
IsValue(s, v) ==
    \/ v = Write
    \/ s + Window <= MaxSlot /\ \E t \in Target : v = Freeze(s, t)
    \/ \E kind \in {"finish", "abort"}, f \in Slot, t \in Target :
          f + Window = s /\ v = Terminal(kind, f, t)

\* A log that a node may hold when the certificates in C were assembled.
IsLog(C, d) ==
    /\ d = [s \in Slot |-> d[s]]
    /\ \A s \in Slot : d[s] # None => \E cert \in C : cert.slot = s /\ d[s] = Cert(cert)

\* F holds the states of a node that applies the first K decisions of d.
IsTrace(d, F, K) ==
    /\ K \in 0 .. MaxSlot
    /\ F[0] = NewCore
    /\ \A k \in 1 .. K : /\ d[k] # None
                         /\ Applies(F[k - 1], d[k])
                         /\ F[k] = Apply(F[k - 1], d[k])

\* The typing of certificates that the lemmas on traces need.
CertsTyped(C) ==
    \A cert \in C : /\ cert.slot \in Slot
                    /\ IsValue(cert.slot, cert.val)
                    /\ cert.by \subseteq Node

CoreType == [tip : Nat, epochs : SUBSET (Nat \X Target), frozen : {None} \cup Frozen,
             abort : Nat, retired : SUBSET Node]

\* What holds of the state after k decisions.
CoreOK(c, k) ==
    /\ c \in CoreType
    /\ c.tip = k
    /\ <<1, First>> \in c.epochs
    /\ \A e \in c.epochs : e[1] \in 1 .. k + 1 /\ e[2].id >= 1
    /\ \A e \in c.epochs : \A i \in 1 .. e[2].id : \E g \in c.epochs : g[2].id = i
    /\ \A e, g \in c.epochs : /\ e[1] < g[1] <=> e[2].id < g[2].id
                              /\ e[1] = g[1] => e = g
    /\ c.frozen # None =>
          /\ c.frozen.freeze <= k
          /\ \A e \in c.epochs : e[1] <= c.frozen.freeze /\ e[2].id < c.frozen.target.id
          /\ \E e \in c.epochs : e[2].id + 1 = c.frozen.target.id

\* The epoch that a slot belongs to is the last one that begins at or below it.
LEMMA ClusterIs ==
    ASSUME NEW c, NEW k \in Nat, CoreOK(c, k), NEW s \in Nat, s >= 1
    PROVE  \E e \in c.epochs : /\ e[1] <= s
                               /\ ClusterFor(c, s) = e[2]
                               /\ \A g \in c.epochs : g[1] <= s => g[2].id <= e[2].id
<1> DEFINE starts == {e \in c.epochs : e[1] <= s}
           firsts == {e[1] : e \in starts}
           last == Max(firsts)
<1>1. \A e \in c.epochs : e[1] \in Nat /\ e[2].id \in Nat
  BY DEF CoreOK, CoreType, Target
<1>2. firsts \subseteq 0 .. s /\ firsts # {}
  BY <1>1 DEF CoreOK
<1>3. last \in firsts /\ \A x \in firsts : x <= last
  BY <1>2, MaxOf
<1>4. PICK e \in starts : e[1] = last
  BY <1>3
<1> DEFINE z == CHOOSE g \in starts : g[1] = last
<1>5. z \in starts /\ z[1] = last
  BY <1>4
<1>6. ClusterFor(c, s) = z[2]
  BY DEF ClusterFor
<1> HIDE DEF z
<1>7. \A g \in c.epochs : g[1] <= s => g[1] <= z[1]
  BY <1>3, <1>5
<1>8. \A g \in c.epochs : g[1] <= s => g[2].id <= z[2].id
  BY <1>1, <1>5, <1>7 DEF CoreOK
<1>9. QED
  BY <1>5, <1>6, <1>8

\* What applying the decision in slot k does: the four cases of Apply.
Skipped(c, d, k) ==
    /\ Apply(c, d) = [c EXCEPT !.tip = k]
    /\ d.val = Write \/ Draining(c, k)

Froze(c, d, k) ==
    /\ c.frozen = None
    /\ k + Window <= MaxSlot
    /\ \E t \in Target :
         /\ d.val = Freeze(k, t)
         /\ TargetValid(ClusterFor(c, k), t, c.retired)
         /\ Apply(c, d) = [c EXCEPT !.tip = k,
                                    !.frozen = [freeze |-> k, target |-> t, safe |-> d.by]]

Ended(c, d, k, kind) ==
    /\ c.frozen # None
    /\ k = c.frozen.freeze + Window
    /\ d.val = Terminal(kind, c.frozen.freeze, c.frozen.target)

Aborted(c, d, k) ==
    /\ Ended(c, d, k, "abort")
    /\ Apply(c, d) = [c EXCEPT !.tip = k, !.frozen = None, !.abort = k]

Finished(c, d, k) ==
    /\ Ended(c, d, k, "finish")
    /\ Apply(c, d) = [c EXCEPT !.tip = k, !.frozen = None, !.abort = 0,
                         !.epochs = @ \cup {<<k + 1, c.frozen.target>>},
                         !.retired = @ \cup (ClusterFor(c, k).members \ c.frozen.target.members)]

\* A decision that applies is skipped, or freezes, aborts or finishes a change:
\* applyReconfigurationLocked has no other outcome.
LEMMA ApplyCases ==
    ASSUME NEW c, NEW k \in Slot, CoreOK(c, k - 1), NEW d,
           IsValue(k, d.val), d.by \subseteq Node, Applies(c, d)
    PROVE  Skipped(c, d, k) \/ Froze(c, d, k) \/ Aborted(c, d, k) \/ Finished(c, d, k)
<1>1. c.tip + 1 = k /\ k \in Nat /\ MaxSlot \in Nat /\ Window \in Nat
  BY ReconfigurationAssumption DEF CoreOK, Slot
<1>2. CASE d.val = Write
  BY <1>1, <1>2 DEF Skipped, Apply, IsControl, Write
<1>3. CASE Draining(c, k)
  BY <1>1, <1>3 DEF Skipped, Apply
<1>4. CASE ~Draining(c, k) /\ \E t \in Target : d.val = Freeze(k, t) /\ k + Window <= MaxSlot
  <2>1. PICK t \in Target : d.val = Freeze(k, t)
    BY <1>4
  <2>2. d.val.kind = "freeze" /\ d.val.target = t /\ IsControl(d.val) /\ ~IsTerminal(d.val)
    BY <2>1 DEF Freeze, IsControl, IsTerminal
  <2>3. c.frozen = None /\ TargetValid(ClusterFor(c, k), t, c.retired)
    BY <1>1, <1>4, <2>2 DEF Applies
  <2>4. Apply(c, d) = [c EXCEPT !.tip = k,
                                !.frozen = [freeze |-> k, target |-> t, safe |-> d.by]]
    BY <1>1, <1>4, <2>2 DEF Apply, CoreOK, CoreType
  <2>5. QED
    BY <1>4, <2>1, <2>3, <2>4 DEF Froze
<1>5. CASE ~Draining(c, k) /\ \E kind \in {"finish", "abort"}, f \in Slot, t \in Target :
               f + Window = k /\ d.val = Terminal(kind, f, t)
  <2>1. PICK kind \in {"finish", "abort"}, f \in Slot, t \in Target :
               f + Window = k /\ d.val = Terminal(kind, f, t)
    BY <1>5
  <2>2. /\ d.val.kind = kind /\ d.val.freeze = f /\ d.val.target = t
        /\ IsControl(d.val) /\ d.val.kind # "freeze"
    BY <2>1 DEF Terminal, IsControl
  <2>3. c.frozen # None /\ k = c.frozen.freeze + Window /\ f = c.frozen.freeze
        /\ t = c.frozen.target
    BY <1>1, <2>2 DEF Applies
  <2>4. Ended(c, d, k, kind)
    BY <2>1, <2>3 DEF Ended
  <2>5. CASE kind = "abort"
    BY <1>1, <1>5, <2>2, <2>4, <2>5 DEF Aborted, Apply, CoreOK, CoreType
  <2>6. CASE kind = "finish"
    BY <1>1, <1>5, <2>2, <2>4, <2>6 DEF Finished, Apply, CoreOK, CoreType
  <2>7. QED
    BY <2>5, <2>6
<1>6. QED
  BY <1>2, <1>3, <1>4, <1>5 DEF IsValue

\* The state stays well formed.
LEMMA ApplyOK ==
    ASSUME NEW c, NEW k \in Slot, CoreOK(c, k - 1), NEW d,
           IsValue(k, d.val), d.by \subseteq Node, Applies(c, d)
    PROVE  CoreOK(Apply(c, d), k)
<1> DEFINE n == Apply(c, d)
<1>1. k \in Nat /\ k >= 1 /\ MaxSlot \in Nat /\ Window \in Nat /\ Window > 0
  BY ReconfigurationAssumption DEF Slot
<1>2. \A e \in c.epochs : e[1] \in Nat /\ e[2].id \in Nat /\ e[1] <= k
  BY <1>1 DEF CoreOK, CoreType, Target
<1>3. CASE Skipped(c, d, k)
  <2>1. n = [c EXCEPT !.tip = k]
    BY <1>3 DEF Skipped
  <2> HIDE DEF n
  <2>2. n \in CoreType /\ n.tip = k /\ n.epochs = c.epochs /\ n.frozen = c.frozen
    BY <1>1, <2>1 DEF CoreOK, CoreType
  <2>3. n.frozen # None => n.frozen.freeze \in Nat /\ n.frozen.freeze <= k
    BY <1>1, <2>2 DEF CoreOK, CoreType, Frozen, Slot
  <2>4. CoreOK(n, k)
    BY <1>1, <1>2, <2>2, <2>3 DEF CoreOK
  <2>5. QED
    BY <2>4 DEF n
<1>4. CASE Froze(c, d, k)
  <2>1. PICK t \in Target :
           /\ TargetValid(ClusterFor(c, k), t, c.retired)
           /\ n = [c EXCEPT !.tip = k, !.frozen = [freeze |-> k, target |-> t, safe |-> d.by]]
    BY <1>4 DEF Froze
  <2> HIDE DEF n
  <2>2. n \in CoreType /\ n.tip = k /\ n.epochs = c.epochs
        /\ n.frozen = [freeze |-> k, target |-> t, safe |-> d.by]
    BY <1>1, <2>1 DEF CoreOK, CoreType, Frozen
  <2>3. PICK e \in c.epochs : /\ ClusterFor(c, k) = e[2]
                              /\ \A g \in c.epochs : g[1] <= k => g[2].id <= e[2].id
    BY <1>1, ClusterIs
  <2>4. t.id = e[2].id + 1
    BY <2>1, <2>3 DEF TargetValid
  <2>5. \A g \in c.epochs : g[2].id < t.id
    BY <1>2, <2>3, <2>4
  <2>6. CoreOK(n, k)
    BY <1>1, <1>2, <2>2, <2>3, <2>4, <2>5 DEF CoreOK
  <2>7. QED
    BY <2>6 DEF n
<1>5. CASE Aborted(c, d, k)
  <2>1. n = [c EXCEPT !.tip = k, !.frozen = None, !.abort = k]
    BY <1>5 DEF Aborted
  <2> HIDE DEF n
  <2>2. n \in CoreType /\ n.tip = k /\ n.epochs = c.epochs /\ n.frozen = None
    BY <1>1, <2>1 DEF CoreOK, CoreType
  <2>3. CoreOK(n, k)
    BY <1>1, <1>2, <2>2 DEF CoreOK
  <2>4. QED
    BY <2>3 DEF n
<1>6. CASE Finished(c, d, k)
  <2> DEFINE t == c.frozen.target
             new == <<k + 1, t>>
  <2>1. n = [c EXCEPT !.tip = k, !.frozen = None, !.abort = 0, !.epochs = @ \cup {new},
                      !.retired = @ \cup (ClusterFor(c, k).members \ t.members)]
    BY <1>6 DEF Finished
  <2> HIDE DEF n
  <2>2. PICK x \in c.epochs : ClusterFor(c, k) = x[2]
    BY <1>1, ClusterIs
  <2>3. ClusterFor(c, k).members \subseteq Node /\ t \in Target
    BY <1>6, <2>2 DEF CoreOK, CoreType, Target, Finished, Ended, Frozen
  <2>4. n \in CoreType /\ n.tip = k /\ n.epochs = c.epochs \cup {new} /\ n.frozen = None
    <3> DEFINE gone == ClusterFor(c, k).members \ t.members
    <3>1. new \in Nat \X Target /\ gone \subseteq Node
      BY <1>1, <2>3
    <3> HIDE DEF new, gone
    <3>2. QED
      BY <1>1, <2>1, <3>1 DEF CoreOK, CoreType, gone
  <2>5. c.frozen # None /\ t.id \in Nat
    BY <1>6, <2>3 DEF Finished, Ended, Target
  <2>6. \A e \in c.epochs : e[2].id < t.id /\ e[2].id >= 1
    BY <2>5 DEF CoreOK
  <2>7. PICK y \in c.epochs : y[2].id + 1 = t.id
    BY <2>5 DEF CoreOK
  <2>8. t.id > 1
    BY <1>2, <2>5, <2>6, <2>7
  <2>9. \A e \in n.epochs : e[1] \in 1 .. k + 1 /\ e[2].id >= 1
    BY <1>1, <1>2, <2>4, <2>5, <2>8 DEF CoreOK
  <2>10. ASSUME NEW e \in n.epochs, NEW i \in 1 .. e[2].id
         PROVE  \E g \in n.epochs : g[2].id = i
    <3>1. CASE e \in c.epochs
      BY <2>4, <3>1 DEF CoreOK
    <3>2. CASE e = new /\ i = t.id
      BY <2>4, <3>2
    <3>3. CASE e = new /\ i # t.id
      <4>1. i \in 1 .. y[2].id
        BY <1>2, <2>5, <2>7, <3>3
      <4>2. QED
        BY <2>4, <4>1 DEF CoreOK
    <3>4. QED
      BY <2>4, <3>1, <3>2, <3>3
  <2>11. ASSUME NEW e \in n.epochs, NEW g \in n.epochs
         PROVE  (e[1] < g[1] <=> e[2].id < g[2].id) /\ (e[1] = g[1] => e = g)
    <3>1. CASE e \in c.epochs /\ g \in c.epochs
      BY <3>1 DEF CoreOK
    <3>2. CASE e \in c.epochs /\ g = new
      <4>1. e[1] < k + 1 /\ e[2].id < t.id
        BY <1>1, <1>2, <2>6, <3>2
      <4>2. QED
        BY <1>1, <1>2, <2>5, <3>2, <4>1
    <3>3. CASE e = new /\ g \in c.epochs
      <4>1. g[1] < k + 1 /\ g[2].id < t.id
        BY <1>1, <1>2, <2>6, <3>3
      <4>2. QED
        BY <1>1, <1>2, <2>5, <3>3, <4>1
    <3>4. CASE e = new /\ g = new
      BY <1>1, <2>5, <3>4
    <3>5. QED
      BY <2>4, <3>1, <3>2, <3>3, <3>4
  <2>12. CoreOK(n, k)
    BY <2>4, <2>9, <2>10, <2>11 DEF CoreOK
  <2>13. QED
    BY <2>12 DEF n
<1>7. QED
  BY <1>3, <1>4, <1>5, <1>6, ApplyCases

-----------------------------------------------------------------------------
\* The states of a trace are well formed, and each comes from the one before it
\* in one of the four ways.
LEMMA TraceSteps ==
    ASSUME NEW C, CertsTyped(C), NEW d, IsLog(C, d), NEW F, NEW K, IsTrace(d, F, K)
    PROVE  /\ \A k \in 0 .. K : CoreOK(F[k], k)
           /\ \A k \in 1 .. K : /\ k \in Slot /\ IsValue(k, d[k].val) /\ d[k].by \subseteq Node
                                /\ F[k] = Apply(F[k - 1], d[k])
                                /\ \/ Skipped(F[k - 1], d[k], k)
                                   \/ Froze(F[k - 1], d[k], k)
                                   \/ Aborted(F[k - 1], d[k], k)
                                   \/ Finished(F[k - 1], d[k], k)
<1> DEFINE S == {k \in 0 .. K : CoreOK(F[k], k)}
<1>1. K \in Nat /\ K <= MaxSlot /\ MaxSlot \in Nat
  BY ReconfigurationAssumption DEF IsTrace
<1>2. 0 \in S
  <2>1. F[0] = NewCore
    BY DEF IsTrace
  <2>2. First \in Target /\ First.id = 1
    BY ReconfigurationAssumption DEF First, Target
  <2>3. NewCore \in CoreType
    BY <2>2 DEF NewCore, CoreType
  <2>4. CoreOK(NewCore, 0)
    BY <2>2, <2>3 DEF CoreOK, NewCore
  <2>5. QED
    BY <1>1, <2>1, <2>4
<1>3. ASSUME NEW k \in 1 .. K
      PROVE  k \in Slot /\ IsValue(k, d[k].val) /\ d[k].by \subseteq Node
  <2>1. k \in Slot
    BY <1>1 DEF Slot
  <2>2. d[k] # None
    BY DEF IsTrace
  <2>3. PICK cert \in C : cert.slot = k /\ d[k] = Cert(cert)
    BY <2>1, <2>2 DEF IsLog
  <2>4. QED
    BY <2>1, <2>3 DEF CertsTyped, Cert
<1>4. ASSUME NEW k \in 1 .. K, k - 1 \in S
      PROVE  k \in S
  <2>1. Applies(F[k - 1], d[k]) /\ F[k] = Apply(F[k - 1], d[k])
    BY DEF IsTrace
  <2>2. CoreOK(F[k - 1], k - 1)
    BY <1>4
  <2>3. CoreOK(F[k], k)
    BY <1>3, <2>1, <2>2, ApplyOK
  <2>4. QED
    BY <1>1, <2>3
<1> HIDE DEF S
<1>5. 0 .. K \subseteq S
  BY <1>1, <1>2, <1>4, Induction
<1>6. \A k \in 0 .. K : CoreOK(F[k], k)
  BY <1>5 DEF S
<1>7. ASSUME NEW k \in 1 .. K
      PROVE  /\ F[k] = Apply(F[k - 1], d[k])
             /\ \/ Skipped(F[k - 1], d[k], k) \/ Froze(F[k - 1], d[k], k)
                \/ Aborted(F[k - 1], d[k], k) \/ Finished(F[k - 1], d[k], k)
  <2>1. Applies(F[k - 1], d[k]) /\ F[k] = Apply(F[k - 1], d[k])
    BY DEF IsTrace
  <2>2. CoreOK(F[k - 1], k - 1)
    BY <1>1, <1>6
  <2>3. QED
    BY <1>3, <2>1, <2>2, ApplyCases
<1>8. QED
  BY <1>3, <1>6, <1>7

\* The same, field by field, for the next state n.
StepIs(c, d, k, n) ==
    /\ Skipped(c, d, k) =>
         /\ d.val.kind = "write" \/ Draining(c, k)
         /\ n.frozen = c.frozen /\ n.epochs = c.epochs
         /\ n.retired = c.retired /\ n.abort = c.abort
    /\ Froze(c, d, k) =>
         /\ c.frozen = None /\ d.val.kind = "freeze"
         /\ n.frozen # None /\ n.frozen \in Frozen
         /\ n.frozen.freeze = k /\ n.frozen.safe = d.by
         /\ d.val = Freeze(k, n.frozen.target)
         /\ TargetValid(ClusterFor(c, k), n.frozen.target, c.retired)
         /\ n.epochs = c.epochs /\ n.retired = c.retired /\ n.abort = c.abort
    /\ Aborted(c, d, k) =>
         /\ c.frozen # None /\ k = c.frozen.freeze + Window /\ d.val.kind = "abort"
         /\ n.frozen = None /\ n.epochs = c.epochs
         /\ n.retired = c.retired /\ n.abort = k
    /\ Finished(c, d, k) =>
         /\ c.frozen # None /\ k = c.frozen.freeze + Window /\ d.val.kind = "finish"
         /\ n.frozen = None /\ n.abort = 0
         /\ n.epochs = c.epochs \cup {<<k + 1, c.frozen.target>>}
         /\ n.retired = c.retired \cup (ClusterFor(c, k).members \ c.frozen.target.members)

\* The fields of a core state after one applied slot.
LEMMA StepFields ==
    ASSUME NEW c, NEW k \in Slot, CoreOK(c, k - 1), NEW d, d.by \subseteq Node,
           NEW n, n = Apply(c, d)
    PROVE  StepIs(c, d, k, n)
<1>1. c \in CoreType
  BY DEF CoreOK
<1>2. Skipped(c, d, k) => /\ n.frozen = c.frozen /\ n.epochs = c.epochs
                          /\ n.retired = c.retired /\ n.abort = c.abort
  BY <1>1 DEF Skipped, CoreType
<1>3. ASSUME Froze(c, d, k)
      PROVE  /\ n.frozen # None /\ n.frozen \in Frozen
             /\ n.frozen.freeze = k /\ n.frozen.safe = d.by
             /\ d.val = Freeze(k, n.frozen.target)
             /\ TargetValid(ClusterFor(c, k), n.frozen.target, c.retired)
             /\ n.epochs = c.epochs /\ n.retired = c.retired /\ n.abort = c.abort
  <2>1. PICK t \in Target :
           /\ d.val = Freeze(k, t)
           /\ TargetValid(ClusterFor(c, k), t, c.retired)
           /\ n = [c EXCEPT !.tip = k, !.frozen = [freeze |-> k, target |-> t, safe |-> d.by]]
    BY <1>3 DEF Froze
  <2>2. n.frozen = [freeze |-> k, target |-> t, safe |-> d.by] /\ n.epochs = c.epochs
        /\ n.retired = c.retired /\ n.abort = c.abort
    BY <1>1, <2>1 DEF CoreType
  <2>3. n.frozen \in Frozen
    BY <2>2 DEF Frozen
  <2>4. QED
    BY <2>1, <2>2, <2>3, ReconfigurationAssumption
<1>4. Aborted(c, d, k) => /\ n.frozen = None /\ n.epochs = c.epochs
                          /\ n.retired = c.retired /\ n.abort = k
  BY <1>1 DEF Aborted, CoreType
<1>5. Finished(c, d, k) =>
        /\ n.frozen = None /\ n.abort = 0
        /\ n.epochs = c.epochs \cup {<<k + 1, c.frozen.target>>}
        /\ n.retired = c.retired \cup (ClusterFor(c, k).members \ c.frozen.target.members)
  BY <1>1 DEF Finished, CoreType
<1>6. Skipped(c, d, k) => d.val.kind = "write" \/ Draining(c, k)
  BY DEF Skipped, Write
<1>7. Froze(c, d, k) => c.frozen = None /\ d.val.kind = "freeze"
  BY DEF Froze, Freeze
<1>8. /\ Aborted(c, d, k) =>
           c.frozen # None /\ k = c.frozen.freeze + Window /\ d.val.kind = "abort"
      /\ Finished(c, d, k) =>
           c.frozen # None /\ k = c.frozen.freeze + Window /\ d.val.kind = "finish"
  BY DEF Aborted, Finished, Ended, Terminal
<1>9. QED
  BY <1>2, <1>3, <1>4, <1>5, <1>6, <1>7, <1>8 DEF StepIs

-----------------------------------------------------------------------------
\* What a frozen state, and an epoch, say about the trace that led to them.
FrozenSince(d, F, k) ==
    F[k].frozen # None =>
        LET z == F[k].frozen
            f == z.freeze
        IN  /\ f \in 1 .. k
            /\ \A j \in f .. k : F[j].frozen = z
            /\ F[f - 1].frozen = None
            /\ F[f - 1].epochs = F[k].epochs
            /\ F[f - 1].retired = F[k].retired
            /\ d[f].val = Freeze(f, z.target)
            /\ d[f].by = z.safe
            /\ TargetValid(ClusterFor(F[f - 1], f), z.target, F[f - 1].retired)

FromFreeze(d, F, e, k) ==
    \E f, last \in 1 .. k :
        /\ last = f + Window
        /\ e[1] = last + 1
        /\ \A j \in f .. last - 1 : /\ F[j].frozen # None
                                    /\ F[j].frozen.freeze = f
                                    /\ F[j].frozen.target = e[2]
        /\ \A j \in last .. k : e \in F[j].epochs
        /\ F[f - 1].frozen = None
        /\ d[f].val = Freeze(f, e[2])
        /\ ClusterFor(F[f - 1], f).id + 1 = e[2].id
        /\ d[last].val = Terminal("finish", f, e[2])

EpochsSince(d, F, k) ==
    \A e \in F[k].epochs : e = <<1, First>> \/ FromFreeze(d, F, e, k)

\* In a replayed log, a frozen change goes back to its freeze less than a window
\* ago, and every epoch to a finish and its freeze.
LEMMA TraceHistory ==
    ASSUME NEW C, CertsTyped(C), NEW d, IsLog(C, d), NEW F, NEW K, IsTrace(d, F, K)
    PROVE  \A k \in 0 .. K : FrozenSince(d, F, k) /\ EpochsSince(d, F, k)
<1> DEFINE S == {k \in 0 .. K : FrozenSince(d, F, k) /\ EpochsSince(d, F, k)}
<1>1. K \in Nat /\ K <= MaxSlot /\ MaxSlot \in Nat /\ Window \in Nat /\ Window > 1
  BY ReconfigurationAssumption DEF IsTrace
<1>2. /\ \A k \in 0 .. K : CoreOK(F[k], k)
      /\ \A k \in 1 .. K : /\ k \in Slot /\ d[k].by \subseteq Node
                           /\ F[k] = Apply(F[k - 1], d[k])
                           /\ \/ Skipped(F[k - 1], d[k], k) \/ Froze(F[k - 1], d[k], k)
                              \/ Aborted(F[k - 1], d[k], k) \/ Finished(F[k - 1], d[k], k)
  BY TraceSteps
<1>3. 0 \in S
  <2>1. F[0] = NewCore
    BY DEF IsTrace
  <2>2. QED
    BY <1>1, <2>1 DEF FrozenSince, EpochsSince, NewCore
<1>4. ASSUME NEW k \in 1 .. K, k - 1 \in S
      PROVE  k \in S
  <2> DEFINE c == F[k - 1]
             n == F[k]
  <2>1. FrozenSince(d, F, k - 1) /\ EpochsSince(d, F, k - 1) /\ k - 1 \in 0 .. K
    BY <1>4
  <2>2. CoreOK(c, k - 1) /\ CoreOK(n, k) /\ k \in Slot /\ d[k].by \subseteq Node
        /\ n = Apply(c, d[k]) /\ k \in Nat
    BY <1>1, <1>2, <2>1
  <2>3. c.frozen # None => c.frozen \in Frozen
    BY <2>2 DEF CoreOK, CoreType
  <2> DEFINE z == c.frozen
             f == z.freeze
  <2>4. c.frozen # None =>
            /\ f \in 1 .. k - 1
            /\ \A j \in f .. k - 1 : F[j].frozen = z
            /\ F[f - 1].frozen = None
            /\ F[f - 1].epochs = c.epochs
            /\ F[f - 1].retired = c.retired
            /\ d[f].val = Freeze(f, z.target)
            /\ d[f].by = z.safe
            /\ TargetValid(ClusterFor(F[f - 1], f), z.target, F[f - 1].retired)
    BY <2>1 DEF FrozenSince
  <2> HIDE DEF c, n
  <2>5. ASSUME n.frozen = c.frozen, n.epochs = c.epochs, n.retired = c.retired
        PROVE  FrozenSince(d, F, k)
    <3>1. SUFFICES ASSUME n.frozen # None PROVE FrozenSince(d, F, k)
      BY DEF FrozenSince, n
    <3>2. f \in 1 .. k /\ \A j \in f .. k : F[j].frozen = z
      BY <2>2, <2>4, <2>5, <3>1 DEF n
    <3>3. QED
      BY <2>4, <2>5, <3>1, <3>2 DEF FrozenSince, n
  <2>6. ASSUME c.epochs \subseteq n.epochs, NEW e \in c.epochs
        PROVE  e = <<1, First>> \/ FromFreeze(d, F, e, k)
    <3>1. SUFFICES ASSUME e # <<1, First>> PROVE FromFreeze(d, F, e, k)
      OBVIOUS
    <3>2. FromFreeze(d, F, e, k - 1)
      BY <2>1, <2>6, <3>1 DEF EpochsSince, c
    <3>3. PICK g, last \in 1 .. k - 1 :
            /\ last = g + Window
            /\ e[1] = last + 1
            /\ \A j \in g .. last - 1 : /\ F[j].frozen # None
                                        /\ F[j].frozen.freeze = g
                                        /\ F[j].frozen.target = e[2]
            /\ \A j \in last .. k - 1 : e \in F[j].epochs
            /\ F[g - 1].frozen = None
            /\ d[g].val = Freeze(g, e[2])
            /\ ClusterFor(F[g - 1], g).id + 1 = e[2].id
            /\ d[last].val = Terminal("finish", g, e[2])
      BY <3>2 DEF FromFreeze
    <3>4. g \in 1 .. k /\ last \in 1 .. k
      BY <2>2
    <3>5. e \in F[k].epochs
      BY <2>6 DEF n
    <3>6. \A j \in last .. k : e \in F[j].epochs
      <4>1. SUFFICES ASSUME NEW j \in last .. k PROVE e \in F[j].epochs
        OBVIOUS
      <4>2. j = k \/ j \in last .. k - 1
        BY <2>2, <3>4
      <4>3. QED
        BY <3>3, <3>5, <4>2
    <3>7. QED
      BY <3>3, <3>4, <3>6 DEF FromFreeze
  <2>12. StepIs(c, d[k], k, n)
    BY <2>2, StepFields
  <2>7. CASE Skipped(c, d[k], k)
    <3>1. n.frozen = c.frozen /\ n.epochs = c.epochs /\ n.retired = c.retired
      BY <2>7, <2>12 DEF StepIs
    <3>2. FrozenSince(d, F, k)
      BY <2>5, <3>1
    <3>3. EpochsSince(d, F, k)
      BY <2>6, <3>1 DEF EpochsSince, n
    <3>4. QED
      BY <1>1, <3>2, <3>3
  <2>8. CASE Froze(c, d[k], k)
    <3>1. /\ n.frozen # None /\ n.frozen.freeze = k
          /\ d[k].val = Freeze(k, n.frozen.target) /\ n.frozen.safe = d[k].by
          /\ TargetValid(ClusterFor(c, k), n.frozen.target, c.retired)
          /\ n.epochs = c.epochs /\ n.retired = c.retired
      BY <2>8, <2>12 DEF StepIs
    <3>2. c.frozen = None
      BY <2>8 DEF Froze
    <3>3. \A j \in k .. k : F[j].frozen = n.frozen
      BY <2>2 DEF n
    <3>4. FrozenSince(d, F, k)
      BY <2>2, <3>1, <3>2, <3>3 DEF FrozenSince, n, c
    <3>5. EpochsSince(d, F, k)
      BY <2>6, <3>1 DEF EpochsSince, n
    <3>6. QED
      BY <1>1, <3>4, <3>5
  <2>9. CASE Aborted(c, d[k], k)
    <3>1. n.frozen = None /\ n.epochs = c.epochs
      BY <2>9, <2>12 DEF StepIs
    <3>2. FrozenSince(d, F, k)
      BY <3>1 DEF FrozenSince, n
    <3>3. EpochsSince(d, F, k)
      BY <2>6, <3>1 DEF EpochsSince, n
    <3>4. QED
      BY <1>1, <3>2, <3>3
  <2>10. CASE Finished(c, d[k], k)
    <3> DEFINE e == <<k + 1, z.target>>
    <3>1. n.frozen = None /\ n.epochs = c.epochs \cup {e}
      BY <2>10, <2>12 DEF StepIs
    <3>2. c.frozen # None /\ k = f + Window /\ d[k].val = Terminal("finish", f, z.target)
      BY <2>10 DEF Finished, Ended
    <3>3. FrozenSince(d, F, k)
      BY <3>1 DEF FrozenSince, n
    <3>4. /\ f \in 1 .. k /\ k \in 1 .. k /\ f \in 1 .. k - 1
          /\ e[1] = k + 1 /\ e[2] = z.target
      BY <2>2, <2>4, <3>2
    <3>5. \A j \in f .. k - 1 : /\ F[j].frozen # None
                                /\ F[j].frozen.freeze = f
                                /\ F[j].frozen.target = e[2]
      BY <2>4, <3>2, <3>4
    <3>6. \A j \in k .. k : e \in F[j].epochs
      BY <2>2, <3>1 DEF n
    <3>7. ClusterFor(F[f - 1], f).id + 1 = e[2].id
      BY <2>4, <3>2, <3>4 DEF TargetValid
    <3>8. FromFreeze(d, F, e, k)
      <4>1. F[f - 1].frozen = None /\ d[f].val = Freeze(f, e[2])
        BY <2>4, <3>2, <3>4
      <4> HIDE DEF e, f
      <4>2. QED
        BY <3>2, <3>4, <3>5, <3>6, <3>7, <4>1 DEF FromFreeze
    <3>9. EpochsSince(d, F, k)
      BY <2>6, <3>1, <3>8 DEF EpochsSince, n
    <3>10. QED
      BY <1>1, <3>3, <3>9
  <2>11. QED
    BY <1>2, <2>7, <2>8, <2>9, <2>10 DEF c
<1> HIDE DEF S
<1>5. 0 .. K \subseteq S
  BY <1>1, <1>3, <1>4, Induction
<1>6. QED
  BY <1>5 DEF S

\* A freeze lasts for a window.
LEMMA FrozenPersists ==
    ASSUME NEW C, CertsTyped(C), NEW d, IsLog(C, d), NEW F, NEW K, IsTrace(d, F, K),
           NEW j \in 0 .. K, F[j].frozen # None
    PROVE  \A k \in j .. K : k < F[j].frozen.freeze + Window => F[k].frozen = F[j].frozen
<1> DEFINE z == F[j].frozen
           S == {k \in 0 .. K : k < j \/ ~(k < z.freeze + Window) \/ F[k].frozen = z}
<1>1. K \in Nat /\ Window \in Nat /\ MaxSlot \in Nat /\ K <= MaxSlot
  BY ReconfigurationAssumption DEF IsTrace
<1>2. /\ \A k \in 0 .. K : CoreOK(F[k], k)
      /\ \A k \in 1 .. K : /\ k \in Slot /\ d[k].by \subseteq Node
                           /\ F[k] = Apply(F[k - 1], d[k])
                           /\ \/ Skipped(F[k - 1], d[k], k) \/ Froze(F[k - 1], d[k], k)
                              \/ Aborted(F[k - 1], d[k], k) \/ Finished(F[k - 1], d[k], k)
  BY TraceSteps
<1>3. z.freeze \in Nat
  BY <1>2 DEF CoreOK, CoreType, Frozen, Slot
<1>4. 0 \in S
  BY <1>1
<1>5. ASSUME NEW k \in 1 .. K, k - 1 \in S
      PROVE  k \in S
  <2>1. CASE k < j \/ ~(k < z.freeze + Window) \/ k = j
    BY <1>1, <2>1
  <2>2. CASE k > j /\ k < z.freeze + Window
    <3>1. F[k - 1].frozen = z
      BY <1>1, <1>3, <1>5, <2>2
    <3>2. CoreOK(F[k - 1], k - 1)
      BY <1>1, <1>2
    <3>3. StepIs(F[k - 1], d[k], k, F[k])
      BY <1>2, <3>2, StepFields
    <3>4. ~Froze(F[k - 1], d[k], k) /\ ~Aborted(F[k - 1], d[k], k) /\ ~Finished(F[k - 1], d[k], k)
      BY <1>1, <1>3, <2>2, <3>1, <3>3 DEF StepIs
    <3>5. F[k].frozen = z
      BY <1>2, <3>1, <3>3, <3>4 DEF StepIs
    <3>6. QED
      BY <1>1, <3>5
  <2>3. QED
    BY <1>1, <2>1, <2>2
<1> HIDE DEF S
<1>6. 0 .. K \subseteq S
  BY <1>1, <1>4, <1>5, Induction
<1>7. \A k \in j .. K : k \in 0 .. K /\ ~(k < j)
  BY <1>1
<1>8. QED
  BY <1>6, <1>7 DEF S

\* Epochs are only added, each with the slot above a terminal.
LEMMA EpochsGrow ==
    ASSUME NEW C, CertsTyped(C), NEW d, IsLog(C, d), NEW F, NEW K, IsTrace(d, F, K),
           NEW j \in 0 .. K
    PROVE  /\ F[j].epochs \subseteq F[K].epochs
           /\ \A e \in F[K].epochs : e[1] <= j + 1 => e \in F[j].epochs
<1>1. K \in Nat /\ Window \in Nat /\ MaxSlot \in Nat /\ K <= MaxSlot
  BY ReconfigurationAssumption DEF IsTrace
<1>2. /\ \A k \in 0 .. K : CoreOK(F[k], k)
      /\ \A k \in 1 .. K : /\ k \in Slot /\ d[k].by \subseteq Node
                           /\ F[k] = Apply(F[k - 1], d[k])
                           /\ \/ Skipped(F[k - 1], d[k], k) \/ Froze(F[k - 1], d[k], k)
                              \/ Aborted(F[k - 1], d[k], k) \/ Finished(F[k - 1], d[k], k)
  BY TraceSteps
<1>3. F[j].epochs \subseteq F[K].epochs
  <2> DEFINE S == {k \in 0 .. K : k < j \/ F[j].epochs \subseteq F[k].epochs}
  <2>1. 0 \in S
    BY <1>1
  <2>2. ASSUME NEW k \in 1 .. K, k - 1 \in S
        PROVE  k \in S
    <3>1. CASE k <= j
      BY <1>1, <3>1
    <3>2. CASE k > j
      <4>1. F[j].epochs \subseteq F[k - 1].epochs
        BY <1>1, <2>2, <3>2
      <4>2. CoreOK(F[k - 1], k - 1)
        BY <1>1, <1>2
      <4>3. StepIs(F[k - 1], d[k], k, F[k])
        BY <1>2, <4>2, StepFields
      <4>4. F[k - 1].epochs \subseteq F[k].epochs
        BY <1>2, <4>3 DEF StepIs
      <4>5. QED
        BY <1>1, <4>1, <4>4
    <3>3. QED
      BY <1>1, <3>1, <3>2
  <2> HIDE DEF S
  <2>3. 0 .. K \subseteq S
    BY <1>1, <2>1, <2>2, Induction
  <2>4. QED
    BY <1>1, <2>3 DEF S
<1>4. ASSUME NEW e \in F[K].epochs, e[1] <= j + 1
      PROVE  e \in F[j].epochs
  <2>1. EpochsSince(d, F, K)
    BY <1>1, TraceHistory
  <2>2. CASE e = <<1, First>>
    BY <1>2, <2>2 DEF CoreOK
  <2>3. CASE FromFreeze(d, F, e, K)
    <3>1. PICK f, last \in 1 .. K : e[1] = last + 1 /\ \A i \in last .. K : e \in F[i].epochs
      BY <2>3 DEF FromFreeze
    <3>2. j \in last .. K
      BY <1>1, <1>4, <3>1
    <3>3. QED
      BY <3>1, <3>2
  <2>4. QED
    BY <2>1, <2>2, <2>3 DEF EpochsSince
<1>5. QED
  BY <1>3, <1>4

-----------------------------------------------------------------------------
\* Two nodes that applied the same slots agree on everything but the recorders
\* that their certificates of the freeze name.
Similar(c, w) ==
    /\ c.tip = w.tip /\ c.epochs = w.epochs
    /\ c.abort = w.abort /\ c.retired = w.retired
    /\ c.frozen = None <=> w.frozen = None
    /\ c.frozen # None => /\ c.frozen.freeze = w.frozen.freeze
                          /\ c.frozen.target = w.frozen.target

ValuesAgree(C) == \A a, b \in C : a.slot = b.slot => a.val = b.val

\* Applying the same value to states that agree on configurations, whatever the
\* certificates, gives states that agree on them.
LEMMA ApplySimilar ==
    ASSUME NEW k \in Slot, NEW c, CoreOK(c, k - 1), NEW d, d.by \subseteq Node,
           NEW w, CoreOK(w, k - 1), NEW x, x.by \subseteq Node,
           Similar(c, w), d.val = x.val,
           \/ Skipped(c, d, k) \/ Froze(c, d, k) \/ Aborted(c, d, k) \/ Finished(c, d, k),
           \/ Skipped(w, x, k) \/ Froze(w, x, k) \/ Aborted(w, x, k) \/ Finished(w, x, k),
           CoreOK(Apply(c, d), k), CoreOK(Apply(w, x), k)
    PROVE  Similar(Apply(c, d), Apply(w, x))
<1> DEFINE a == Apply(c, d)
           b == Apply(w, x)
<1>1. StepIs(c, d, k, a) /\ StepIs(w, x, k, b)
  BY StepFields
<1>2. a.tip = b.tip
  BY DEF CoreOK
<1>3. c.frozen # None => c.frozen.freeze \in Nat
  BY DEF CoreOK, CoreType, Frozen, Slot
<1>4. Window \in Nat
  BY ReconfigurationAssumption
<1>5. Draining(c, k) <=> Draining(w, k)
  BY DEF Draining, Similar
<1>6. ClusterFor(c, k) = ClusterFor(w, k)
  BY DEF ClusterFor, Similar
<1> HIDE DEF a, b
<1>7. CASE Skipped(c, d, k)
  <2>1. Skipped(w, x, k)
    BY <1>1, <1>3, <1>4, <1>7 DEF StepIs, Similar, Draining
  <2>2. QED
    BY <1>1, <1>2, <1>7, <2>1 DEF StepIs, Similar, a, b
<1>8. CASE Froze(c, d, k)
  <2>1. Froze(w, x, k)
    BY <1>1, <1>8 DEF StepIs, Similar, Draining
  <2>2. a.frozen.target = b.frozen.target
    BY <1>1, <1>8, <2>1 DEF StepIs, Freeze
  <2>3. QED
    BY <1>1, <1>2, <1>8, <2>1, <2>2 DEF StepIs, Similar, a, b
<1>9. CASE Aborted(c, d, k)
  <2>1. Aborted(w, x, k)
    BY <1>1, <1>3, <1>4, <1>9 DEF StepIs, Similar, Draining
  <2>2. QED
    BY <1>1, <1>2, <1>9, <2>1 DEF StepIs, Similar, a, b
<1>10. CASE Finished(c, d, k)
  <2>1. Finished(w, x, k)
    BY <1>1, <1>3, <1>4, <1>10 DEF StepIs, Similar, Draining
  <2>2. c.frozen.target = w.frozen.target
    BY <1>1, <1>10 DEF StepIs, Similar
  <2>3. QED
    BY <1>1, <1>2, <1>6, <1>10, <2>1, <2>2 DEF StepIs, Similar, a, b
<1>11. QED
  BY <1>7, <1>8, <1>9, <1>10

\* Two logs with the same values derive the same configurations slot by slot.
LEMMA TwoTraces ==
    ASSUME NEW C, CertsTyped(C), ValuesAgree(C),
           NEW d, IsLog(C, d), NEW F, NEW K, IsTrace(d, F, K),
           NEW x, IsLog(C, x), NEW G, NEW L, IsTrace(x, G, L), K <= L
    PROVE  \A k \in 0 .. K : Similar(F[k], G[k])
<1> DEFINE S == {k \in 0 .. K : Similar(F[k], G[k])}
<1>1. K \in Nat /\ L \in Nat /\ MaxSlot \in Nat /\ K <= MaxSlot
  BY ReconfigurationAssumption DEF IsTrace
<1>2. 0 \in S
  BY <1>1 DEF IsTrace, Similar
<1>3. ASSUME NEW k \in 1 .. K, k - 1 \in S
      PROVE  k \in S
  <2>1. k \in 1 .. L /\ k - 1 \in 0 .. K /\ k - 1 \in 0 .. L /\ k \in 0 .. L /\ k \in 0 .. K
        /\ k \in Slot
    BY <1>1 DEF Slot
  <2>2. CoreOK(F[k - 1], k - 1) /\ CoreOK(F[k], k) /\ CoreOK(G[k - 1], k - 1) /\ CoreOK(G[k], k)
    BY <2>1, TraceSteps
  <2>3. /\ d[k].by \subseteq Node /\ F[k] = Apply(F[k - 1], d[k])
        /\ \/ Skipped(F[k - 1], d[k], k) \/ Froze(F[k - 1], d[k], k)
           \/ Aborted(F[k - 1], d[k], k) \/ Finished(F[k - 1], d[k], k)
    BY TraceSteps
  <2>4. /\ x[k].by \subseteq Node /\ G[k] = Apply(G[k - 1], x[k])
        /\ \/ Skipped(G[k - 1], x[k], k) \/ Froze(G[k - 1], x[k], k)
           \/ Aborted(G[k - 1], x[k], k) \/ Finished(G[k - 1], x[k], k)
    BY <2>1, TraceSteps
  <2>5. d[k].val = x[k].val
    <3>1. d[k] # None /\ x[k] # None
      BY <2>1 DEF IsTrace
    <3>2. PICK a \in C : a.slot = k /\ d[k] = Cert(a)
      BY <2>1, <3>1 DEF IsLog
    <3>3. PICK b \in C : b.slot = k /\ x[k] = Cert(b)
      BY <2>1, <3>1 DEF IsLog
    <3>4. QED
      BY <3>2, <3>3 DEF ValuesAgree, Cert
  <2>6. Similar(F[k - 1], G[k - 1])
    BY <1>3
  <2>7. Similar(F[k], G[k])
    BY <2>1, <2>2, <2>3, <2>4, <2>5, <2>6, ApplySimilar
  <2>8. QED
    BY <2>1, <2>7
<1> HIDE DEF S
<1>4. 0 .. K \subseteq S
  BY <1>1, <1>2, <1>3, Induction
<1>5. QED
  BY <1>4 DEF S

-----------------------------------------------------------------------------
\* The recursion of Prefixes has a solution.
StepTo(d, c, k) ==
    IF c.tip = k - 1 /\ d[k] # None /\ Applies(c, d[k]) THEN Apply(c, d[k]) ELSE c

\* Prefixes is the function its recursive definition describes: the solution
\* exists up to every bound, hence up to MaxSlot.
LEMMA PrefixesStep ==
    ASSUME NEW d
    PROVE  /\ Prefixes(d)[0] = NewCore
           /\ \A k \in 1 .. MaxSlot : Prefixes(d)[k] = StepTo(d, Prefixes(d)[k - 1], k)
<1> DEFINE Body(g, k) == IF k = 0 THEN NewCore ELSE StepTo(d, g[k - 1], k)
           Solves(g, n) == g = [k \in 0 .. n |-> Body(g, k)]
           S == {n \in 0 .. MaxSlot : \E g : Solves(g, n)}
<1>1. MaxSlot \in Nat
  BY ReconfigurationAssumption
<1>2. 0 \in S
  <2>1. Solves([k \in 0 .. 0 |-> NewCore], 0)
    OBVIOUS
  <2> HIDE DEF Solves
  <2>2. \E g : Solves(g, 0)
    BY <2>1
  <2>3. QED
    BY <1>1, <2>2
<1>3. ASSUME NEW n \in 1 .. MaxSlot, n - 1 \in S
      PROVE  n \in S
  <2>1. PICK g : Solves(g, n - 1)
    BY <1>3
  <2> DEFINE h == [k \in 0 .. n |-> IF k < n THEN g[k] ELSE StepTo(d, g[n - 1], n)]
  <2>2. ASSUME NEW k \in 0 .. n PROVE h[k] = Body(h, k)
    <3>1. CASE k = 0
      BY <1>1, <2>1, <3>1
    <3>2. CASE k \in 1 .. n - 1
      <4>1. k - 1 \in 0 .. n /\ k - 1 < n /\ k < n /\ k \in 0 .. n - 1 /\ k # 0
        BY <1>1, <3>2
      <4>2. h[k] = g[k] /\ h[k - 1] = g[k - 1]
        BY <4>1
      <4>3. g[k] = StepTo(d, g[k - 1], k)
        BY <2>1, <4>1
      <4>4. QED
        BY <4>1, <4>2, <4>3
    <3>3. CASE k = n
      <4>1. n - 1 \in 0 .. n /\ n - 1 < n /\ n # 0 /\ ~(n < n)
        BY <1>1
      <4>2. h[n - 1] = g[n - 1] /\ h[n] = StepTo(d, g[n - 1], n)
        BY <1>1, <4>1
      <4>3. QED
        BY <3>3, <4>1, <4>2
    <3>4. QED
      BY <1>1, <3>1, <3>2, <3>3
  <2>3. Solves(h, n)
    <3>1. h = [k \in 0 .. n |-> h[k]]
      OBVIOUS
    <3> HIDE DEF h
    <3>2. QED
      BY <2>2, <3>1
  <2> HIDE DEF Solves, h
  <2>4. \E g2 : Solves(g2, n)
    BY <2>3
  <2>5. QED
    BY <1>1, <2>4
<1>4. \E g : Solves(g, MaxSlot)
  <2> HIDE DEF S
  <2>1. 0 .. MaxSlot \subseteq S
    BY <1>1, <1>2, <1>3, Induction
  <2>2. QED
    BY <1>1, <2>1 DEF S
<1>5. Prefixes(d) = CHOOSE g : Solves(g, MaxSlot)
  BY DEF Prefixes, StepTo
<1>6. Solves(Prefixes(d), MaxSlot)
  BY <1>4, <1>5
<1>7. \A k \in 0 .. MaxSlot : Prefixes(d)[k] = Body(Prefixes(d), k)
  BY <1>6
<1>8. QED
  BY <1>1, <1>7

\* Advance follows a trace as far as it goes.
LEMMA AdvanceTrace ==
    ASSUME NEW C, CertsTyped(C), NEW d, IsLog(C, d)
    PROVE  LET F == Prefixes(d)
               K == Advance(d).tip
           IN  /\ IsTrace(d, F, K)
               /\ Advance(d) = F[K]
               /\ K < MaxSlot => d[K + 1] = None \/ ~Applies(F[K], d[K + 1])
<1> DEFINE F == Prefixes(d)
           P(k) == LET t == F[k].tip
                   IN /\ t \in 0 .. k
                      /\ IsTrace(d, F, t)
                      /\ F[k] = F[t]
                      /\ t < k => d[t + 1] = None \/ ~Applies(F[t], d[t + 1])
           S == {k \in 0 .. MaxSlot : P(k)}
<1>1. MaxSlot \in Nat
  BY ReconfigurationAssumption
<1>2. F[0] = NewCore /\ \A k \in 1 .. MaxSlot : F[k] = StepTo(d, F[k - 1], k)
  BY PrefixesStep
<1> HIDE DEF F
<1>3. 0 \in S
  <2>1. F[0].tip = 0
    BY <1>2 DEF NewCore
  <2>2. IsTrace(d, F, 0)
    BY <1>1, <1>2 DEF IsTrace
  <2>3. QED
    BY <1>1, <2>1, <2>2
<1>4. ASSUME NEW k \in 1 .. MaxSlot, k - 1 \in S
      PROVE  k \in S
  <2> DEFINE c == F[k - 1]
             t == c.tip
  <2>1. /\ t \in 0 .. k - 1 /\ IsTrace(d, F, t) /\ c = F[t]
        /\ t < k - 1 => d[t + 1] = None \/ ~Applies(F[t], d[t + 1])
    BY <1>4
  <2>2. F[k] = StepTo(d, c, k)
    BY <1>2
  <2>3. k \in Nat /\ k >= 1
    BY <1>1
  <2>4. CASE t = k - 1 /\ d[k] # None /\ Applies(c, d[k])
    <3>1. F[k] = Apply(F[k - 1], d[k])
      BY <2>2, <2>4 DEF StepTo
    <3>2. IsTrace(d, F, k)
      <4>1. IsTrace(d, F, k - 1)
        BY <2>1, <2>4
      <4>2. ASSUME NEW i \in 1 .. k
            PROVE  d[i] # None /\ Applies(F[i - 1], d[i]) /\ F[i] = Apply(F[i - 1], d[i])
        <5>1. CASE i = k
          BY <2>4, <3>1, <5>1
        <5>2. CASE i \in 1 .. k - 1
          BY <4>1, <5>2 DEF IsTrace
        <5>3. QED
          BY <2>3, <5>1, <5>2
      <4>3. QED
        BY <1>1, <1>2, <4>2 DEF IsTrace
    <3>3. F[k].tip = k
      <4>1. CoreOK(F[k], k)
        BY <2>3, <3>2, TraceSteps
      <4>2. QED
        BY <4>1 DEF CoreOK
    <3>4. QED
      BY <1>1, <2>3, <3>2, <3>3
  <2>5. CASE ~(t = k - 1 /\ d[k] # None /\ Applies(c, d[k]))
    <3>1. F[k] = c
      BY <2>2, <2>5 DEF StepTo
    <3>2. t \in 0 .. k /\ t < k
      BY <2>1, <2>3
    <3>3. d[t + 1] = None \/ ~Applies(F[t], d[t + 1])
      <4>1. CASE t = k - 1
        <5>1. t + 1 = k
          BY <2>3, <4>1
        <5>2. QED
          BY <2>1, <2>5, <4>1, <5>1
      <4>2. CASE t < k - 1
        BY <2>1, <4>2
      <4>3. QED
        BY <2>1, <2>3, <4>1, <4>2
    <3>4. QED
      BY <1>1, <2>1, <3>1, <3>2, <3>3
  <2>6. QED
    BY <2>4, <2>5
<1>5. P(MaxSlot)
  <2> HIDE DEF S
  <2>1. 0 .. MaxSlot \subseteq S
    BY <1>1, <1>3, <1>4, Induction
  <2>2. QED
    BY <1>1, <2>1 DEF S
<1>6. Advance(d) = F[MaxSlot]
  BY DEF Advance, F
<1>7. QED
  BY <1>1, <1>5, <1>6 DEF F

-----------------------------------------------------------------------------
\* The states that nodes can derive from the certificates in C.
Derived(C, c) ==
    \E d, F, K : IsLog(C, d) /\ IsTrace(d, F, K) /\ c = F[K]

\* More certificates derive more states.
LEMMA DerivedGrows ==
    ASSUME NEW C, NEW B, C \subseteq B, NEW c, Derived(C, c)
    PROVE  Derived(B, c)
<1>1. PICK d, F, K : IsLog(C, d) /\ IsTrace(d, F, K) /\ c = F[K]
  BY DEF Derived
<1>2. IsLog(B, d)
  BY <1>1 DEF IsLog
<1>3. QED
  BY <1>1, <1>2 DEF Derived

\* A derived state is well formed and its tip is a slot of the log.
LEMMA DerivedOK ==
    ASSUME NEW C, CertsTyped(C), NEW c, Derived(C, c)
    PROVE  CoreOK(c, c.tip) /\ c.tip \in 0 .. MaxSlot
<1>1. PICK d, F, K : IsLog(C, d) /\ IsTrace(d, F, K) /\ c = F[K]
  BY DEF Derived
<1>2. K \in 0 .. MaxSlot /\ K \in 0 .. K
  BY <1>1, ReconfigurationAssumption DEF IsTrace
<1>3. CoreOK(c, K)
  BY <1>1, <1>2, TraceSteps
<1>4. QED
  BY <1>2, <1>3 DEF CoreOK

\* Of two derived states, the shorter one knows the first epochs of the other.
LEMMA Comparable ==
    ASSUME NEW C, CertsTyped(C), ValuesAgree(C), NEW c, Derived(C, c),
           NEW w, Derived(C, w), c.tip <= w.tip
    PROVE  /\ c.epochs \subseteq w.epochs
           /\ \A e \in w.epochs : e[1] <= c.tip + 1 => e \in c.epochs
<1>1. PICK d, F, K : IsLog(C, d) /\ IsTrace(d, F, K) /\ c = F[K]
  BY DEF Derived
<1>2. PICK x, G, L : IsLog(C, x) /\ IsTrace(x, G, L) /\ w = G[L]
  BY DEF Derived
<1>3. K \in Nat /\ L \in Nat
  BY <1>1, <1>2, ReconfigurationAssumption DEF IsTrace
<1>4. CoreOK(F[K], K) /\ CoreOK(G[L], L)
  BY <1>1, <1>2, <1>3, TraceSteps
<1>5. c.tip = K /\ w.tip = L
  BY <1>1, <1>2, <1>4 DEF CoreOK
<1>6. Similar(F[K], G[K])
  BY <1>1, <1>2, <1>3, <1>5, TwoTraces
<1>7. /\ G[K].epochs \subseteq G[L].epochs
      /\ \A e \in G[L].epochs : e[1] <= K + 1 => e \in G[K].epochs
  BY <1>2, <1>3, <1>5, EpochsGrow
<1>8. QED
  BY <1>1, <1>2, <1>5, <1>6, <1>7 DEF Similar

\* An identifier names one epoch.
LEMMA OneEpoch ==
    ASSUME NEW C, CertsTyped(C), ValuesAgree(C), NEW c, Derived(C, c), NEW w, Derived(C, w),
           NEW e \in c.epochs, NEW g \in w.epochs, e[2].id = g[2].id
    PROVE  e = g
<1>1. CoreOK(c, c.tip) /\ CoreOK(w, w.tip) /\ c.tip \in Nat /\ w.tip \in Nat
  BY DerivedOK
<1>2. c.epochs \subseteq w.epochs \/ w.epochs \subseteq c.epochs
  BY <1>1, Comparable
<1>3. PICK u : CoreOK(u, u.tip) /\ e \in u.epochs /\ g \in u.epochs
  BY <1>1, <1>2
<1>4. e[1] \in Nat /\ g[1] \in Nat /\ e[2].id \in Nat
  BY <1>3 DEF CoreOK, CoreType, Target
<1>5. ~(e[1] < g[1]) /\ ~(g[1] < e[1])
  BY <1>3, <1>4 DEF CoreOK
<1>6. QED
  BY <1>3, <1>4, <1>5 DEF CoreOK

\* Whoever has applied the freeze of a change that was finished is frozen until
\* the terminal, and knows the new epoch from there on.
LEMMA EpochElsewhere ==
    ASSUME NEW C, CertsTyped(C), ValuesAgree(C), NEW c, Derived(C, c), NEW w, Derived(C, w),
           NEW e \in c.epochs, e # <<1, First>>
    PROVE  \E f, last \in Slot :
             /\ last = f + Window
             /\ e[1] = last + 1
             /\ w.tip >= last => e \in w.epochs
             /\ w.tip >= f /\ w.tip < last =>
                  w.frozen # None /\ w.frozen.freeze = f /\ w.frozen.target = e[2]
<1>1. PICK d, F, K : IsLog(C, d) /\ IsTrace(d, F, K) /\ c = F[K]
  BY DEF Derived
<1>2. PICK x, G, L : IsLog(C, x) /\ IsTrace(x, G, L) /\ w = G[L]
  BY DEF Derived
<1>3. K \in Nat /\ L \in Nat /\ MaxSlot \in Nat /\ K <= MaxSlot /\ L <= MaxSlot
  BY <1>1, <1>2, ReconfigurationAssumption DEF IsTrace
<1>4. CoreOK(F[K], K) /\ CoreOK(G[L], L)
  BY <1>1, <1>2, <1>3, TraceSteps
<1>5. c.tip = K /\ w.tip = L
  BY <1>1, <1>2, <1>4 DEF CoreOK
<1>6. EpochsSince(d, F, K)
  BY <1>1, <1>3, TraceHistory
<1>7. FromFreeze(d, F, e, K)
  BY <1>1, <1>6 DEF EpochsSince
<1>8. PICK f, last \in 1 .. K :
        /\ last = f + Window
        /\ e[1] = last + 1
        /\ \A j \in f .. last - 1 : /\ F[j].frozen # None
                                    /\ F[j].frozen.freeze = f
                                    /\ F[j].frozen.target = e[2]
        /\ \A j \in last .. K : e \in F[j].epochs
  BY <1>7 DEF FromFreeze
<1>9. f \in Slot /\ last \in Slot
  BY <1>3 DEF Slot
<1>10. CASE L >= K
  <2>1. c.epochs \subseteq w.epochs
    BY <1>3, <1>5, <1>10, Comparable
  <2>2. ~(L < last)
    BY <1>3, <1>10
  <2>3. QED
    BY <1>5, <1>8, <1>9, <2>1, <2>2
<1>11. CASE L < K
  <2>1. Similar(G[L], F[L])
    BY <1>1, <1>2, <1>3, <1>11, TwoTraces
  <2>2. w.tip >= last => e \in w.epochs
    <3>1. SUFFICES ASSUME L >= last PROVE e \in w.epochs
      BY <1>5
    <3>2. L \in last .. K
      BY <1>3, <1>11, <3>1
    <3>3. QED
      BY <1>2, <1>8, <2>1, <3>2 DEF Similar
  <2>3. ASSUME w.tip >= f, w.tip < last
        PROVE  w.frozen # None /\ w.frozen.freeze = f /\ w.frozen.target = e[2]
    <3>1. L \in f .. last - 1
      BY <1>3, <1>5, <2>3
    <3>2. F[L].frozen # None /\ F[L].frozen.freeze = f /\ F[L].frozen.target = e[2]
      BY <1>8, <3>1
    <3>3. QED
      BY <1>2, <2>1, <3>2 DEF Similar
  <2>4. QED
    BY <1>8, <1>9, <2>2, <2>3
<1>12. QED
  BY <1>3, <1>10, <1>11

\* A slot that some node drains.
Drained(C, s) ==
    \E w : /\ Derived(C, w)
           /\ w.frozen # None
           /\ w.frozen.freeze < s
           /\ s < w.frozen.freeze + Window

\* The states that a node passed through on the way to c.
LEMMA StateAt ==
    ASSUME NEW C, CertsTyped(C), NEW c, Derived(C, c), NEW k \in Nat, k <= c.tip
    PROVE  \E a : /\ Derived(C, a) /\ a.tip = k
                  /\ a.frozen # None /\ c.tip < a.frozen.freeze + Window => c.frozen = a.frozen
                  /\ c.frozen # None /\ c.frozen.freeze <= k => a.frozen = c.frozen
<1>1. PICK d, F, K : IsLog(C, d) /\ IsTrace(d, F, K) /\ c = F[K]
  BY DEF Derived
<1>2. K \in Nat /\ K \in 0 .. K /\ K <= MaxSlot /\ MaxSlot \in Nat
  BY <1>1, ReconfigurationAssumption DEF IsTrace
<1>3. CoreOK(F[K], K)
  BY <1>1, <1>2, TraceSteps
<1>4. c.tip = K /\ k \in 0 .. K
  BY <1>1, <1>2, <1>3 DEF CoreOK
<1>5. IsTrace(d, F, k)
  BY <1>1, <1>2, <1>4 DEF IsTrace
<1>6. Derived(C, F[k]) /\ F[k].tip = k
  <2>1. CoreOK(F[k], k)
    BY <1>1, <1>4, TraceSteps
  <2>2. QED
    BY <1>1, <1>5, <2>1 DEF Derived, CoreOK
<1>7. ASSUME F[k].frozen # None, c.tip < F[k].frozen.freeze + Window
      PROVE  c.frozen = F[k].frozen
  <2>1. K \in k .. K
    BY <1>2, <1>4
  <2>2. QED
    BY <1>1, <1>4, <1>7, <2>1, FrozenPersists
<1>8. ASSUME c.frozen # None, c.frozen.freeze <= k
      PROVE  F[k].frozen = c.frozen
  <2>1. FrozenSince(d, F, K)
    BY <1>1, <1>2, TraceHistory
  <2>2. c.frozen.freeze \in 1 .. K /\ \A j \in c.frozen.freeze .. K : F[j].frozen = c.frozen
    BY <1>1, <1>8, <2>1 DEF FrozenSince
  <2>3. k \in c.frozen.freeze .. K
    BY <1>2, <1>4, <1>8, <2>2
  <2>4. QED
    BY <2>2, <2>3
<1>9. QED
  BY <1>6, <1>7, <1>8

\* Two derived states with the same tip are alike.
LEMMA SameTip ==
    ASSUME NEW C, CertsTyped(C), ValuesAgree(C), NEW c, Derived(C, c), NEW w, Derived(C, w),
           c.tip = w.tip
    PROVE  Similar(c, w)
<1>1. PICK d, F, K : IsLog(C, d) /\ IsTrace(d, F, K) /\ c = F[K]
  BY DEF Derived
<1>2. PICK x, G, L : IsLog(C, x) /\ IsTrace(x, G, L) /\ w = G[L]
  BY DEF Derived
<1>3. K \in Nat /\ L \in Nat
  BY <1>1, <1>2, ReconfigurationAssumption DEF IsTrace
<1>4. CoreOK(F[K], K) /\ CoreOK(G[L], L)
  BY <1>1, <1>2, <1>3, TraceSteps
<1>5. K = L
  BY <1>1, <1>2, <1>4 DEF CoreOK
<1>6. QED
  BY <1>1, <1>2, <1>3, <1>5, TwoTraces

\* The slot after a prefix that leaves no change frozen is not drained.
LEMMA NotDrained ==
    ASSUME NEW C, CertsTyped(C), ValuesAgree(C), NEW b, Derived(C, b), b.frozen = None
    PROVE  ~Drained(C, b.tip + 1)
<1>1. SUFFICES ASSUME NEW w, Derived(C, w), w.frozen # None, w.frozen.freeze < b.tip + 1,
                      b.tip + 1 < w.frozen.freeze + Window
               PROVE  FALSE
  BY DEF Drained
<1>2. b.tip \in Nat /\ w.tip \in Nat /\ CoreOK(w, w.tip) /\ Window \in Nat
  BY <1>1, DerivedOK, ReconfigurationAssumption
<1>3. w.frozen.freeze \in Nat /\ w.frozen.freeze <= b.tip /\ b.tip < w.frozen.freeze + Window
  <2>1. w.frozen.freeze \in Nat
    BY <1>1, <1>2, ReconfigurationAssumption DEF CoreOK, CoreType, Frozen, Slot
  <2>2. QED
    BY <1>1, <1>2, <2>1
<1>4. CASE w.tip <= b.tip
  <2>1. PICK a : /\ Derived(C, a) /\ a.tip = w.tip
                 /\ a.frozen # None /\ b.tip < a.frozen.freeze + Window => b.frozen = a.frozen
    BY <1>2, <1>4, StateAt
  <2>2. Similar(a, w)
    BY <1>1, <2>1, SameTip
  <2>3. a.frozen # None /\ a.frozen.freeze = w.frozen.freeze
    BY <1>1, <2>2 DEF Similar
  <2>4. QED
    BY <1>3, <2>1, <2>3
<1>5. CASE b.tip <= w.tip
  <2>1. PICK a : Derived(C, a) /\ a.tip = b.tip /\ a.frozen = w.frozen
    BY <1>1, <1>2, <1>3, <1>5, StateAt
  <2>2. Similar(a, b)
    BY <2>1, SameTip
  <2>3. QED
    BY <1>1, <2>1, <2>2 DEF Similar
<1>6. QED
  BY <1>2, <1>4, <1>5

\* The freeze of a finished change is decided, in a slot that is not drained, at
\* the end of a prefix in which the configuration before the new one is current.
LEMMA FreezeDecided ==
    ASSUME NEW C, CertsTyped(C), ValuesAgree(C), NEW c, Derived(C, c),
           NEW e \in c.epochs, e # <<1, First>>
    PROVE  \E f \in Slot :
             /\ e[1] = f + Window + 1
             /\ \E cert \in C : cert.slot = f /\ cert.val = Freeze(f, e[2])
             /\ ~Drained(C, f)
             /\ \E b : /\ Derived(C, b) /\ b.tip = f - 1
                       /\ ClusterFor(b, f).id + 1 = e[2].id
<1>1. PICK d, F, K : IsLog(C, d) /\ IsTrace(d, F, K) /\ c = F[K]
  BY DEF Derived
<1>2. K \in Nat /\ MaxSlot \in Nat /\ K <= MaxSlot /\ Window \in Nat
  BY <1>1, ReconfigurationAssumption DEF IsTrace
<1>3. EpochsSince(d, F, K)
  BY <1>1, <1>2, TraceHistory
<1>4. FromFreeze(d, F, e, K)
  BY <1>1, <1>3 DEF EpochsSince
<1>5. PICK f, last \in 1 .. K :
        /\ last = f + Window
        /\ e[1] = last + 1
        /\ F[f - 1].frozen = None
        /\ d[f].val = Freeze(f, e[2])
        /\ ClusterFor(F[f - 1], f).id + 1 = e[2].id
  BY <1>4 DEF FromFreeze
<1>6. f \in Slot /\ f - 1 \in 0 .. K
  BY <1>2 DEF Slot
<1>7. \E cert \in C : cert.slot = f /\ cert.val = Freeze(f, e[2])
  <2>1. d[f] # None
    BY <1>1 DEF IsTrace
  <2>2. QED
    BY <1>1, <1>5, <1>6, <2>1 DEF IsLog, Cert
<1>8. IsTrace(d, F, f - 1)
  BY <1>1, <1>2, <1>6 DEF IsTrace
<1>9. Derived(C, F[f - 1]) /\ F[f - 1].tip = f - 1
  <2>1. CoreOK(F[f - 1], f - 1)
    BY <1>1, <1>6, TraceSteps
  <2>2. QED
    BY <1>1, <1>8, <2>1 DEF Derived, CoreOK
<1>10. ~Drained(C, f)
  <2>1. ~Drained(C, F[f - 1].tip + 1)
    BY <1>5, <1>9, NotDrained
  <2>2. F[f - 1].tip + 1 = f
    BY <1>2, <1>6, <1>9 DEF Slot
  <2>3. QED
    BY <2>1, <2>2
<1>11. QED
  BY <1>5, <1>6, <1>7, <1>9, <1>10

-----------------------------------------------------------------------------
\* A value that a recorder in state w may record in slot s of its own accord.
Admissible(w, s, v) ==
    /\ w.tip < s
    /\ \/ v = Write /\ (w.frozen # None => s < w.frozen.freeze + Window)
       \/ \E t \in Target :
            /\ v = Freeze(s, t)
            /\ w.frozen # None => s < w.frozen.freeze + Window
            /\ w.frozen = None => TargetValid(ClusterFor(w, s), t, w.retired)
       \/ \E kind \in {"finish", "abort"} :
            /\ w.frozen # None /\ s = w.frozen.freeze + Window /\ w.tip = s - 1
            /\ v = Terminal(kind, w.frozen.freeze, w.frozen.target)
            /\ kind = "abort" => Adds(ClusterFor(w, s), w.frozen.target)

\* A value that some certificate has already decided.
Echoes(C, s, v) == \E z \in C : z.slot = s /\ z.val = v

\* A vote that was recorded inside the window, under the configuration and by the
\* rules of a state that could be derived.
VoteOK(C, v) ==
    \E w : /\ Derived(C, w)
           /\ v.slot <= w.tip + Window
           /\ v.cfg = ClusterFor(w, v.slot).id
           /\ w.frozen # None => v.slot <= w.frozen.freeze + Window
           /\ Admissible(w, v.slot, v.val) \/ Echoes(C, v.slot, v.val)

\* The promise that a recorder makes with a vote for a freeze in slot f.
Promised(C, V, r, f) ==
    \A v \in V : v.rec = r /\ v.slot >= f + Window => VoteOK(C, v)

\* A certificate was assembled from the votes of a quorum of the configuration it
\* names.
Supported(C, V, cert) ==
    /\ \E w : LET cfg == ClusterFor(w, cert.slot) IN
              /\ Derived(C, w)
              /\ cert.cfg = cfg.id
              /\ cert.by \subseteq cfg.members
              /\ Cardinality(cert.by) >= QuorumSize(cfg)
    /\ \A r \in cert.by : Vote(r, cert.slot, cert.val, cert.cfg) \in V

\* A freeze that takes effect was decided by recorders that made the promise.
FreezePromised(C, V, cert) ==
    \/ Drained(C, cert.slot)
    \/ \E z \in C : /\ z.slot = cert.slot /\ z.val = cert.val
                    /\ \A r \in z.by : Promised(C, V, r, z.slot)

\* What holds of the certificates and the votes.
CertsOK(C, V) ==
    /\ CertsTyped(C)
    /\ \A cert \in C : Supported(C, V, cert)
    /\ \A cert \in C : cert.val.kind = "freeze" => FreezePromised(C, V, cert)

OneValue(C) ==
    \A c1, c2 \in C : c1.slot = c2.slot => c1.val = c2.val /\ c1.cfg = c2.cfg

\* The epochs of a derived state have configurations with finite memberships.
LEMMA EpochFacts ==
    ASSUME NEW c, CoreOK(c, c.tip), c.tip \in Nat
    PROVE  \A e \in c.epochs : /\ e[1] \in Nat /\ e[1] >= 1
                               /\ e[2].id \in Nat /\ e[2].id >= 1
                               /\ e[2].members \subseteq Node /\ IsFiniteSet(e[2].members)
<1>1. \A e \in c.epochs : e[1] \in Nat /\ e[1] >= 1 /\ e[2].id >= 1
  BY DEF CoreOK, CoreType
<1>2. \A e \in c.epochs : e[2].id \in Nat /\ e[2].members \subseteq Node
  BY DEF CoreOK, CoreType, Target
<1>3. IsFiniteSet(Node)
  BY ReconfigurationAssumption
<1>4. \A e \in c.epochs : IsFiniteSet(e[2].members)
  BY <1>2, <1>3, FS_Subset
<1>5. QED
  BY <1>1, <1>2, <1>4

\* Nobody finds a later configuration for a slot than a node that applied
\* everything below it.
LEMMA ClusterBound ==
    ASSUME NEW C, CertsTyped(C), ValuesAgree(C), NEW s \in Slot,
           NEW b, Derived(C, b), b.tip >= s - 1, NEW w, Derived(C, w)
    PROVE  /\ ClusterFor(w, s).id \in Nat /\ ClusterFor(b, s).id \in Nat
           /\ ClusterFor(w, s).id <= ClusterFor(b, s).id
<1>1. CoreOK(b, b.tip) /\ CoreOK(w, w.tip) /\ b.tip \in Nat /\ w.tip \in Nat
  BY DerivedOK
<1>2. s \in Nat /\ s >= 1
  BY ReconfigurationAssumption DEF Slot
<1>3. PICK e \in w.epochs : e[1] <= s /\ ClusterFor(w, s) = e[2]
  BY <1>1, <1>2, ClusterIs
<1>4. PICK z \in b.epochs : /\ ClusterFor(b, s) = z[2]
                            /\ \A g \in b.epochs : g[1] <= s => g[2].id <= z[2].id
  BY <1>1, <1>2, ClusterIs
<1>5. e[1] \in Nat /\ e[2].id \in Nat /\ z[2].id \in Nat
  BY <1>1, EpochFacts
<1>6. e \in b.epochs
  <2>1. CASE w.tip <= b.tip
    BY <2>1, Comparable
  <2>2. CASE b.tip <= w.tip
    <3>1. e[1] <= b.tip + 1
      BY <1>1, <1>2, <1>3, <1>5
    <3>2. QED
      BY <2>2, <3>1, Comparable
  <2>3. QED
    BY <1>1, <2>1, <2>2
<1>7. QED
  BY <1>3, <1>4, <1>5, <1>6

\* Two quorums of one configuration share a member.
LEMMA QuorumsMeet ==
    ASSUME NEW cfg, IsFiniteSet(cfg.members), NEW A, NEW B,
           A \subseteq cfg.members, B \subseteq cfg.members,
           Cardinality(A) >= QuorumSize(cfg), Cardinality(B) >= QuorumSize(cfg)
    PROVE  \E r \in A : r \in B
<1>1. Cardinality(cfg.members) \in Nat /\ Cardinality(A) \in Nat /\ Cardinality(B) \in Nat
  BY FS_Subset, FS_CardinalityType
<1>2. Cardinality(A) + Cardinality(B) > Cardinality(cfg.members)
  BY <1>1 DEF QuorumSize
<1>3. A \cap B # {}
  BY <1>2, FS_MajoritiesIntersect
<1>4. QED
  BY <1>3


\* The heart of a change of voters.  Once epoch e was derived, no quorum of the
\* configuration before it has voted under that configuration in a slot of e: one
\* of those voters promised the freeze, so its vote was recorded after it had
\* applied the freeze, and then the slot lies beyond the terminal or is e's.
LEMMA NoOldQuorumIf ==
    ASSUME NEW C, NEW V, CertsOK(C, V), ValuesAgree(C), NEW c, Derived(C, c),
           NEW e \in c.epochs, NEW g \in c.epochs, e # <<1, First>>, g[2].id + 1 = e[2].id,
           \A z \in C : z.slot + Window + 1 = e[1] => z.cfg = g[2].id,
           NEW s \in Slot, e[1] <= s, NEW by, by \subseteq g[2].members,
           Cardinality(by) >= QuorumSize(g[2]),
           \A r \in by : \E v \in V : v.rec = r /\ v.slot = s /\ v.cfg = g[2].id
    PROVE  FALSE
<1>1. CertsTyped(C) /\ CoreOK(c, c.tip) /\ c.tip \in Nat /\ Window \in Nat /\ Window > 0
      /\ s \in Nat /\ Slot \subseteq Nat
  BY DerivedOK, ReconfigurationAssumption DEF CertsOK, Slot
<1>2. e[2].id \in Nat /\ g[2].id \in Nat /\ IsFiniteSet(g[2].members) /\ e[1] \in Nat
  BY <1>1, EpochFacts
<1>3. PICK f \in Slot : /\ e[1] = f + Window + 1
                        /\ \E cert \in C : cert.slot = f /\ cert.val = Freeze(f, e[2])
                        /\ ~Drained(C, f)
  BY <1>1, FreezeDecided
<1>4. PICK cert \in C : cert.slot = f /\ cert.val = Freeze(f, e[2])
  BY <1>3
<1>5. cert.val.kind = "freeze"
  BY <1>4 DEF Freeze
<1>6. PICK z \in C : z.slot = f /\ \A r \in z.by : Promised(C, V, r, f)
  BY <1>3, <1>4, <1>5 DEF CertsOK, FreezePromised
<1>7. z.cfg = g[2].id
  BY <1>1, <1>3, <1>6
<1>8. z.by \subseteq g[2].members /\ Cardinality(z.by) >= QuorumSize(g[2])
  <2>1. PICK w : /\ Derived(C, w) /\ z.cfg = ClusterFor(w, f).id
                 /\ z.by \subseteq ClusterFor(w, f).members
                 /\ Cardinality(z.by) >= QuorumSize(ClusterFor(w, f))
    BY <1>6 DEF CertsOK, Supported
  <2>2. CoreOK(w, w.tip) /\ w.tip \in Nat /\ f \in Nat /\ f >= 1
    BY <1>1, <2>1, DerivedOK DEF Slot
  <2>3. PICK x \in w.epochs : ClusterFor(w, f) = x[2]
    BY <2>2, ClusterIs
  <2>4. x = g
    <3>1. x[2].id = g[2].id
      BY <1>7, <2>1, <2>3
    <3>2. QED
      BY <1>1, <2>1, <3>1, OneEpoch
  <2>5. QED
    BY <2>1, <2>3, <2>4
<1>9. PICK r \in by : r \in z.by
  BY <1>2, <1>8, QuorumsMeet
<1>10. PICK v \in V : v.rec = r /\ v.slot = s /\ v.cfg = g[2].id
  BY <1>9
<1>11. VoteOK(C, v)
  BY <1>1, <1>3, <1>6, <1>9, <1>10 DEF Promised
<1>12. PICK w : /\ Derived(C, w) /\ s <= w.tip + Window
                /\ g[2].id = ClusterFor(w, s).id
                /\ w.frozen # None => s <= w.frozen.freeze + Window
  BY <1>10, <1>11 DEF VoteOK
<1>13. CoreOK(w, w.tip) /\ w.tip \in Nat
  BY <1>1, <1>12, DerivedOK
<1>14. PICK h, last \in Slot :
             /\ last = h + Window
             /\ e[1] = last + 1
             /\ w.tip >= last => e \in w.epochs
             /\ w.tip >= h /\ w.tip < last =>
                  w.frozen # None /\ w.frozen.freeze = h /\ w.frozen.target = e[2]
  BY <1>1, <1>12, EpochElsewhere
<1>15. h = f /\ w.tip >= h /\ s > h + Window
  BY <1>1, <1>2, <1>3, <1>12, <1>13, <1>14
<1>16. ~(w.tip < last)
  <2>1. SUFFICES ASSUME w.tip < last PROVE FALSE
    OBVIOUS
  <2>2. w.frozen # None /\ w.frozen.freeze = h
    BY <1>14, <1>15, <2>1
  <2>3. s <= h + Window
    BY <1>12, <2>2
  <2>4. s \in Nat /\ h \in Nat /\ Window \in Nat
    BY <1>1
  <2>5. s > h + Window
    BY <1>15
  <2>6. QED
    BY <2>3, <2>4, <2>5
<1>17. e \in w.epochs
  BY <1>1, <1>13, <1>14, <1>16
<1>18. PICK x \in w.epochs : /\ ClusterFor(w, s) = x[2]
                             /\ \A y \in w.epochs : y[1] <= s => y[2].id <= x[2].id
  BY <1>1, <1>13, ClusterIs DEF Slot
<1>19. e[2].id <= g[2].id
  BY <1>12, <1>17, <1>18
<1>20. QED
  BY <1>2, <1>19

\* Some epoch has each identifier up to that of a slot's configuration, and starts
\* at or below the slot.
LEMMA EpochBelow ==
    ASSUME NEW c, CoreOK(c, c.tip), c.tip \in Nat, NEW s \in Slot,
           NEW i \in Nat, i >= 1, i <= ClusterFor(c, s).id
    PROVE  \E e \in c.epochs : e[2].id = i /\ e[1] <= s
<1>1. s \in Nat /\ s >= 1
  BY ReconfigurationAssumption DEF Slot
<1>2. PICK z \in c.epochs : z[1] <= s /\ ClusterFor(c, s) = z[2]
  BY <1>1, ClusterIs
<1>3. z[2].id \in Nat /\ z[1] \in Nat
  BY EpochFacts
<1>4. i \in 1 .. z[2].id
  BY <1>2, <1>3
<1>5. PICK e \in c.epochs : e[2].id = i
  BY <1>4 DEF CoreOK
<1>6. ~(z[1] < e[1])
  BY <1>3, <1>4, <1>5 DEF CoreOK
<1>7. e[1] \in Nat
  BY EpochFacts
<1>8. QED
  BY <1>1, <1>2, <1>3, <1>5, <1>6, <1>7

\* A certificate names the last configuration that anyone will know for its slot.
LEMMA CertCurrent ==
    ASSUME NEW C, NEW V, CertsOK(C, V), ValuesAgree(C)
    PROVE  \A cert \in C : \A c : Derived(C, c) =>
             /\ cert.cfg \in Nat /\ ClusterFor(c, cert.slot).id \in Nat
             /\ ClusterFor(c, cert.slot).id <= cert.cfg
<1> DEFINE Late(s) == \E cert \in C : \E c : /\ cert.slot = s /\ Derived(C, c)
                                             /\ ClusterFor(c, s).id > cert.cfg
           T == {s \in Slot : Late(s)}
<1>1. CertsTyped(C) /\ Window \in Nat /\ Slot \subseteq Nat /\ \A s \in Slot : s >= 1
  BY ReconfigurationAssumption DEF CertsOK, Slot
<1>2. ASSUME NEW cert \in C, NEW c, Derived(C, c)
      PROVE  cert.slot \in Slot /\ cert.cfg \in Nat /\ cert.cfg >= 1
             /\ ClusterFor(c, cert.slot).id \in Nat
  <2>1. PICK w : Derived(C, w) /\ cert.cfg = ClusterFor(w, cert.slot).id
    BY DEF CertsOK, Supported
  <2>2. cert.slot \in Slot
    BY <1>1 DEF CertsTyped
  <2>3. CoreOK(w, w.tip) /\ w.tip \in Nat /\ CoreOK(c, c.tip) /\ c.tip \in Nat
    BY <1>1, <1>2, <2>1, DerivedOK
  <2>4. PICK x \in w.epochs : ClusterFor(w, cert.slot) = x[2]
    BY <1>1, <2>2, <2>3, ClusterIs
  <2>5. PICK y \in c.epochs : ClusterFor(c, cert.slot) = y[2]
    BY <1>1, <2>2, <2>3, ClusterIs
  <2>6. QED
    BY <2>1, <2>2, <2>3, <2>4, <2>5, EpochFacts
<1>3. ASSUME T # {} PROVE FALSE
  <2>1. PICK s \in T : \A t \in T : s <= t
    BY <1>1, <1>3, LeastNatural
  <2>2. PICK cert, c : /\ cert \in C /\ cert.slot = s /\ Derived(C, c)
                        /\ ClusterFor(c, s).id > cert.cfg
    BY <2>1
  <2> DEFINE i == cert.cfg
  <2>3. i \in Nat /\ i >= 1 /\ ClusterFor(c, s).id \in Nat /\ s \in Slot
    BY <1>2, <2>2
  <2>4. CoreOK(c, c.tip) /\ c.tip \in Nat
    BY <1>1, <2>2, DerivedOK
  <2>5. PICK e \in c.epochs : e[2].id = i + 1 /\ e[1] <= s
    <3>1. i + 1 \in Nat /\ i + 1 >= 1 /\ i + 1 <= ClusterFor(c, s).id
      BY <2>2, <2>3
    <3>2. QED
      BY <2>3, <2>4, <3>1, EpochBelow
  <2>6. PICK g \in c.epochs : g[2].id = i
    <3>1. i <= ClusterFor(c, s).id
      BY <2>2, <2>3
    <3>2. QED
      BY <2>3, <2>4, <3>1, EpochBelow
  <2>7. e # <<1, First>>
    BY <2>3, <2>5 DEF First
  <2>8. PICK f \in Slot : /\ e[1] = f + Window + 1
                          /\ \E b : /\ Derived(C, b) /\ b.tip = f - 1
                                    /\ ClusterFor(b, f).id + 1 = e[2].id
    BY <1>1, <2>2, <2>7, FreezeDecided
  <2>9. PICK b : Derived(C, b) /\ b.tip = f - 1 /\ ClusterFor(b, f).id + 1 = e[2].id
    BY <2>8
  <2>10. f \notin T
    BY <1>1, <2>1, <2>3, <2>5, <2>8
  <2>11. ASSUME NEW z \in C, z.slot + Window + 1 = e[1]
         PROVE  z.cfg = g[2].id
    <3>1. z.slot = f
      BY <1>1, <1>2, <2>2, <2>8, <2>11
    <3>2. z.cfg \in Nat /\ ClusterFor(b, f).id \in Nat
      BY <1>2, <2>9, <3>1
    <3>3. ~(ClusterFor(b, f).id > z.cfg)
      BY <2>9, <2>10, <3>1
    <3>4. PICK w : Derived(C, w) /\ z.cfg = ClusterFor(w, f).id
      BY <3>1 DEF CertsOK, Supported
    <3>5. z.cfg <= ClusterFor(b, f).id
      <4>1. b.tip >= f - 1
        BY <1>1, <2>9
      <4>2. QED
        BY <1>1, <2>9, <3>4, <4>1, ClusterBound
    <3>6. QED
      BY <2>3, <2>5, <2>6, <2>9, <3>2, <3>3, <3>5
  <2>12. cert.by \subseteq g[2].members /\ Cardinality(cert.by) >= QuorumSize(g[2])
    <3>1. PICK w : /\ Derived(C, w) /\ cert.cfg = ClusterFor(w, s).id
                   /\ cert.by \subseteq ClusterFor(w, s).members
                   /\ Cardinality(cert.by) >= QuorumSize(ClusterFor(w, s))
      BY <2>2 DEF CertsOK, Supported
    <3>2. CoreOK(w, w.tip) /\ w.tip \in Nat
      BY <1>1, <3>1, DerivedOK
    <3>3. PICK x \in w.epochs : ClusterFor(w, s) = x[2]
      BY <1>1, <2>3, <3>2, ClusterIs
    <3>4. x = g
      BY <1>1, <2>2, <2>6, <3>1, <3>3, OneEpoch
    <3>5. QED
      BY <3>1, <3>3, <3>4
  <2>13. \A r \in cert.by : \E v \in V : v.rec = r /\ v.slot = s /\ v.cfg = g[2].id
    <3>1. \A r \in cert.by : Vote(r, s, cert.val, i) \in V
      BY <2>2 DEF CertsOK, Supported
    <3>2. QED
      BY <2>6, <3>1 DEF Vote
  <2>14. QED
    BY <2>2, <2>3, <2>5, <2>6, <2>7, <2>11, <2>12, <2>13, NoOldQuorumIf
<1>4. QED
  BY <1>2, <1>3

\* The same without the condition on the freeze: it was decided under the
\* configuration before e.
LEMMA NoOldQuorum ==
    ASSUME NEW C, NEW V, CertsOK(C, V), ValuesAgree(C), NEW c, Derived(C, c),
           NEW e \in c.epochs, NEW g \in c.epochs, e # <<1, First>>, g[2].id + 1 = e[2].id,
           NEW s \in Slot, e[1] <= s, NEW by, by \subseteq g[2].members,
           Cardinality(by) >= QuorumSize(g[2]),
           \A r \in by : \E v \in V : v.rec = r /\ v.slot = s /\ v.cfg = g[2].id
    PROVE  FALSE
<1>1. CertsTyped(C) /\ Window \in Nat /\ Slot \subseteq Nat
  BY ReconfigurationAssumption DEF CertsOK, Slot
<1>2. PICK f \in Slot : /\ e[1] = f + Window + 1
                        /\ \E b : /\ Derived(C, b) /\ b.tip = f - 1
                                  /\ ClusterFor(b, f).id + 1 = e[2].id
  BY <1>1, FreezeDecided
<1>3. PICK b : Derived(C, b) /\ b.tip = f - 1 /\ ClusterFor(b, f).id + 1 = e[2].id
  BY <1>2
<1>4. g[2].id \in Nat /\ e[2].id \in Nat
  <2>1. CoreOK(c, c.tip) /\ c.tip \in Nat
    BY <1>1, DerivedOK
  <2>2. QED
    BY <2>1, EpochFacts
<1>5. ASSUME NEW z \in C, z.slot + Window + 1 = e[1]
      PROVE  z.cfg = g[2].id
  <2>1. z.slot = f
    <3>1. z.slot \in Nat /\ f \in Nat
      BY <1>1 DEF CertsTyped
    <3>2. QED
      BY <1>1, <1>2, <1>5, <3>1
  <2>2. z.cfg \in Nat /\ ClusterFor(b, f).id \in Nat /\ ClusterFor(b, f).id <= z.cfg
    BY <1>3, <2>1, CertCurrent
  <2>3. PICK w : Derived(C, w) /\ z.cfg = ClusterFor(w, f).id
    BY <2>1 DEF CertsOK, Supported
  <2>4. b.tip >= f - 1
    BY <1>1, <1>3
  <2>5. z.cfg <= ClusterFor(b, f).id
    BY <1>1, <1>3, <2>3, <2>4, ClusterBound
  <2>6. QED
    BY <1>3, <1>4, <2>2, <2>5
<1>6. QED
  BY <1>5, NoOldQuorumIf


-----------------------------------------------------------------------------
\* The invariant behind SlotAgreement.  Nodes hold certificates and have derived
\* what those say; the values under way are values of their slots; a vote for a
\* freeze that can take effect carries the promise.
LogsOK ==
    /\ decided = [n \in Node |-> decided[n]] /\ core = [n \in Node |-> core[n]]
    /\ \A n \in Node : IsLog(chosen, decided[n]) /\ core[n] = Advance(decided[n])

OpsOK ==
    /\ op = [n \in Node |-> op[n]]
    /\ \A n \in Node : op[n] # None => op[n].target \in Target

RequestsOK == \A q \in requests : q.slot \in Slot /\ IsValue(q.slot, q.val)

PromiseKept(C, V, v) ==
    Promised(C, V, v.rec, v.slot) \/ Drained(C, v.slot) \/ Echoes(C, v.slot, v.val)

VotesOK ==
    \A v \in votes : /\ v = Vote(v.rec, v.slot, v.val, v.cfg)
                     /\ v.slot \in Slot /\ IsValue(v.slot, v.val)
                     /\ IsControl(v.val) => VoteOK(chosen, v)
                     /\ v.val.kind = "freeze" => PromiseKept(chosen, votes, v)

AgreementInv ==
    /\ LogsOK /\ OpsOK /\ RequestsOK /\ VotesOK
    /\ CertsOK(chosen, votes)
    /\ SlotAgreement

\* A vote stays good when more certificates are assembled, a promise when more good
\* votes are recorded.
LEMMA VoteOKGrows ==
    ASSUME NEW C, NEW B, C \subseteq B, NEW v, VoteOK(C, v)
    PROVE  VoteOK(B, v)
<1>1. PICK w : /\ Derived(C, w)
               /\ v.slot <= w.tip + Window
               /\ v.cfg = ClusterFor(w, v.slot).id
               /\ w.frozen # None => v.slot <= w.frozen.freeze + Window
               /\ Admissible(w, v.slot, v.val) \/ Echoes(C, v.slot, v.val)
  BY DEF VoteOK
<1>2. Derived(B, w)
  BY <1>1, DerivedGrows
<1>3. Echoes(C, v.slot, v.val) => Echoes(B, v.slot, v.val)
  BY DEF Echoes
<1>4. QED
  BY <1>1, <1>2, <1>3 DEF VoteOK

\* A recorder's promise is kept when certificates are added and its new votes
\* are justified.
LEMMA PromiseGrows ==
    ASSUME NEW C, NEW B, C \subseteq B, NEW V, NEW U, NEW r, NEW f, Promised(C, V, r, f),
           \A u \in U : u \in V \/ VoteOK(B, u)
    PROVE  Promised(B, U, r, f)
<1>1. SUFFICES ASSUME NEW u \in U, u.rec = r, u.slot >= f + Window PROVE VoteOK(B, u)
  BY DEF Promised
<1>2. CASE u \in V
  BY <1>1, <1>2, VoteOKGrows DEF Promised
<1>3. QED
  BY <1>2

\* A drained change stays drained when certificates are added.
LEMMA DrainedGrows ==
    ASSUME NEW C, NEW B, C \subseteq B, NEW s, Drained(C, s)
    PROVE  Drained(B, s)
BY DerivedGrows DEF Drained

\* What was said of the certificates so far stays true.
LEMMA CertsGrow ==
    ASSUME NEW C, NEW B, C \subseteq B, NEW V, NEW U, V \subseteq U, NEW cert,
           \A u \in U : u \in V \/ VoteOK(B, u)
    PROVE  /\ Supported(C, V, cert) => Supported(B, U, cert)
           /\ FreezePromised(C, V, cert) => FreezePromised(B, U, cert)
<1>1. ASSUME Supported(C, V, cert) PROVE Supported(B, U, cert)
  <2>1. PICK w : /\ Derived(C, w)
                 /\ cert.cfg = ClusterFor(w, cert.slot).id
                 /\ cert.by \subseteq ClusterFor(w, cert.slot).members
                 /\ Cardinality(cert.by) >= QuorumSize(ClusterFor(w, cert.slot))
    BY <1>1 DEF Supported
  <2>2. Derived(B, w)
    BY <2>1, DerivedGrows
  <2>3. QED
    BY <1>1, <2>1, <2>2 DEF Supported
<1>2. ASSUME FreezePromised(C, V, cert) PROVE FreezePromised(B, U, cert)
  <2>1. CASE Drained(C, cert.slot)
    BY <2>1, DrainedGrows DEF FreezePromised
  <2>2. CASE ~Drained(C, cert.slot)
    <3>1. PICK z \in C : /\ z.slot = cert.slot /\ z.val = cert.val
                         /\ \A r \in z.by : Promised(C, V, r, z.slot)
      BY <1>2, <2>2 DEF FreezePromised
    <3>2. \A r \in z.by : Promised(B, U, r, z.slot)
      BY <3>1, PromiseGrows
    <3>3. QED
      BY <3>1, <3>2 DEF FreezePromised
  <2>3. QED
    BY <2>1, <2>2
<1>3. QED
  BY <1>1, <1>2

\* The votes of a quorum of the configuration that some node finds for the slot
\* decide no second value there.
LEMMA NewCertAgrees ==
    ASSUME NEW C, NEW V, CertsOK(C, V), OneValue(C), NEW c, Derived(C, c), NEW cert,
           cert.slot \in Slot, cert.cfg = ClusterFor(c, cert.slot).id,
           cert.by \subseteq ClusterFor(c, cert.slot).members,
           Cardinality(cert.by) >= QuorumSize(ClusterFor(c, cert.slot)),
           \A r \in cert.by : Vote(r, cert.slot, cert.val, cert.cfg) \in V,
           \A z \in C : z.slot = cert.slot /\ z.cfg = cert.cfg => z.val = cert.val
    PROVE  OneValue(C \cup {cert})
<1> DEFINE s == cert.slot
           i == cert.cfg
<1>1. CertsTyped(C) /\ ValuesAgree(C)
  BY DEF CertsOK, OneValue, ValuesAgree
<1>2. CoreOK(c, c.tip) /\ c.tip \in Nat /\ s \in Nat /\ s >= 1
  BY <1>1, DerivedOK, ReconfigurationAssumption DEF Slot
<1>3. PICK y \in c.epochs : ClusterFor(c, s) = y[2]
  BY <1>2, ClusterIs
<1>4. i \in Nat /\ i >= 1
  BY <1>2, <1>3, EpochFacts
<1>5. ASSUME NEW z \in C, z.slot = s, z.cfg # i PROVE FALSE
  <2>1. i <= z.cfg /\ z.cfg \in Nat
    BY <1>1, <1>5, CertCurrent
  <2>2. PICK w : Derived(C, w) /\ z.cfg = ClusterFor(w, s).id
    BY <1>5 DEF CertsOK, Supported
  <2>3. CoreOK(w, w.tip) /\ w.tip \in Nat
    BY <1>1, <2>2, DerivedOK
  <2>4. PICK e \in w.epochs : e[2].id = i + 1 /\ e[1] <= s
    <3>1. i + 1 \in Nat /\ i + 1 >= 1 /\ i + 1 <= ClusterFor(w, s).id
      BY <1>4, <1>5, <2>1, <2>2
    <3>2. QED
      BY <2>3, <3>1, EpochBelow
  <2>5. PICK g \in w.epochs : g[2].id = i
    <3>1. i <= ClusterFor(w, s).id
      BY <1>4, <2>1, <2>2
    <3>2. QED
      BY <1>4, <2>3, <3>1, EpochBelow
  <2>6. g = y
    <3>1. g[2].id = y[2].id
      BY <1>3, <2>5
    <3>2. QED
      BY <1>1, <2>2, <3>1, OneEpoch
  <2>7. e # <<1, First>> /\ g[2].id + 1 = e[2].id
    BY <1>4, <2>4, <2>5 DEF First
  <2>8. cert.by \subseteq g[2].members /\ Cardinality(cert.by) >= QuorumSize(g[2])
    BY <1>3, <2>6
  <2>9. \A r \in cert.by : \E v \in V : v.rec = r /\ v.slot = s /\ v.cfg = g[2].id
    BY <2>5 DEF Vote
  <2>10. QED
    BY <1>1, <2>2, <2>4, <2>7, <2>8, <2>9, NoOldQuorum
<1>6. QED
  BY <1>5 DEF OneValue

\* Assembling a certificate keeps what is said of certificates.
LEMMA NewCertOK ==
    ASSUME NEW C, NEW V, CertsOK(C, V), NEW c, Derived(C, c), NEW cert,
           cert.slot \in Slot, IsValue(cert.slot, cert.val),
           cert.cfg = ClusterFor(c, cert.slot).id,
           cert.by \subseteq ClusterFor(c, cert.slot).members,
           Cardinality(cert.by) >= QuorumSize(ClusterFor(c, cert.slot)),
           \A r \in cert.by : /\ Vote(r, cert.slot, cert.val, cert.cfg) \in V
                              /\ cert.val.kind = "freeze" =>
                                   PromiseKept(C, V, Vote(r, cert.slot, cert.val, cert.cfg))
    PROVE  CertsOK(C \cup {cert}, V)
<1> DEFINE B == C \cup {cert}
<1>1. C \subseteq B /\ CertsTyped(C) /\ \A u \in V : u \in V \/ VoteOK(B, u)
  BY DEF CertsOK
<1>2. CertsTyped(B)
  <2>1. CoreOK(c, c.tip) /\ c.tip \in Nat /\ cert.slot \in Nat /\ cert.slot >= 1
    BY <1>1, DerivedOK, ReconfigurationAssumption DEF Slot
  <2>2. PICK y \in c.epochs : ClusterFor(c, cert.slot) = y[2]
    BY <2>1, ClusterIs
  <2>3. cert.by \subseteq Node
    BY <2>1, <2>2, EpochFacts
  <2>4. QED
    BY <1>1, <2>3 DEF CertsTyped
<1>3. Supported(B, V, cert)
  <2>1. Derived(B, c)
    BY <1>1, DerivedGrows
  <2>2. QED
    BY <2>1 DEF Supported
<1>4. ASSUME cert.val.kind = "freeze" PROVE FreezePromised(B, V, cert)
  <2>1. CASE Drained(C, cert.slot)
    BY <1>1, <2>1, DrainedGrows DEF FreezePromised
  <2>2. CASE Echoes(C, cert.slot, cert.val)
    <3>1. PICK z \in C : z.slot = cert.slot /\ z.val = cert.val
      BY <2>2 DEF Echoes
    <3>2. FreezePromised(C, V, z)
      BY <1>4, <3>1 DEF CertsOK
    <3>3. FreezePromised(B, V, z)
      BY <1>1, <3>2, CertsGrow
    <3>4. QED
      BY <3>1, <3>3 DEF FreezePromised
  <2>3. CASE ~Drained(C, cert.slot) /\ ~Echoes(C, cert.slot, cert.val)
    <3>1. \A r \in cert.by : Promised(C, V, r, cert.slot)
      BY <1>4, <2>3 DEF PromiseKept, Vote
    <3>2. \A r \in cert.by : Promised(B, V, r, cert.slot)
      BY <1>1, <3>1, PromiseGrows
    <3>3. QED
      BY <3>2 DEF FreezePromised
  <2>4. QED
    BY <2>1, <2>2, <2>3
<1>5. ASSUME NEW z \in C
      PROVE  Supported(B, V, z) /\ (z.val.kind = "freeze" => FreezePromised(B, V, z))
  <2>1. Supported(C, V, z) /\ (z.val.kind = "freeze" => FreezePromised(C, V, z))
    BY DEF CertsOK
  <2>2. QED
    BY <1>1, <2>1, CertsGrow
<1>6. QED
  BY <1>2, <1>3, <1>4, <1>5 DEF CertsOK


-----------------------------------------------------------------------------
\* A freeze in a slot names the slot and leaves room for the terminal.
LEMMA FreezeValue ==
    ASSUME NEW s, NEW v, IsValue(s, v), v.kind = "freeze"
    PROVE  s + Window <= MaxSlot /\ \E t \in Target : v = Freeze(s, t)
<1>1. v # Write
  BY DEF Write
<1>2. ASSUME NEW kind \in {"finish", "abort"}, NEW f \in Slot, NEW t \in Target,
             v = Terminal(kind, f, t)
      PROVE  FALSE
  BY <1>2 DEF Terminal
<1>3. QED
  BY <1>1, <1>2 DEF IsValue

\* A frozen state leaves room for its terminal.
LEMMA FrozenFacts ==
    ASSUME NEW C, CertsTyped(C), NEW c, Derived(C, c), c.frozen # None
    PROVE  /\ c.frozen \in Frozen /\ c.frozen.freeze \in Slot /\ c.frozen.target \in Target
           /\ c.frozen.freeze <= c.tip
           /\ c.frozen.freeze + Window <= MaxSlot
<1>1. PICK d, F, K : IsLog(C, d) /\ IsTrace(d, F, K) /\ c = F[K]
  BY DEF Derived
<1>2. K \in Nat /\ K \in 0 .. K /\ CoreOK(F[K], K)
  <2>1. K \in Nat
    BY <1>1, ReconfigurationAssumption DEF IsTrace
  <2>2. QED
    BY <1>1, <2>1, TraceSteps
<1>3. c.frozen \in Frozen /\ c.frozen.freeze <= c.tip
  BY <1>1, <1>2 DEF CoreOK, CoreType
<1>4. c.frozen.freeze \in Slot /\ c.frozen.target \in Target
  BY <1>3 DEF Frozen
<1> DEFINE f == c.frozen.freeze
<1>5. f \in 1 .. K /\ d[f].val = Freeze(f, c.frozen.target)
  <2>1. FrozenSince(d, F, K)
    BY <1>1, <1>2, TraceHistory
  <2>2. QED
    BY <1>1, <2>1 DEF FrozenSince
<1>6. IsValue(f, d[f].val)
  BY <1>1, <1>5, TraceSteps
<1>7. d[f].val.kind = "freeze"
  BY <1>5 DEF Freeze
<1>8. f + Window <= MaxSlot
  BY <1>6, <1>7, FreezeValue
<1>9. QED
  BY <1>3, <1>4, <1>8

\* What is known of a node.
LEMMA NodeState ==
    ASSUME AgreementInv, NEW n \in Node
    PROVE  /\ Derived(chosen, core[n]) /\ CoreOK(core[n], core[n].tip)
           /\ core[n].tip \in 0 .. MaxSlot /\ core[n].tip \in Nat
           /\ \A k \in 1 .. core[n].tip : decided[n][k] # None
           /\ IsLog(chosen, decided[n])
<1>1. CertsTyped(chosen) /\ IsLog(chosen, decided[n]) /\ core[n] = Advance(decided[n])
  BY DEF AgreementInv, LogsOK, CertsOK
<1> DEFINE K == Advance(decided[n]).tip
<1>2. IsTrace(decided[n], Prefixes(decided[n]), K) /\ Advance(decided[n]) = Prefixes(decided[n])[K]
  BY <1>1, AdvanceTrace
<1>3. Derived(chosen, core[n])
  BY <1>1, <1>2 DEF Derived
<1>4. CoreOK(core[n], core[n].tip) /\ core[n].tip \in 0 .. MaxSlot
  BY <1>1, <1>3, DerivedOK
<1>5. \A k \in 1 .. core[n].tip : decided[n][k] # None
  BY <1>1, <1>2 DEF IsTrace
<1>6. QED
  BY <1>1, <1>3, <1>4, <1>5, ReconfigurationAssumption

\* The configuration that a node finds for a slot.
LEMMA NodeCluster ==
    ASSUME AgreementInv, NEW n \in Node, NEW s \in Nat, s >= 1
    PROVE  ClusterFor(core[n], s).id \in Nat /\ ClusterFor(core[n], s).members \subseteq Node
<1>1. CoreOK(core[n], core[n].tip) /\ core[n].tip \in Nat
  BY NodeState
<1>2. PICK e \in core[n].epochs : ClusterFor(core[n], s) = e[2]
  BY <1>1, ClusterIs
<1>3. QED
  BY <1>1, <1>2, EpochFacts

\* The highest slot that a recorder knows bounds its votes.
LEMMA HighestVote ==
    ASSUME AgreementInv, NEW r \in Node
    PROVE  /\ HighestKnown(r) \in Nat
           /\ \A v \in votes : v.rec = r => v.slot <= HighestKnown(r)
<1> DEFINE S == {core[r].tip} \cup {v.slot : v \in {w \in votes : w.rec = r}}
                \cup {s \in Slot : decided[r][s] # None}
<1>1. S \subseteq 0 .. MaxSlot /\ S # {}
  <2>1. core[r].tip \in 0 .. MaxSlot
    BY NodeState
  <2>2. \A v \in votes : v.slot \in Slot
    BY DEF AgreementInv, VotesOK
  <2>3. QED
    BY <2>1, <2>2, ReconfigurationAssumption DEF Slot
<1>2. Max(S) \in S /\ \A x \in S : x <= Max(S)
  BY <1>1, MaxOf, ReconfigurationAssumption
<1>3. HighestKnown(r) = Max(S)
  BY DEF HighestKnown
<1>4. Max(S) \in Nat
  <2>1. Max(S) \in 0 .. MaxSlot
    BY <1>1, <1>2, Zenon
  <2> DEFINE m == Max(S)
  <2> HIDE DEF m
  <2>2. m \in Nat
    BY <2>1, ReconfigurationAssumption DEF m
  <2>3. QED
    BY <2>2 DEF m
<1>5. QED
  BY <1>2, <1>3, <1>4

\* Recording a vote.
LEMMA RecordKeeps ==
    ASSUME AgreementInv, NEW r \in Node, NEW q \in requests, Record(r, q)
    PROVE  AgreementInv'
<1> DEFINE c == core[r]
           s == q.slot
           held == decided[r][s]
           val == IF held = None THEN q.val ELSE held.val
           v == Vote(r, s, val, q.cfg)
<1>1. /\ Derived(chosen, c) /\ CoreOK(c, c.tip) /\ c.tip \in Nat
      /\ \A k \in 1 .. c.tip : decided[r][k] # None
      /\ IsLog(chosen, decided[r]) /\ CertsTyped(chosen)
  BY NodeState DEF AgreementInv, CertsOK
<1>2. /\ q.cfg = ClusterFor(c, s).id
      /\ s <= c.tip + Window
      /\ FrozenAdmits(r, q)
      /\ IsTerminal(q.val) /\ held = None => TerminalAdmitted(r, q)
      /\ q.val.kind = "freeze" => FreezeAdmitted(r, q)
      /\ votes' = votes \cup {v}
      /\ UNCHANGED <<decided, core, requests, chosen, op>>
  BY DEF Record, InWindow
<1>3. s \in Slot /\ IsValue(s, q.val) /\ s \in Nat /\ s >= 1 /\ Window \in Nat /\ Window > 0
  BY ReconfigurationAssumption DEF AgreementInv, RequestsOK, Slot
<1>4. c.frozen # None => /\ c.frozen.freeze \in Nat /\ c.frozen.freeze <= c.tip
                         /\ c.frozen \in Frozen /\ c.frozen.target \in Target
                         /\ s <= c.frozen.freeze + Window
                         /\ s = c.frozen.freeze + Window => IsTerminal(q.val)
  <2>1. c.frozen # None => /\ c.frozen.freeze \in Slot /\ c.frozen.freeze <= c.tip
                           /\ c.frozen \in Frozen /\ c.frozen.target \in Target
    BY <1>1, FrozenFacts
  <2>2. c.frozen # None => /\ s <= c.frozen.freeze + Window
                           /\ s = c.frozen.freeze + Window => IsTerminal(q.val)
    BY <1>2 DEF FrozenAdmits
  <2>3. Slot \subseteq Nat
    BY ReconfigurationAssumption DEF Slot
  <2>4. QED
    BY <2>1, <2>2, <2>3
<1>5. /\ v.rec = r /\ v.slot = s /\ v.val = val /\ v.cfg = q.cfg
      /\ v = Vote(v.rec, v.slot, v.val, v.cfg)
  BY DEF Vote
<1>6. held # None => Echoes(chosen, s, val)
  <2>1. SUFFICES ASSUME held # None PROVE Echoes(chosen, s, held.val)
    OBVIOUS
  <2>2. PICK z \in chosen : z.slot = s /\ held = Cert(z)
    BY <1>1, <1>3, <2>1 DEF IsLog
  <2>3. held.val = z.val
    BY <2>2 DEF Cert
  <2>4. QED
    BY <2>2, <2>3 DEF Echoes
<1>7. held = None => c.tip < s
  BY <1>1, <1>3
<1>8. held = None => Admissible(c, s, val)
  <2>1. SUFFICES ASSUME held = None PROVE Admissible(c, s, q.val)
    OBVIOUS
  <2>2. CASE q.val = Write
    <3>1. ~IsTerminal(q.val)
      BY <2>2 DEF IsTerminal, Write
    <3>2. c.frozen # None => s < c.frozen.freeze + Window
      BY <1>3, <1>4, <3>1
    <3>3. QED
      BY <1>7, <2>1, <2>2, <3>2 DEF Admissible
  <2>3. ASSUME NEW t \in Target, q.val = Freeze(s, t)
        PROVE  Admissible(c, s, q.val)
    <3>1. ~IsTerminal(q.val) /\ q.val.kind = "freeze" /\ q.val.target = t
      BY <2>3 DEF IsTerminal, Freeze
    <3>2. c.frozen # None => s < c.frozen.freeze + Window
      BY <1>3, <1>4, <3>1
    <3>3. c.frozen = None => TargetValid(ClusterFor(c, s), t, c.retired)
      BY <1>2, <3>1 DEF FreezeAdmitted
    <3>4. QED
      BY <1>7, <2>1, <2>3, <3>2, <3>3 DEF Admissible
  <2>4. ASSUME NEW kind \in {"finish", "abort"}, NEW f \in Slot, NEW t \in Target,
               q.val = Terminal(kind, f, t)
        PROVE  Admissible(c, s, q.val)
    <3>1. IsTerminal(q.val) /\ q.val.kind = kind /\ q.val.freeze = f /\ q.val.target = t
      BY <2>4 DEF IsTerminal, Terminal
    <3>2. TerminalAdmitted(r, q)
      BY <1>2, <2>1, <3>1
    <3>3. /\ c.frozen # None /\ s = c.frozen.freeze + Window /\ c.tip = s - 1
          /\ f = c.frozen.freeze /\ t = c.frozen.target
          /\ kind = "abort" => Adds(ClusterFor(c, s), c.frozen.target)
      BY <3>1, <3>2 DEF TerminalAdmitted
    <3>4. QED
      BY <1>7, <2>1, <2>4, <3>3 DEF Admissible
  <2>5. QED
    BY <1>3, <2>2, <2>3, <2>4 DEF IsValue
<1>9. VoteOK(chosen, v)
  BY <1>1, <1>2, <1>4, <1>5, <1>6, <1>8 DEF VoteOK
<1>10. IsValue(s, val)
  <2>1. CASE held = None
    BY <1>3, <2>1
  <2>2. CASE held # None
    BY <1>1, <1>6, <2>2 DEF Echoes, CertsTyped
  <2>3. QED
    BY <2>1, <2>2
<1>11. ASSUME val.kind = "freeze" PROVE PromiseKept(chosen, votes', v)
  <2>1. CASE held # None
    BY <1>5, <1>6, <2>1 DEF PromiseKept
  <2>2. CASE held = None /\ c.frozen # None
    <3>1. ~IsTerminal(q.val)
      BY <1>11, <2>2 DEF IsTerminal
    <3>2. c.frozen.freeze < s /\ s < c.frozen.freeze + Window
      BY <1>1, <1>3, <1>4, <1>7, <2>2, <3>1
    <3>3. Drained(chosen, s)
      BY <1>1, <2>2, <3>2 DEF Drained
    <3>4. QED
      BY <1>5, <3>3 DEF PromiseKept
  <2>3. CASE held = None /\ c.frozen = None
    <3>1. HighestKnown(r) < s + Window
      BY <1>2, <1>11, <2>3 DEF FreezeAdmitted, Promises
    <3>2. Promised(chosen, votes', r, s)
      <4>1. SUFFICES ASSUME NEW u \in votes', u.rec = r, u.slot >= s + Window
                     PROVE  VoteOK(chosen, u)
        BY DEF Promised
      <4>2. CASE u \in votes
        <5>1. u.slot <= HighestKnown(r) /\ u.slot \in Nat
          BY <4>1, <4>2, HighestVote, ReconfigurationAssumption DEF AgreementInv, VotesOK, Slot
        <5>2. HighestKnown(r) \in Int
          BY HighestVote
        <5>3. QED
          BY <1>3, <3>1, <4>1, <5>1, <5>2
      <4>3. QED
        BY <1>2, <1>9, <4>2
    <3>3. QED
      BY <1>5, <3>2 DEF PromiseKept
  <2>4. QED
    BY <2>1, <2>2, <2>3
<1> HIDE DEF v, val
<1>12. \A u \in votes' : u \in votes \/ VoteOK(chosen, u)
  BY <1>2, <1>9
<1>13. VotesOK'
  <2>1. ASSUME NEW u \in votes
        PROVE  u.val.kind = "freeze" => PromiseKept(chosen, votes', u)
    <3>1. SUFFICES ASSUME u.val.kind = "freeze", Promised(chosen, votes, u.rec, u.slot)
                   PROVE  Promised(chosen, votes', u.rec, u.slot)
      BY DEF AgreementInv, VotesOK, PromiseKept
    <3>2. QED
      BY <1>12, <3>1, PromiseGrows
  <2>2. ASSUME NEW u \in votes'
        PROVE  /\ u = Vote(u.rec, u.slot, u.val, u.cfg)
               /\ u.slot \in Slot /\ IsValue(u.slot, u.val)
               /\ IsControl(u.val) => VoteOK(chosen, u)
               /\ u.val.kind = "freeze" => PromiseKept(chosen, votes', u)
    <3>1. CASE u \in votes
      BY <2>1, <3>1 DEF AgreementInv, VotesOK
    <3>2. CASE u = v
      BY <1>3, <1>5, <1>9, <1>10, <1>11, <3>2
    <3>3. QED
      BY <1>2, <3>1, <3>2
  <2>3. QED
    BY <1>2, <2>2 DEF VotesOK
<1>14. CertsOK(chosen, votes')
  <2>1. votes \subseteq votes'
    BY <1>2
  <2>2. ASSUME NEW z \in chosen
        PROVE  /\ Supported(chosen, votes', z)
               /\ z.val.kind = "freeze" => FreezePromised(chosen, votes', z)
    BY <1>12, <2>1, CertsGrow DEF AgreementInv, CertsOK
  <2>3. QED
    BY <1>1, <2>2 DEF CertsOK
<1>15. QED
  BY <1>2, <1>13, <1>14 DEF AgreementInv, LogsOK, OpsOK, RequestsOK, SlotAgreement


\* A node that takes a new log and advances along it.
LEMMA LogsKept ==
    ASSUME LogsOK, chosen \subseteq chosen', NEW n \in Node, NEW d, IsLog(chosen', d),
           decided' = [decided EXCEPT ![n] = d], core' = [core EXCEPT ![n] = Advance(d)]
    PROVE  LogsOK'
<1>1. decided' = [m \in Node |-> decided'[m]] /\ core' = [m \in Node |-> core'[m]]
  BY DEF LogsOK
<1>2. decided'[n] = d /\ core'[n] = Advance(d)
  BY DEF LogsOK
<1>3. \A m \in Node : m # n => decided'[m] = decided[m] /\ core'[m] = core[m]
  BY DEF LogsOK
<1>4. \A m \in Node : IsLog(chosen', decided[m])
  BY DEF LogsOK, IsLog
<1>5. \A m \in Node : IsLog(chosen', decided'[m])
  BY <1>2, <1>3, <1>4
<1>6. \A m \in Node : core'[m] = Advance(decided'[m])
  BY <1>2, <1>3 DEF LogsOK
<1>7. QED
  BY <1>1, <1>5, <1>6 DEF LogsOK

\* The log that Install leaves.
LEMMA InstalledLog ==
    ASSUME NEW C, NEW d, IsLog(C, d), NEW B, C \subseteq B, NEW cert \in B
    PROVE  IsLog(B, [d EXCEPT ![cert.slot] = Cert(cert)])
<1> DEFINE x == [d EXCEPT ![cert.slot] = Cert(cert)]
<1>1. x = [s \in Slot |-> x[s]]
  BY DEF IsLog
<1>2. ASSUME NEW s \in Slot, x[s] # None
      PROVE  \E z \in B : z.slot = s /\ x[s] = Cert(z)
  <2>1. CASE s = cert.slot
    <3>1. x[s] = Cert(cert)
      BY <2>1 DEF IsLog
    <3>2. QED
      BY <2>1, <3>1
  <2>2. CASE s # cert.slot
    <3>1. x[s] = d[s]
      BY <2>2 DEF IsLog
    <3>2. QED
      BY <1>2, <3>1 DEF IsLog
  <2>3. QED
    BY <2>1, <2>2
<1>3. QED
  BY <1>1, <1>2 DEF IsLog

\* A log put together from parts of two others.
LEMMA MixedLog ==
    ASSUME NEW C, NEW x, IsLog(C, x), NEW y, IsLog(C, y), NEW d, d = [s \in Slot |-> d[s]],
           \A s \in Slot : d[s] = None \/ d[s] = x[s] \/ d[s] = y[s]
    PROVE  IsLog(C, d)
<1>1. ASSUME NEW s \in Slot, d[s] # None
      PROVE  \E cert \in C : cert.slot = s /\ d[s] = Cert(cert)
  <2>1. CASE d[s] = x[s]
    BY <1>1, <2>1 DEF IsLog
  <2>2. CASE d[s] = y[s]
    BY <1>1, <2>2 DEF IsLog
  <2>3. QED
    BY <1>1, <2>1, <2>2
<1>2. QED
  BY <1>1 DEF IsLog

\* The certificate that a proposer assembles.
Assembles(n, cert) ==
    LET cfg == ClusterFor(core[n], cert.slot)
        d == [decided[n] EXCEPT ![cert.slot] = Cert(cert)]
    IN  /\ cert.slot \in Slot /\ IsValue(cert.slot, cert.val)
        /\ cert.cfg = cfg.id /\ cert.by \subseteq cfg.members
        /\ Cardinality(cert.by) >= QuorumSize(cfg)
        /\ \A r \in cert.by : Vote(r, cert.slot, cert.val, cert.cfg) \in votes
        /\ \A z \in chosen : z.slot = cert.slot /\ z.cfg = cert.cfg => z.val = cert.val
        /\ chosen' = chosen \cup {cert}
        /\ decided' = [decided EXCEPT ![n] = d] /\ core' = [core EXCEPT ![n] = Advance(d)]
        /\ UNCHANGED <<durable, requests, votes, op>>

\* Decide is the only step that adds a certificate, and it assembles it from
\* votes of the configuration that the proposer derived.
LEMMA DecideAssembles ==
    ASSUME AgreementInv, NEW n \in Node, NEW o \in Offers, Decide(n, o[1], o[2])
    PROVE  \E cert : Assembles(n, cert)
<1> DEFINE s == o[1]
           v == o[2]
           cfg == ClusterFor(core[n], s)
           voters == {w.rec : w \in {x \in votes : x.slot = s /\ x.val = v /\ x.cfg = cfg.id}}
           Built(by) == [slot |-> s, val |-> v, cfg |-> cfg.id, by |-> by]
<1>1. PICK by \in kSubset(QuorumSize(cfg), voters) :
        /\ \A z \in chosen : z.slot = s /\ z.cfg = cfg.id => z.val = v
        /\ chosen' = chosen \cup {Built(by)}
        /\ Install(n, Built(by), FALSE)
        /\ UNCHANGED <<requests, votes, op>>
  BY DEF Decide
<1> DEFINE cert == Built(by)
<1>2. by \subseteq voters
  BY <1>1 DEF kSubset
<1>3. cert.slot = s /\ cert.val = v /\ cert.cfg = cfg.id /\ cert.by = by
  OBVIOUS
<1>4. s \in Slot /\ IsValue(s, v)
  <2>1. PICK u \in votes : o = <<u.slot, u.val>>
    BY DEF Offers
  <2>2. s = u.slot /\ v = u.val
    BY <2>1
  <2>3. QED
    BY <2>2 DEF AgreementInv, VotesOK
<1>5. \A r \in by : Vote(r, s, v, cfg.id) \in votes
  <2>1. SUFFICES ASSUME NEW r \in by
                 PROVE  \E u \in votes : u.rec = r /\ u.slot = s /\ u.val = v /\ u.cfg = cfg.id
    <3>1. ASSUME NEW u \in votes, u.rec \in by, u.slot = s, u.val = v, u.cfg = cfg.id
          PROVE  u = Vote(u.rec, s, v, cfg.id)
      BY <3>1 DEF AgreementInv, VotesOK
    <3>2. QED
      BY <2>1, <3>1
  <2>2. QED
    BY <1>2
<1>6. Acceptable(core[n], cert)
  BY <1>1 DEF Install
<1> DEFINE d == [decided[n] EXCEPT ![cert.slot] = Cert(cert)]
<1>7. /\ decided' = [decided EXCEPT ![n] = d] /\ core' = [core EXCEPT ![n] = Advance(d)]
      /\ durable' = durable
  BY <1>1 DEF Install
<1> HIDE DEF cert, Built, cfg, s, v, voters
<1>8. /\ cert.cfg = ClusterFor(core[n], cert.slot).id
      /\ cert.by \subseteq ClusterFor(core[n], cert.slot).members
      /\ Cardinality(cert.by) >= QuorumSize(ClusterFor(core[n], cert.slot))
  BY <1>6 DEF Acceptable
<1>9. chosen' = chosen \cup {cert} /\ UNCHANGED <<requests, votes, op>>
  BY <1>1 DEF cert
<1>10. \A r \in cert.by : Vote(r, cert.slot, cert.val, cert.cfg) \in votes
  BY <1>3, <1>5
<1>11. \A z \in chosen : z.slot = cert.slot /\ z.cfg = cert.cfg => z.val = cert.val
  BY <1>1, <1>3
<1>12. cert.slot \in Slot /\ IsValue(cert.slot, cert.val)
  BY <1>3, <1>4
<1>13. Assembles(n, cert)
  BY <1>7, <1>8, <1>9, <1>10, <1>11, <1>12 DEF Assembles
<1>14. QED
  BY <1>13

\* Assembling a certificate.
LEMMA DecideKeeps ==
    ASSUME AgreementInv, NEW n \in Node, NEW cert, Assembles(n, cert)
    PROVE  AgreementInv' /\ CertsOK(chosen', votes) /\ OneValue(chosen')
           /\ \A r \in cert.by : cert.val.kind = "freeze" =>
                 PromiseKept(chosen, votes, Vote(r, cert.slot, cert.val, cert.cfg))
<1> DEFINE c == core[n]
<1>1. /\ Derived(chosen, c) /\ CertsTyped(chosen) /\ IsLog(chosen, decided[n])
      /\ CertsOK(chosen, votes) /\ OneValue(chosen) /\ LogsOK
  BY NodeState DEF AgreementInv, CertsOK, SlotAgreement, OneValue
<1>2. /\ cert.slot \in Slot /\ IsValue(cert.slot, cert.val)
      /\ cert.cfg = ClusterFor(c, cert.slot).id
      /\ cert.by \subseteq ClusterFor(c, cert.slot).members
      /\ Cardinality(cert.by) >= QuorumSize(ClusterFor(c, cert.slot))
      /\ \A r \in cert.by : Vote(r, cert.slot, cert.val, cert.cfg) \in votes
      /\ \A z \in chosen : z.slot = cert.slot /\ z.cfg = cert.cfg => z.val = cert.val
      /\ chosen' = chosen \cup {cert}
      /\ UNCHANGED <<requests, votes, op>>
  BY DEF Assembles
<1>3. \A r \in cert.by : cert.val.kind = "freeze" =>
        PromiseKept(chosen, votes, Vote(r, cert.slot, cert.val, cert.cfg))
  <2>1. SUFFICES ASSUME NEW r \in cert.by, cert.val.kind = "freeze"
                 PROVE  PromiseKept(chosen, votes, Vote(r, cert.slot, cert.val, cert.cfg))
    OBVIOUS
  <2> DEFINE u == Vote(r, cert.slot, cert.val, cert.cfg)
  <2>2. u \in votes /\ u.val = cert.val
    BY <1>2 DEF Vote
  <2> HIDE DEF u
  <2>3. PromiseKept(chosen, votes, u)
    BY <2>1, <2>2 DEF AgreementInv, VotesOK
  <2>4. QED
    BY <2>3 DEF u
<1>4. CertsOK(chosen', votes)
  BY <1>1, <1>2, <1>3, NewCertOK
<1>5. OneValue(chosen')
  BY <1>1, <1>2, NewCertAgrees
<1>6. LogsOK'
  <2> DEFINE d == [decided[n] EXCEPT ![cert.slot] = Cert(cert)]
  <2>1. decided' = [decided EXCEPT ![n] = d] /\ core' = [core EXCEPT ![n] = Advance(d)]
    BY DEF Assembles
  <2>2. cert \in chosen' /\ chosen \subseteq chosen'
    BY <1>2
  <2>3. IsLog(chosen', d)
    BY <1>1, <2>2, InstalledLog
  <2> HIDE DEF d
  <2>4. QED
    BY <1>1, <2>1, <2>2, <2>3, LogsKept
<1>7. VotesOK'
  <2>1. chosen \subseteq chosen' /\ votes' = votes
    BY <1>2
  <2>2. ASSUME NEW u \in votes
        PROVE  /\ VoteOK(chosen, u) => VoteOK(chosen', u)
               /\ PromiseKept(chosen, votes, u) => PromiseKept(chosen', votes, u)
    <3>1. Drained(chosen, u.slot) => Drained(chosen', u.slot)
      BY <2>1, DrainedGrows
    <3>2. Echoes(chosen, u.slot, u.val) => Echoes(chosen', u.slot, u.val)
      BY <2>1 DEF Echoes
    <3>3. Promised(chosen, votes, u.rec, u.slot) => Promised(chosen', votes, u.rec, u.slot)
      BY <2>1, PromiseGrows
    <3>4. QED
      BY <2>1, <3>1, <3>2, <3>3, VoteOKGrows DEF PromiseKept
  <2>3. QED
    BY <2>1, <2>2 DEF AgreementInv, VotesOK
<1>8. AgreementInv'
  BY <1>2, <1>4, <1>5, <1>6, <1>7
  DEF AgreementInv, OpsOK, RequestsOK, SlotAgreement, OneValue
<1>9. QED
  BY <1>3, <1>4, <1>5, <1>8

\* A step that assembles nothing and records nothing.
LEMMA Framed ==
    ASSUME AgreementInv, UNCHANGED <<votes, chosen>>, LogsOK', OpsOK', RequestsOK'
    PROVE  AgreementInv'
BY DEF AgreementInv, VotesOK, SlotAgreement

\* Starting and ending a management call.
LEMMA OpsKept ==
    ASSUME OpsOK, NEW n \in Node, NEW x, x = None \/ x.target \in Target,
           op' = [op EXCEPT ![n] = x]
    PROVE  OpsOK'
<1>1. op' = [m \in Node |-> op'[m]]
  BY DEF OpsOK
<1>2. \A m \in Node : op'[m] = IF m = n THEN x ELSE op[m]
  BY DEF OpsOK
<1>3. QED
  BY <1>1, <1>2 DEF OpsOK

\* Sending a value that the slot may hold.
LEMMA RequestsKept ==
    ASSUME RequestsOK, NEW s \in Slot, NEW v, IsValue(s, v), NEW cfg, NEW rid, NEW to,
           Send(s, v, cfg, rid, to)
    PROVE  RequestsOK'
BY DEF RequestsOK, Send

\* Management calls keep the invariant: the operation they start has a target
\* that is valid for the caller's configuration.
LEMMA CallKeeps ==
    ASSUME AgreementInv, NEW n \in Caller,
           \/ \E m \in Wanted : ChangeMembership(n, m)
           \/ AbortMembership(n)
           \/ GiveUp(n)
           \/ CompleteChange(n)
    PROVE  AgreementInv'
<1> DEFINE c == core[n]
<1>1. n \in Node /\ LogsOK /\ OpsOK /\ RequestsOK /\ CertsTyped(chosen)
  BY ReconfigurationAssumption DEF AgreementInv, CertsOK
<1>2. c.tip \in Nat /\ Derived(chosen, c)
  BY <1>1, NodeState
<1>3. UNCHANGED <<decided, core, requests, votes, chosen>>
  BY DEF ChangeMembership, AbortMembership, GiveUp, CompleteChange
<1>4. LogsOK' /\ RequestsOK'
  BY <1>1, <1>3 DEF LogsOK, RequestsOK
<1>5. \E x : (x = None \/ x.target \in Target) /\ op' = [op EXCEPT ![n] = x]
  <2>1. CASE \E m \in Wanted : ChangeMembership(n, m)
    <3>1. PICK m \in Wanted : ChangeMembership(n, m)
      BY <2>1
    <3> DEFINE t == [id |-> Current(c).id + 1, members |-> m]
               x == [round |-> RoundOf(c), target |-> t, abort |-> FALSE]
    <3>2. op' = [op EXCEPT ![n] = x]
      BY <3>1 DEF ChangeMembership
    <3>3. Current(c).id \in Nat
      <4>1. c.tip + 1 \in Nat /\ c.tip + 1 >= 1
        BY <1>2
      <4>2. QED
        BY <1>1, <4>1, NodeCluster DEF Current
    <3>4. t \in Target
      BY <3>3, ReconfigurationAssumption DEF Target
    <3>5. x.target \in Target
      BY <3>4
    <3> HIDE DEF x
    <3>6. QED
      BY <3>2, <3>5
  <2>2. CASE AbortMembership(n)
    <3> DEFINE x == [round |-> RoundOf(c), target |-> c.frozen.target, abort |-> TRUE]
    <3>1. op' = [op EXCEPT ![n] = x] /\ c.frozen # None
      BY <2>2 DEF AbortMembership
    <3>2. x.target \in Target
      BY <1>1, <1>2, <3>1, FrozenFacts
    <3> HIDE DEF x
    <3>3. QED
      BY <3>1, <3>2
  <2>3. CASE GiveUp(n) \/ CompleteChange(n)
    BY <2>3 DEF GiveUp, CompleteChange
  <2>4. QED
    BY <2>1, <2>2, <2>3
<1>6. OpsOK'
  BY <1>1, <1>5, OpsKept
<1>7. QED
  BY <1>3, <1>4, <1>6, Framed

\* Sending the freeze, the terminal or a write keeps the invariant.
LEMMA ProposeKeeps ==
    ASSUME AgreementInv, NEW n \in Node,
           \/ BeginReconfiguration(n)
           \/ FinishReconfiguration(n)
           \/ \E s \in Slot : Propose(n, s)
    PROVE  AgreementInv'
<1> DEFINE c == core[n]
<1>1. LogsOK /\ OpsOK /\ RequestsOK /\ CertsTyped(chosen)
  BY DEF AgreementInv, CertsOK
<1>2. c.tip \in Nat /\ Derived(chosen, c) /\ Window \in Nat /\ Window > 0 /\ MaxSlot \in Nat
  BY NodeState, ReconfigurationAssumption
<1>3. UNCHANGED <<decided, core, op, votes, chosen>>
  BY DEF BeginReconfiguration, FinishReconfiguration, Propose
<1>4. LogsOK' /\ OpsOK'
  BY <1>1, <1>3 DEF LogsOK, OpsOK
<1>5. RequestsOK'
  <2>1. CASE BeginReconfiguration(n)
    <3> DEFINE f == c.tip + 1
               t == op[n].target
    <3>1. /\ op[n] # None /\ f + Window <= MaxSlot
          /\ Send(f, Freeze(f, t), ClusterFor(c, f), Freeze(f, t), ClusterFor(c, f).members)
      BY <2>1 DEF BeginReconfiguration
    <3>2. t \in Target
      BY <1>1, <3>1 DEF OpsOK
    <3>3. f \in Slot
      BY <1>2, <3>1 DEF Slot
    <3>4. IsValue(f, Freeze(f, t))
      BY <3>1, <3>2 DEF IsValue
    <3>5. QED
      BY <1>1, <3>1, <3>3, <3>4, RequestsKept
  <2>2. CASE FinishReconfiguration(n)
    <3> DEFINE f == c.frozen.freeze
               t == c.frozen.target
               kind == IF op[n].abort THEN "abort" ELSE "finish"
               s == c.tip + 1
    <3>1. /\ c.frozen # None /\ c.tip = f + Window - 1
          /\ Send(s, Terminal(kind, f, t), Current(c), Freeze(f, t), c.frozen.safe)
      BY <2>2 DEF FinishReconfiguration
    <3>2. f \in Slot /\ t \in Target /\ f + Window <= MaxSlot
      BY <1>1, <1>2, <3>1, FrozenFacts
    <3>3. f \in Nat
      BY <1>2, <3>2 DEF Slot
    <3>4. s \in Slot /\ f + Window = s
      BY <1>2, <3>1, <3>2, <3>3 DEF Slot
    <3>5. kind \in {"finish", "abort"}
      OBVIOUS
    <3> HIDE DEF kind, f, t, s
    <3>6. IsValue(s, Terminal(kind, f, t))
      BY <3>2, <3>4, <3>5 DEF IsValue
    <3>7. QED
      BY <1>1, <3>1, <3>4, <3>6, RequestsKept
  <2>3. CASE \E s \in Slot : Propose(n, s)
    <3>1. PICK s, rid, to : s \in Slot /\ Send(s, Write, ClusterFor(c, s), rid, to)
      BY <2>3 DEF Propose
    <3>2. IsValue(s, Write)
      BY DEF IsValue
    <3>3. QED
      BY <1>1, <3>1, <3>2, RequestsKept
  <2>4. QED
    BY <2>1, <2>2, <2>3
<1>6. QED
  BY <1>3, <1>4, <1>5, Framed

\* Learning, catching up, syncing and crashing keep the invariant: what a node
\* then holds is again derived from certificates.
LEMMA LearnKeeps ==
    ASSUME AgreementInv, NEW n \in Node,
           \/ \E cert \in chosen : Learn(n, cert)
           \/ \E m \in Node : CatchUp(n, m)
           \/ \E s \in Slot : CompleteDecision(n, s)
           \/ Crash(n)
    PROVE  AgreementInv'
<1>1. LogsOK /\ OpsOK /\ RequestsOK /\ CertsTyped(chosen)
  BY DEF AgreementInv, CertsOK
<1>2. UNCHANGED <<requests, votes, chosen>>
  BY DEF Learn, CatchUp, CompleteDecision, Crash
<1>3. RequestsOK' /\ chosen \subseteq chosen'
  BY <1>1, <1>2 DEF RequestsOK
<1>4. OpsOK'
  <2>1. op' = op \/ op' = [op EXCEPT ![n] = None]
    BY DEF Learn, CatchUp, CompleteDecision, Crash
  <2>2. CASE op' = op
    BY <1>1, <2>2 DEF OpsOK
  <2>3. CASE op' = [op EXCEPT ![n] = None]
    BY <1>1, <2>3, OpsKept
  <2>4. QED
    BY <2>1, <2>2, <2>3
<1>5. \A m \in Node : IsLog(chosen', decided[m])
  BY <1>1, <1>2 DEF LogsOK
<1>6. LogsOK'
  <2>1. CASE \E cert \in chosen : Learn(n, cert)
    <3>1. PICK cert \in chosen : Learn(n, cert)
      BY <2>1
    <3> DEFINE d == [decided[n] EXCEPT ![cert.slot] = Cert(cert)]
    <3>2. decided' = [decided EXCEPT ![n] = d] /\ core' = [core EXCEPT ![n] = Advance(d)]
      BY <3>1 DEF Learn, Install
    <3>3. IsLog(chosen', d)
      BY <1>2, <1>5, InstalledLog
    <3> HIDE DEF d
    <3>4. QED
      BY <1>1, <1>3, <3>2, <3>3, LogsKept
  <2>2. CASE \E m \in Node : CatchUp(n, m)
    <3>1. PICK m \in Node : CatchUp(n, m)
      BY <2>2
    <3> DEFINE d == Fetched(n, m, core[m].tip)
    <3>2. decided' = [decided EXCEPT ![n] = d] /\ core' = [core EXCEPT ![n] = Advance(d)]
      BY <3>1 DEF CatchUp
    <3>3. d = [s \in Slot |-> d[s]] /\ \A s \in Slot : d[s] = decided[m][s] \/ d[s] = decided[n][s]
      BY DEF Fetched
    <3> HIDE DEF d
    <3>4. IsLog(chosen', d)
      BY <1>5, <3>3, MixedLog
    <3>5. QED
      BY <1>1, <1>3, <3>2, <3>4, LogsKept
  <2>3. CASE \E s \in Slot : CompleteDecision(n, s)
    BY <1>1, <1>2, <2>3 DEF CompleteDecision, LogsOK
  <2>4. CASE Crash(n)
    <3>1. PICK keep \in SUBSET {s \in Slot : decided[n][s] # None} :
            /\ decided' = [decided EXCEPT ![n] = [s \in Slot |-> IF s \in keep THEN @[s] ELSE None]]
            /\ core' = [core EXCEPT ![n] = Advance(decided'[n])]
      BY <2>4 DEF Crash
    <3> DEFINE d == [s \in Slot |-> IF s \in keep THEN decided[n][s] ELSE None]
    <3>2. decided' = [decided EXCEPT ![n] = d]
      BY <3>1
    <3>3. d = [s \in Slot |-> d[s]] /\ \A s \in Slot : d[s] = None \/ d[s] = decided[n][s]
      OBVIOUS
    <3> HIDE DEF d
    <3>4. decided'[n] = d
      BY <1>1, <3>2 DEF LogsOK
    <3>5. core' = [core EXCEPT ![n] = Advance(d)]
      BY <3>1, <3>4
    <3>6. IsLog(chosen', d)
      BY <1>5, <3>3, MixedLog
    <3>7. QED
      BY <1>1, <1>3, <3>2, <3>5, <3>6, LogsKept
  <2>5. QED
    BY <2>1, <2>2, <2>3, <2>4
<1>7. QED
  BY <1>2, <1>3, <1>4, <1>6, Framed


\* A node that holds nothing derives the first configuration, for every slot.
LEMMA NothingDecided ==
    /\ Advance(NewDecided) = NewCore
    /\ \A C : IsLog(C, NewDecided) /\ Derived(C, NewCore)
    /\ \A s \in Slot : ClusterFor(NewCore, s) = First
<1>1. \A C : IsLog(C, NewDecided)
  BY DEF IsLog, NewDecided
<1>2. CertsTyped({})
  BY DEF CertsTyped
<1> DEFINE K == Advance(NewDecided).tip
<1>3. IsTrace(NewDecided, Prefixes(NewDecided), K)
      /\ Advance(NewDecided) = Prefixes(NewDecided)[K]
  BY <1>1, <1>2, AdvanceTrace
<1>4. K = 0
  <2>1. K \in 0 .. MaxSlot /\ MaxSlot \in Nat
    BY <1>3, ReconfigurationAssumption DEF IsTrace
  <2>2. SUFFICES ASSUME K >= 1 PROVE FALSE
    BY <2>1
  <2>3. 1 \in 1 .. K /\ 1 \in Slot
    BY <2>1, <2>2 DEF Slot
  <2>4. NewDecided[1] # None
    BY <1>3, <2>3 DEF IsTrace
  <2>5. QED
    BY <2>3, <2>4 DEF NewDecided
<1>5. Advance(NewDecided) = NewCore
  BY <1>3, <1>4 DEF IsTrace
<1>6. \A C : Derived(C, NewCore)
  BY <1>1, <1>3, <1>5 DEF Derived
<1>7. CoreOK(NewCore, 0)
  <2>1. CoreOK(NewCore, NewCore.tip)
    BY <1>2, <1>6, DerivedOK
  <2>2. QED
    BY <2>1 DEF NewCore
<1>8. ASSUME NEW s \in Slot PROVE ClusterFor(NewCore, s) = First
  <2>1. s \in Nat /\ s >= 1
    BY ReconfigurationAssumption DEF Slot
  <2>2. PICK e \in NewCore.epochs : ClusterFor(NewCore, s) = e[2]
    BY <1>7, <2>1, ClusterIs
  <2>3. QED
    BY <2>2 DEF NewCore
<1>9. QED
  BY <1>1, <1>5, <1>6, <1>8

\* The invariant holds at the start, legacy votes and decisions included.
LEMMA AgreementInit == Init => AgreementInv
<1> SUFFICES ASSUME Init PROVE AgreementInv
  OBVIOUS
<1>1. PICK legacy \in {{}, LegacyVotes} :
        /\ votes = {Vote(l[1], l[2], Write, 1) : l \in legacy}
        /\ chosen = {cert \in {Legacy(s, {l[1] : l \in {x \in legacy : x[2] = s}}) : s \in Slot} :
                        Cardinality(cert.by) >= QuorumSize(First)}
  BY DEF Init
<1>2. legacy \subseteq Genesis \X Slot
  BY ReconfigurationAssumption DEF Slot
<1>3. LogsOK
  BY NothingDecided DEF Init, LogsOK
<1>4. OpsOK /\ RequestsOK
  BY DEF Init, OpsOK, RequestsOK
<1>5. VotesOK
  <2>1. SUFFICES ASSUME NEW l \in legacy, NEW v, v = Vote(l[1], l[2], Write, 1)
                 PROVE  /\ v = Vote(v.rec, v.slot, v.val, v.cfg)
                        /\ v.slot \in Slot /\ IsValue(v.slot, v.val)
                        /\ ~IsControl(v.val) /\ v.val.kind # "freeze"
    BY <1>1 DEF VotesOK
  <2>2. l[2] \in Slot
    BY <1>2
  <2>3. v.rec = l[1] /\ v.slot = l[2] /\ v.val = Write /\ v.cfg = 1
    BY <2>1 DEF Vote
  <2>4. QED
    BY <2>1, <2>2, <2>3 DEF IsValue, IsControl, Write
<1>6. ASSUME NEW cert \in chosen
      PROVE  /\ cert.slot \in Slot /\ cert.val = Write /\ cert.cfg = 1
             /\ cert.by = {l[1] : l \in {x \in legacy : x[2] = cert.slot}}
             /\ Cardinality(cert.by) >= QuorumSize(First)
  BY <1>1 DEF Legacy
<1>7. SlotAgreement
  BY <1>6 DEF SlotAgreement
<1>8. CertsOK(chosen, votes)
  <2>1. ASSUME NEW cert \in chosen
        PROVE  cert.by \subseteq Genesis /\ \A r \in cert.by : Vote(r, cert.slot, Write, 1) \in votes
    <3>1. \A l \in legacy : l[1] \in Genesis
      BY <1>2
    <3>2. QED
      BY <1>1, <1>6, <3>1
  <2>2. CertsTyped(chosen)
    BY <1>6, <2>1, ReconfigurationAssumption DEF CertsTyped, IsValue
  <2>3. ASSUME NEW cert \in chosen PROVE Supported(chosen, votes, cert)
    <3>1. Derived(chosen, NewCore) /\ ClusterFor(NewCore, cert.slot) = First
      BY <1>6, NothingDecided
    <3>2. First.id = 1 /\ First.members = Genesis
      BY DEF First
    <3>3. QED
      BY <1>6, <2>1, <3>1, <3>2 DEF Supported
  <2>4. \A cert \in chosen : cert.val.kind # "freeze"
    BY <1>6 DEF Write
  <2>5. QED
    BY <2>2, <2>3, <2>4 DEF CertsOK
<1>9. QED
  BY <1>3, <1>4, <1>5, <1>7, <1>8 DEF AgreementInv

\* Every step keeps the invariant.
LEMMA AgreementNext == AgreementInv /\ [Next]_vars => AgreementInv'
<1> SUFFICES ASSUME AgreementInv, [Next]_vars PROVE AgreementInv'
  OBVIOUS
<1>0. Caller \subseteq Node /\ Proposer \subseteq Node /\ Crashing \subseteq Node
  BY ReconfigurationAssumption
<1>1. ASSUME NEW n \in Caller,
             (\E m \in Wanted : ChangeMembership(n, m)) \/ AbortMembership(n) \/ GiveUp(n)
             \/ CompleteChange(n)
      PROVE  AgreementInv'
  BY <1>1, CallKeeps
<1>2. ASSUME NEW n \in Node, BeginReconfiguration(n) \/ FinishReconfiguration(n)
                             \/ \E s \in Slot : Propose(n, s)
      PROVE  AgreementInv'
  BY <1>2, ProposeKeeps
<1>3. ASSUME NEW r \in Node, NEW q \in requests, Record(r, q) PROVE AgreementInv'
  BY <1>3, RecordKeeps
<1>4. ASSUME NEW n \in Node, NEW o \in Offers, Decide(n, o[1], o[2]) PROVE AgreementInv'
  BY <1>4, DecideAssembles, DecideKeeps
<1>5. ASSUME NEW n \in Node, \/ \E cert \in chosen : Learn(n, cert)
                             \/ \E m \in Node : CatchUp(n, m)
                             \/ \E s \in Slot : CompleteDecision(n, s)
                             \/ Crash(n)
      PROVE  AgreementInv'
  BY <1>5, LearnKeeps
<1>6. CASE UNCHANGED vars
  <2>1. LogsOK' /\ OpsOK' /\ RequestsOK' /\ UNCHANGED <<votes, chosen>>
    BY <1>6 DEF AgreementInv, LogsOK, OpsOK, RequestsOK, vars
  <2>2. QED
    BY <2>1, Framed
<1>7. QED
  BY <1>0, <1>1, <1>2, <1>3, <1>4, <1>5, <1>6 DEF Next

\* A slot decides one value, whatever configuration decided it.  It holds for
\* every number of voters, every window of two slots or more and any sequence of
\* changes, aborts and crashes.
THEOREM SlotsAgree == Spec => []SlotAgreement
<1>1. AgreementInv => SlotAgreement
  BY DEF AgreementInv
<1>2. QED
  BY <1>1, AgreementInit, AgreementNext, PTL DEF Spec


-----------------------------------------------------------------------------
\* PrefixNeverStuck.  A control value that is decided was admitted by a recorder in
\* some derived state, and nothing but a terminal is decided in the slot that a
\* freeze reserves for it.
Origin(C, s, v) ==
    \E w : Derived(C, w) /\ s <= w.tip + Window /\ Admissible(w, s, v)

Unbroken(C) ==
    \A cert \in C : \A c : /\ Derived(C, c) /\ c.frozen # None
                           /\ cert.slot = c.frozen.freeze + Window
                           => IsTerminal(cert.val)

PrefixInv ==
    /\ AgreementInv
    /\ \A cert \in chosen : IsControl(cert.val) => Origin(chosen, cert.slot, cert.val)
    /\ Unbroken(chosen)

\* While a change is frozen its slots belong to one configuration: the one that
\* its freeze was decided under, for whoever looks.
LEMMA FrozenCluster ==
    ASSUME NEW C, CertsTyped(C), ValuesAgree(C), NEW a, Derived(C, a), a.frozen # None,
           a.tip = a.frozen.freeze, NEW w, Derived(C, w)
    PROVE  LET f == a.frozen.freeze
               s == f + Window
           IN  /\ ClusterFor(a, s) = ClusterFor(a, f)
               /\ ClusterFor(w, s).id \in Nat /\ ClusterFor(a, s).id \in Nat
               /\ ClusterFor(w, s).id <= ClusterFor(a, s).id
<1> DEFINE f == a.frozen.freeze
           s == f + Window
<1>1. CoreOK(a, a.tip) /\ a.tip \in Nat /\ CoreOK(w, w.tip) /\ w.tip \in Nat
  BY DerivedOK
<1>2. f \in Slot /\ f \in Nat /\ f >= 1 /\ s \in Slot /\ s \in Nat /\ s >= 1 /\ Window \in Nat
  BY FrozenFacts, ReconfigurationAssumption DEF Slot
<1>3. \A e \in a.epochs : e[1] \in Nat /\ e[1] <= f
  <2>1. \A e \in a.epochs : e[1] \in Nat
    BY <1>1, EpochFacts
  <2>2. QED
    BY <1>1, <2>1 DEF CoreOK
<1> HIDE DEF f
<1>4. {e \in a.epochs : e[1] <= s} = {e \in a.epochs : e[1] <= f}
  BY <1>2, <1>3
<1>5. ClusterFor(a, s) = ClusterFor(a, f)
  BY <1>4 DEF ClusterFor
<1>6. PICK x \in a.epochs : /\ ClusterFor(a, s) = x[2]
                            /\ \A g \in a.epochs : g[1] <= s => g[2].id <= x[2].id
  BY <1>1, <1>2, ClusterIs
<1>7. PICK e \in w.epochs : e[1] <= s /\ ClusterFor(w, s) = e[2]
  BY <1>1, <1>2, ClusterIs
<1>8. e[1] \in Nat /\ e[2].id \in Nat /\ x[2].id \in Nat
  BY <1>1, EpochFacts
<1>9. e \in a.epochs
  <2>1. CASE w.tip <= a.tip
    BY <2>1, Comparable
  <2>2. CASE e[1] <= a.tip + 1 /\ a.tip <= w.tip
    BY <2>2, Comparable
  <2>3. CASE e[1] > a.tip + 1
    <3>1. e # <<1, First>>
      BY <1>1, <2>3
    <3>2. PICK h, last \in Slot :
             /\ last = h + Window
             /\ e[1] = last + 1
             /\ a.tip >= h /\ a.tip < last =>
                  a.frozen # None /\ a.frozen.freeze = h /\ a.frozen.target = e[2]
      BY <3>1, EpochElsewhere
    <3>3. h \in Nat /\ h < f /\ a.tip = f /\ f < last
      BY <1>1, <1>2, <1>7, <2>3, <3>2 DEF Slot, f
    <3>4. a.frozen.freeze = h
      BY <1>2, <3>2, <3>3
    <3>5. QED
      BY <1>2, <3>3, <3>4 DEF f
  <2>4. QED
    BY <1>1, <1>8, <2>1, <2>2, <2>3
<1>10. ClusterFor(w, s).id <= ClusterFor(a, s).id
  BY <1>6, <1>7, <1>9
<1>11. QED
  BY <1>5, <1>6, <1>7, <1>8, <1>10 DEF f


\* The freeze of a frozen change is decided, in a slot that is not drained.
LEMMA FrozenDecided ==
    ASSUME NEW C, CertsTyped(C), ValuesAgree(C), NEW c, Derived(C, c), c.frozen # None
    PROVE  LET f == c.frozen.freeze IN
           /\ \E cert \in C : cert.slot = f /\ cert.val = Freeze(f, c.frozen.target)
           /\ ~Drained(C, f)
<1> DEFINE f == c.frozen.freeze
<1>1. PICK d, F, K : IsLog(C, d) /\ IsTrace(d, F, K) /\ c = F[K]
  BY DEF Derived
<1>2. K \in Nat /\ K \in 0 .. K /\ K <= MaxSlot /\ MaxSlot \in Nat
  BY <1>1, ReconfigurationAssumption DEF IsTrace
<1>3. FrozenSince(d, F, K)
  BY <1>1, <1>2, TraceHistory
<1>4. f \in 1 .. K /\ F[f - 1].frozen = None /\ d[f].val = Freeze(f, c.frozen.target)
  BY <1>1, <1>3 DEF FrozenSince
<1> HIDE DEF f
<1>5. \E cert \in C : cert.slot = f /\ cert.val = Freeze(f, c.frozen.target)
  <2>1. d[f] # None /\ f \in Slot
    BY <1>1, <1>2, <1>4 DEF IsTrace, Slot
  <2>2. PICK cert \in C : cert.slot = f /\ d[f] = Cert(cert)
    BY <1>1, <2>1 DEF IsLog
  <2>3. d[f].val = cert.val
    BY <2>2 DEF Cert
  <2>4. QED
    BY <1>4, <2>2, <2>3
<1>6. Derived(C, F[f - 1]) /\ F[f - 1].tip = f - 1
  <2>1. f - 1 \in 0 .. K /\ f - 1 \in 0 .. MaxSlot
    BY <1>2, <1>4
  <2>2. IsTrace(d, F, f - 1)
    BY <1>1, <1>2, <1>4, <2>1 DEF IsTrace
  <2>3. CoreOK(F[f - 1], f - 1)
    BY <1>1, <2>1, TraceSteps
  <2>4. QED
    BY <1>1, <2>2, <2>3 DEF Derived, CoreOK
<1>7. ~Drained(C, f)
  <2>1. ~Drained(C, F[f - 1].tip + 1)
    BY <1>4, <1>6, NotDrained
  <2>2. F[f - 1].tip + 1 = f
    BY <1>2, <1>4, <1>6
  <2>3. QED
    BY <2>1, <2>2
<1>8. QED
  BY <1>5, <1>7 DEF f

\* A certificate names the configuration that a node finds for its slot once it
\* has applied everything below it.
LEMMA CertCfg ==
    ASSUME NEW C, NEW V, CertsOK(C, V), ValuesAgree(C), NEW cert \in C,
           NEW b, Derived(C, b), b.tip >= cert.slot - 1
    PROVE  /\ cert.cfg = ClusterFor(b, cert.slot).id
           /\ cert.by \subseteq ClusterFor(b, cert.slot).members
           /\ Cardinality(cert.by) >= QuorumSize(ClusterFor(b, cert.slot))
<1> DEFINE s == cert.slot
<1>1. CertsTyped(C) /\ s \in Slot /\ s \in Nat /\ s >= 1
  BY ReconfigurationAssumption DEF CertsOK, CertsTyped, Slot
<1>2. PICK w : /\ Derived(C, w) /\ cert.cfg = ClusterFor(w, s).id
               /\ cert.by \subseteq ClusterFor(w, s).members
               /\ Cardinality(cert.by) >= QuorumSize(ClusterFor(w, s))
  BY DEF CertsOK, Supported
<1>3. ClusterFor(b, s).id <= cert.cfg /\ cert.cfg \in Nat /\ ClusterFor(b, s).id \in Nat
  BY CertCurrent
<1>4. cert.cfg <= ClusterFor(b, s).id
  BY <1>1, <1>2, ClusterBound
<1>5. ClusterFor(w, s) = ClusterFor(b, s)
  <2>1. CoreOK(b, b.tip) /\ CoreOK(w, w.tip) /\ b.tip \in Nat /\ w.tip \in Nat
    BY <1>1, <1>2, DerivedOK
  <2>2. PICK x \in w.epochs : ClusterFor(w, s) = x[2]
    BY <1>1, <2>1, ClusterIs
  <2>3. PICK y \in b.epochs : ClusterFor(b, s) = y[2]
    BY <1>1, <2>1, ClusterIs
  <2>4. x[2].id = y[2].id
    BY <1>2, <1>3, <1>4, <2>2, <2>3
  <2>5. x = y
    BY <1>1, <1>2, <2>4, OneEpoch
  <2>6. QED
    BY <2>2, <2>3, <2>5
<1>6. QED
  BY <1>2, <1>5

\* The quorum that promised a freeze, as it stood before the certificate in hand
\* was assembled.
LEMMA PromisedBefore ==
    ASSUME NEW C, NEW V, CertsOK(C, V), NEW cert,
           \A r \in cert.by : cert.val.kind = "freeze" =>
                                PromiseKept(C, V, Vote(r, cert.slot, cert.val, cert.cfg)),
           NEW z \in C \cup {cert}, z.val.kind = "freeze", ~Drained(C \cup {cert}, z.slot)
    PROVE  \E y \in C \cup {cert} : /\ y.slot = z.slot
                                    /\ \A r \in y.by : Promised(C, V, r, z.slot)
<1>1. ~Drained(C, z.slot)
  BY DrainedGrows
<1>2. ASSUME NEW x \in C, x.val.kind = "freeze", x.slot = z.slot
      PROVE  \E y \in C : y.slot = z.slot /\ \A r \in y.by : Promised(C, V, r, z.slot)
  <2>1. FreezePromised(C, V, x)
    BY <1>2 DEF CertsOK
  <2>2. QED
    BY <1>1, <1>2, <2>1 DEF FreezePromised
<1>3. CASE z \in C
  BY <1>2, <1>3
<1>4. CASE z = cert /\ Echoes(C, z.slot, z.val)
  BY <1>2, <1>4 DEF Echoes
<1>5. CASE z = cert /\ ~Echoes(C, z.slot, z.val)
  <2>1. \A r \in cert.by : Promised(C, V, r, z.slot)
    BY <1>1, <1>5 DEF PromiseKept, Vote
  <2>2. QED
    BY <1>5, <2>1
<1>6. QED
  BY <1>3, <1>4, <1>5

\* The slot of a terminal stays reserved when a certificate is assembled: a voter
\* of any other value there is one that promised the freeze, so it had applied
\* the freeze when it voted.
LEMMA StaysUnbroken ==
    ASSUME NEW C, NEW V, CertsOK(C, V), Unbroken(C), NEW cert,
           CertsOK(C \cup {cert}, V), OneValue(C \cup {cert}),
           \A r \in cert.by : cert.val.kind = "freeze" =>
                                PromiseKept(C, V, Vote(r, cert.slot, cert.val, cert.cfg))
    PROVE  Unbroken(C \cup {cert})
<1> DEFINE B == C \cup {cert}
<1>1. CertsTyped(C) /\ CertsTyped(B) /\ ValuesAgree(B) /\ C \subseteq B
  BY DEF CertsOK, OneValue, ValuesAgree
<1>2. SUFFICES ASSUME NEW y \in B, NEW c, Derived(B, c), c.frozen # None,
                      y.slot = c.frozen.freeze + Window, ~IsTerminal(y.val)
               PROVE  FALSE
  BY DEF Unbroken
<1> DEFINE f == c.frozen.freeze
           s == y.slot
<1>3. /\ f \in Slot /\ f \in Nat /\ f <= c.tip /\ c.tip \in Nat /\ s \in Nat /\ s >= 1
      /\ Window \in Nat /\ Window > 0 /\ s = f + Window
  BY <1>1, <1>2, FrozenFacts, DerivedOK, ReconfigurationAssumption DEF Slot
<1>4. PICK a : Derived(B, a) /\ a.tip = f /\ a.frozen = c.frozen
  <2>1. f \in Nat /\ f <= c.tip
    BY <1>3
  <2>2. PICK a : /\ Derived(B, a) /\ a.tip = f
                 /\ c.frozen # None /\ c.frozen.freeze <= f => a.frozen = c.frozen
    BY <1>1, <1>2, <2>1, StateAt
  <2>3. QED
    BY <1>2, <1>3, <2>2
<1>5. PICK z \in B : z.slot = f /\ \A r \in z.by : Promised(C, V, r, f)
  <2>1. PICK x \in B : x.slot = f /\ x.val = Freeze(f, c.frozen.target)
    BY <1>1, <1>2, FrozenDecided
  <2>2. ~Drained(B, f)
    BY <1>1, <1>2, FrozenDecided
  <2>3. x.val.kind = "freeze"
    BY <2>1 DEF Freeze
  <2>4. ~Drained(C \cup {cert}, x.slot)
    BY <2>1, <2>2
  <2>5. \E u \in B : u.slot = x.slot /\ \A r \in u.by : Promised(C, V, r, x.slot)
    BY <2>3, <2>4, PromisedBefore
  <2>6. QED
    BY <2>1, <2>5
<1> DEFINE cfg == ClusterFor(a, f)
<1>6. z.by \subseteq cfg.members /\ Cardinality(z.by) >= QuorumSize(cfg) /\ z.cfg = cfg.id
  <2>1. a.tip >= z.slot - 1
    BY <1>3, <1>4, <1>5
  <2>2. QED
    BY <1>1, <1>4, <1>5, <2>1, CertCfg
<1>7. y.by \subseteq cfg.members /\ Cardinality(y.by) >= QuorumSize(cfg) /\ y.cfg = cfg.id
  <2>1. PICK w : /\ Derived(B, w) /\ y.cfg = ClusterFor(w, s).id
                 /\ y.by \subseteq ClusterFor(w, s).members
                 /\ Cardinality(y.by) >= QuorumSize(ClusterFor(w, s))
    BY DEF CertsOK, Supported
  <2>2. /\ ClusterFor(a, s) = ClusterFor(a, f)
        /\ ClusterFor(w, s).id \in Nat /\ ClusterFor(a, s).id \in Nat
        /\ ClusterFor(w, s).id <= ClusterFor(a, s).id
    <3>1. a.frozen # None /\ a.tip = a.frozen.freeze /\ a.frozen.freeze = f
          /\ s = a.frozen.freeze + Window
      BY <1>2, <1>4
    <3>2. QED
      BY <1>1, <1>4, <2>1, <3>1, FrozenCluster
  <2>3. ClusterFor(a, s).id <= y.cfg
    BY <1>1, <1>4, CertCurrent
  <2>4. CoreOK(a, a.tip) /\ CoreOK(w, w.tip) /\ a.tip \in Nat /\ w.tip \in Nat
    BY <1>1, <1>4, <2>1, DerivedOK
  <2>5. PICK p \in w.epochs : ClusterFor(w, s) = p[2]
    BY <1>3, <2>4, ClusterIs
  <2>6. PICK q \in a.epochs : ClusterFor(a, s) = q[2]
    BY <1>3, <2>4, ClusterIs
  <2>7. p[2].id = q[2].id
    BY <2>1, <2>2, <2>3, <2>5, <2>6
  <2>8. p = q
    BY <1>1, <1>4, <2>1, <2>7, OneEpoch
  <2>9. QED
    BY <2>1, <2>2, <2>5, <2>6, <2>8
<1>8. PICK r \in y.by : r \in z.by
  <2>1. CoreOK(a, a.tip) /\ a.tip \in Nat /\ f >= 1
    BY <1>1, <1>3, <1>4, DerivedOK DEF Slot
  <2>2. PICK q \in a.epochs : ClusterFor(a, f) = q[2]
    BY <1>3, <2>1, ClusterIs
  <2>3. IsFiniteSet(cfg.members)
    BY <2>1, <2>2, EpochFacts
  <2>4. QED
    BY <1>6, <1>7, <2>3, QuorumsMeet
<1> DEFINE v == Vote(r, s, y.val, y.cfg)
<1>9. v \in V /\ v.rec = r /\ v.slot = s /\ v.val = y.val
  BY <1>8 DEF CertsOK, Supported, Vote
<1>10. VoteOK(C, v)
  BY <1>3, <1>5, <1>8, <1>9 DEF Promised
<1>11. PICK w : /\ Derived(C, w) /\ s <= w.tip + Window
                /\ Admissible(w, s, y.val) \/ Echoes(C, s, y.val)
  BY <1>9, <1>10 DEF VoteOK
<1>12. w.tip \in Nat /\ f <= w.tip
  <2>1. w.tip \in Nat
    BY <1>1, <1>11, DerivedOK, ReconfigurationAssumption
  <2>2. QED
    BY <1>3, <1>11, <2>1
<1>13. PICK u : /\ Derived(C, u) /\ u.tip = f
                /\ u.frozen # None /\ w.tip < u.frozen.freeze + Window => w.frozen = u.frozen
  BY <1>1, <1>3, <1>11, <1>12, StateAt
<1>14. u.frozen # None /\ u.frozen.freeze = f
  <2>1. Derived(B, u)
    BY <1>1, <1>13, DerivedGrows
  <2>2. Similar(a, u)
    BY <1>1, <1>4, <1>13, <2>1, SameTip
  <2>3. QED
    BY <1>2, <1>4, <2>2 DEF Similar
<1>15. CASE Echoes(C, s, y.val)
  BY <1>2, <1>3, <1>13, <1>14, <1>15 DEF Unbroken, Echoes
<1>16. CASE Admissible(w, s, y.val)
  <2>1. w.tip < s
    BY <1>16 DEF Admissible
  <2>2. w.frozen # None /\ w.frozen.freeze = f
    BY <1>3, <1>13, <1>14, <2>1
  <2>3. ~(s < w.frozen.freeze + Window)
    BY <1>3, <2>2
  <2>4. \A kind \in {"finish", "abort"} : y.val # Terminal(kind, w.frozen.freeze, w.frozen.target)
    BY <1>2 DEF IsTerminal, Terminal
  <2>5. QED
    BY <1>16, <2>2, <2>3, <2>4 DEF Admissible
<1>17. QED
  BY <1>11, <1>15, <1>16


\* Certificates come from Decide only.
LEMMA CertSteps ==
    ASSUME AgreementInv, [Next]_vars
    PROVE  chosen' = chosen \/ \E n \in Node : \E cert : Assembles(n, cert)
<1>1. Caller \subseteq Node /\ Proposer \subseteq Node
  BY ReconfigurationAssumption
<1>2. ASSUME NEW n \in Node, NEW o \in Offers, Decide(n, o[1], o[2])
      PROVE  \E cert : Assembles(n, cert)
  BY <1>2, DecideAssembles
<1>3. CASE UNCHANGED vars
  BY <1>3 DEF vars
<1>4. ASSUME NEW n \in Node,
             \/ \E m \in Wanted : ChangeMembership(n, m)
             \/ AbortMembership(n) \/ GiveUp(n) \/ CompleteChange(n)
             \/ BeginReconfiguration(n) \/ FinishReconfiguration(n)
             \/ \E s \in Slot : Propose(n, s) \/ CompleteDecision(n, s)
             \/ \E q \in requests : Record(n, q)
             \/ \E cert \in chosen : Learn(n, cert)
             \/ \E m \in Node : CatchUp(n, m)
             \/ Crash(n)
      PROVE  chosen' = chosen
  BY <1>4 DEF ChangeMembership, AbortMembership, GiveUp, CompleteChange, BeginReconfiguration,
              FinishReconfiguration, Propose, CompleteDecision, Record, Learn, CatchUp, Crash
<1>5. QED
  BY <1>1, <1>2, <1>3, <1>4, ReconfigurationAssumption DEF Next

\* Every configuration of a derived state has a member, and a quorum of it too.
LEMMA QuorumNonempty ==
    ASSUME NEW cfg, IsFiniteSet(cfg.members), NEW by, by \subseteq cfg.members,
           Cardinality(by) >= QuorumSize(cfg)
    PROVE  \E r : r \in by
<1>1. Cardinality(cfg.members) \in Nat
  BY FS_CardinalityType
<1>2. Cardinality(by) # 0
  BY <1>1 DEF QuorumSize
<1>3. by # {}
  BY <1>2, FS_EmptySet
<1>4. QED
  BY <1>3

\* No control is decided at the start.
LEMMA PrefixInit == Init => PrefixInv
<1> SUFFICES ASSUME Init PROVE PrefixInv
  OBVIOUS
<1>1. AgreementInv
  BY AgreementInit
<1>2. \A cert \in chosen : cert.val = Write
  BY DEF Init, Legacy
<1>3. \A cert \in chosen : ~IsControl(cert.val)
  BY <1>2 DEF IsControl, Write
<1>4. ASSUME NEW c, Derived(chosen, c) PROVE c.frozen = None
  <2>1. CertsTyped(chosen) /\ ValuesAgree(chosen)
    BY <1>1 DEF AgreementInv, CertsOK, SlotAgreement, ValuesAgree
  <2>2. SUFFICES ASSUME c.frozen # None PROVE FALSE
    OBVIOUS
  <2>3. PICK cert \in chosen : cert.val = Freeze(c.frozen.freeze, c.frozen.target)
    BY <1>4, <2>1, <2>2, FrozenDecided
  <2>4. QED
    BY <1>2, <2>3 DEF Freeze, Write
<1>5. Unbroken(chosen)
  BY <1>4 DEF Unbroken
<1>6. QED
  BY <1>1, <1>3, <1>5 DEF PrefixInv

\* A new certificate neither breaks a prefix nor lacks the state it was decided
\* in; the other steps add none.
LEMMA PrefixNext == PrefixInv /\ [Next]_vars => PrefixInv'
<1> SUFFICES ASSUME PrefixInv, [Next]_vars PROVE PrefixInv'
  OBVIOUS
<1>1. AgreementInv /\ AgreementInv'
  BY AgreementNext DEF PrefixInv
<1>2. CASE chosen' = chosen
  BY <1>1, <1>2 DEF PrefixInv
<1>3. ASSUME NEW n \in Node, NEW cert, Assembles(n, cert)
      PROVE  PrefixInv'
  <2>1. /\ CertsOK(chosen', votes) /\ OneValue(chosen') /\ CertsOK(chosen, votes)
        /\ \A r \in cert.by : cert.val.kind = "freeze" =>
              PromiseKept(chosen, votes, Vote(r, cert.slot, cert.val, cert.cfg))
    BY <1>1, <1>3, DecideKeeps DEF AgreementInv
  <2>2. chosen' = chosen \cup {cert} /\ Unbroken(chosen)
    BY <1>3 DEF Assembles, PrefixInv
  <2>3. Unbroken(chosen')
    BY <2>1, <2>2, StaysUnbroken
  <2>4. ASSUME NEW s, NEW v, Origin(chosen, s, v) PROVE Origin(chosen', s, v)
    <3>1. PICK w : Derived(chosen, w) /\ s <= w.tip + Window /\ Admissible(w, s, v)
      BY <2>4 DEF Origin
    <3>2. Derived(chosen', w)
      BY <2>2, <3>1, DerivedGrows
    <3>3. QED
      BY <3>1, <3>2 DEF Origin
  <2>5. ASSUME IsControl(cert.val) PROVE Origin(chosen, cert.slot, cert.val)
    <3>1. PICK r : r \in cert.by
      <4>1. /\ cert.slot \in Slot /\ cert.by \subseteq ClusterFor(core[n], cert.slot).members
            /\ Cardinality(cert.by) >= QuorumSize(ClusterFor(core[n], cert.slot))
        BY <1>3 DEF Assembles
      <4>2. /\ CoreOK(core[n], core[n].tip) /\ core[n].tip \in Nat
            /\ cert.slot \in Nat /\ cert.slot >= 1
        BY <1>1, <4>1, NodeState, ReconfigurationAssumption DEF Slot
      <4>3. PICK e \in core[n].epochs : ClusterFor(core[n], cert.slot) = e[2]
        BY <4>2, ClusterIs
      <4>4. IsFiniteSet(ClusterFor(core[n], cert.slot).members)
        BY <4>2, <4>3, EpochFacts
      <4>5. QED
        BY <4>1, <4>4, QuorumNonempty
    <3> DEFINE u == Vote(r, cert.slot, cert.val, cert.cfg)
    <3>2. u \in votes /\ u.slot = cert.slot /\ u.val = cert.val
      BY <1>3, <3>1 DEF Assembles, Vote
    <3> HIDE DEF u
    <3>3. VoteOK(chosen, u)
      BY <1>1, <2>5, <3>2 DEF AgreementInv, VotesOK
    <3>4. PICK w : /\ Derived(chosen, w) /\ cert.slot <= w.tip + Window
                   /\ Admissible(w, cert.slot, cert.val) \/ Echoes(chosen, cert.slot, cert.val)
      BY <3>2, <3>3 DEF VoteOK
    <3>5. CASE Admissible(w, cert.slot, cert.val)
      BY <3>4, <3>5 DEF Origin
    <3>6. CASE Echoes(chosen, cert.slot, cert.val)
      BY <2>5, <3>6 DEF Echoes, PrefixInv
    <3>7. QED
      BY <3>4, <3>5, <3>6
  <2>6. \A z \in chosen' : IsControl(z.val) => Origin(chosen', z.slot, z.val)
    BY <2>2, <2>4, <2>5 DEF PrefixInv
  <2>7. QED
    BY <1>1, <2>3, <2>6 DEF PrefixInv
<1>4. QED
  BY <1>1, <1>2, <1>3, CertSteps

\* Nothing changes while no change is frozen.
LEMMA QuietPrefix ==
    ASSUME NEW C, CertsTyped(C), NEW d, IsLog(C, d), NEW F, NEW K, IsTrace(d, F, K),
           NEW j \in 0 .. K, \A i \in j .. K : F[i].frozen = None
    PROVE  F[K].epochs = F[j].epochs /\ F[K].retired = F[j].retired
<1> DEFINE S == {k \in 0 .. K : k < j \/ (F[k].epochs = F[j].epochs /\ F[k].retired = F[j].retired)}
<1>1. K \in Nat
  BY ReconfigurationAssumption DEF IsTrace
<1>2. 0 \in S
  BY <1>1
<1>3. ASSUME NEW k \in 1 .. K, k - 1 \in S PROVE k \in S
  <2>1. CASE k <= j
    BY <1>1, <2>1
  <2>2. CASE k > j
    <3>1. /\ CoreOK(F[k - 1], k - 1) /\ k \in Slot /\ d[k].by \subseteq Node
          /\ F[k] = Apply(F[k - 1], d[k])
          /\ \/ Skipped(F[k - 1], d[k], k) \/ Froze(F[k - 1], d[k], k)
             \/ Aborted(F[k - 1], d[k], k) \/ Finished(F[k - 1], d[k], k)
      BY <1>1, TraceSteps
    <3>2. StepIs(F[k - 1], d[k], k, F[k])
      BY <3>1, StepFields
    <3>3. F[k - 1].frozen = None /\ F[k].frozen = None
      BY <1>1, <2>2
    <3>4. F[k].epochs = F[k - 1].epochs /\ F[k].retired = F[k - 1].retired
      BY <3>1, <3>2, <3>3 DEF StepIs
    <3>5. F[k - 1].epochs = F[j].epochs /\ F[k - 1].retired = F[j].retired
      BY <1>1, <1>3, <2>2
    <3>6. QED
      BY <1>1, <3>4, <3>5
  <2>3. QED
    BY <1>1, <2>1, <2>2
<1> HIDE DEF S
<1>4. 0 .. K \subseteq S
  BY <1>1, <1>2, <1>3, Induction
<1>5. QED
  BY <1>1, <1>4 DEF S

\* A value that was admitted in a slot still applies when the slot's turn comes:
\* a freeze that another one overtook falls into its drain and is skipped.
LEMMA OriginApplies ==
    ASSUME NEW C, CertsTyped(C), ValuesAgree(C), NEW c, Derived(C, c), NEW s \in Slot,
           c.tip = s - 1, NEW v, IsControl(v), Origin(C, s, v), NEW x, x.val = v
    PROVE  Applies(c, x)
<1>1. PICK w : Derived(C, w) /\ s <= w.tip + Window /\ Admissible(w, s, v)
  BY DEF Origin
<1>2. PICK d, F, K : IsLog(C, d) /\ IsTrace(d, F, K) /\ c = F[K]
  BY DEF Derived
<1>3. K \in Nat /\ K \in 0 .. K /\ CoreOK(F[K], K)
  <2>1. K \in Nat
    BY <1>2, ReconfigurationAssumption DEF IsTrace
  <2>2. QED
    BY <1>2, <2>1, TraceSteps
<1>4. c.tip = K /\ c.tip + 1 = s /\ s \in Nat /\ Window \in Nat /\ Window > 0
  BY <1>2, <1>3, ReconfigurationAssumption DEF CoreOK, Slot
<1> DEFINE j == w.tip
<1>5. j \in 0 .. K /\ w.tip < s
  <2>1. w.tip < s /\ w.tip \in Nat
    BY <1>1, DerivedOK, ReconfigurationAssumption DEF Admissible
  <2>2. QED
    BY <1>3, <1>4, <2>1
<1>6. Similar(w, F[j])
  <2>1. IsTrace(d, F, j)
    BY <1>2, <1>3, <1>5, ReconfigurationAssumption DEF IsTrace
  <2>2. CoreOK(F[j], j)
    BY <1>2, <1>5, TraceSteps
  <2>3. Derived(C, F[j]) /\ F[j].tip = j
    BY <1>2, <2>1, <2>2 DEF Derived, CoreOK
  <2>4. QED
    BY <1>1, <2>3, SameTip
<1>7. c.frozen # None => c.frozen.freeze \in Nat
  BY <1>2, <1>3, ReconfigurationAssumption DEF CoreOK, CoreType, Frozen, Slot
<1>8. ASSUME v.kind = "freeze", Draining(c, s) PROVE Applies(c, x)
  BY <1>4, <1>8 DEF Applies
<1>9. ASSUME w.frozen = None, NEW t \in Target, v = Freeze(s, t),
             TargetValid(ClusterFor(w, s), t, w.retired)
      PROVE  Applies(c, x)
  <2>1. v.kind = "freeze" /\ v.freeze = s /\ v.target = t
    BY <1>9 DEF Freeze
  <2>2. CASE c.frozen # None
    <3> DEFINE f == c.frozen.freeze
    <3>1. FrozenSince(d, F, K)
      BY <1>2, <1>3, TraceHistory
    <3>2. f \in 1 .. K /\ \A i \in f .. K : F[i].frozen = c.frozen
      BY <1>2, <2>2, <3>1 DEF FrozenSince
    <3>3. F[j].frozen = None
      BY <1>6, <1>9 DEF Similar
    <3>4. ~(j >= f)
      BY <1>3, <1>5, <2>2, <3>2, <3>3
    <3>5. s > f /\ s < f + Window
      BY <1>1, <1>3, <1>4, <1>5, <3>2, <3>4
    <3>6. Draining(c, s)
      BY <2>2, <3>5 DEF Draining
    <3>7. QED
      BY <1>8, <2>1, <3>6
  <2>3. CASE c.frozen = None
    <3>1. ASSUME NEW i \in j .. K, F[i].frozen # None PROVE FALSE
      <4> DEFINE f == F[i].frozen.freeze
      <4>1. i \in 0 .. K /\ FrozenSince(d, F, i)
        BY <1>2, <1>3, <1>5, TraceHistory
      <4>2. f \in 1 .. i /\ \A k \in f .. i : F[k].frozen = F[i].frozen
        BY <3>1, <4>1 DEF FrozenSince
      <4>3. F[j].frozen = None
        BY <1>6, <1>9 DEF Similar
      <4>4. ~(j >= f)
        BY <1>3, <1>5, <3>1, <4>2, <4>3
      <4>5. K \in i .. K /\ K < f + Window
        BY <1>1, <1>3, <1>4, <1>5, <4>1, <4>2, <4>4
      <4>6. F[K].frozen = F[i].frozen
        BY <1>2, <3>1, <4>1, <4>5, FrozenPersists
      <4>7. QED
        BY <1>2, <2>3, <3>1, <4>6
    <3>2. c.epochs = F[j].epochs /\ c.retired = F[j].retired
      BY <1>2, <1>5, <3>1, QuietPrefix
    <3>3. c.epochs = w.epochs /\ c.retired = w.retired
      BY <1>6, <3>2 DEF Similar
    <3>4. TargetValid(ClusterFor(c, s), t, c.retired)
      BY <1>9, <3>3 DEF ClusterFor
    <3>5. QED
      BY <1>4, <2>1, <2>3, <3>4 DEF Applies
  <2>4. QED
    BY <2>2, <2>3
<1>10. ASSUME w.frozen # None, v.kind = "freeze", s < w.frozen.freeze + Window
       PROVE  Applies(c, x)
  <2>1. F[j].frozen # None /\ F[j].frozen.freeze = w.frozen.freeze
    BY <1>6, <1>10 DEF Similar
  <2>2. w.frozen.freeze \in Nat /\ w.frozen.freeze <= j
    BY <1>1, <1>10, FrozenFacts, ReconfigurationAssumption DEF Slot
  <2>3. K \in j .. K /\ K < F[j].frozen.freeze + Window
    BY <1>3, <1>4, <1>5, <1>10, <2>1, <2>2
  <2>4. c.frozen = F[j].frozen
    BY <1>2, <1>5, <2>1, <2>3, FrozenPersists
  <2>5. Draining(c, s)
    BY <1>4, <1>5, <1>10, <2>1, <2>2, <2>4 DEF Draining
  <2>6. QED
    BY <1>8, <1>10, <2>5
<1>11. ASSUME NEW kind \in {"finish", "abort"}, w.frozen # None, s = w.frozen.freeze + Window,
              w.tip = s - 1, v = Terminal(kind, w.frozen.freeze, w.frozen.target),
              kind = "abort" => Adds(ClusterFor(w, s), w.frozen.target)
       PROVE  Applies(c, x)
  <2>1. Similar(w, c)
    BY <1>1, <1>11, SameTip
  <2>2. v.kind = kind /\ v.freeze = w.frozen.freeze /\ v.target = w.frozen.target /\ IsTerminal(v)
    BY <1>11 DEF Terminal, IsTerminal
  <2>3. /\ c.frozen # None /\ c.frozen.freeze = w.frozen.freeze
        /\ c.frozen.target = w.frozen.target /\ c.epochs = w.epochs
    BY <1>11, <2>1 DEF Similar
  <2>4. ClusterFor(c, s) = ClusterFor(w, s)
    BY <2>3 DEF ClusterFor
  <2>5. QED
    BY <1>4, <1>11, <2>2, <2>3, <2>4 DEF Applies
<1>12. v # Write
  BY DEF IsControl, Write
<1>13. \A t : Freeze(s, t).kind = "freeze"
  BY DEF Freeze
<1>14. QED
  BY <1>1, <1>9, <1>10, <1>11, <1>12, <1>13 DEF Admissible

\* No schedule of freezes, drains and aborts leaves a log that a replica refuses,
\* or a prefix that passes its own terminal.
THEOREM PrefixesApply == Spec => []PrefixNeverStuck
<1>1. PrefixInv => PrefixNeverStuck
  <2> SUFFICES ASSUME PrefixInv, NEW n \in Node
               PROVE  /\ core[n].tip < MaxSlot /\ decided[n][core[n].tip + 1] # None
                            => Applies(core[n], decided[n][core[n].tip + 1])
                      /\ core[n].frozen # None => core[n].tip < core[n].frozen.freeze + Window
    BY DEF PrefixNeverStuck
  <2> DEFINE c == core[n]
             s == c.tip + 1
  <2>1. /\ AgreementInv /\ CertsTyped(chosen) /\ ValuesAgree(chosen)
        /\ Derived(chosen, c) /\ c.tip \in Nat /\ IsLog(chosen, decided[n])
        /\ MaxSlot \in Nat /\ Window \in Nat /\ Window > 0
    BY NodeState, ReconfigurationAssumption
    DEF PrefixInv, AgreementInv, CertsOK, SlotAgreement, ValuesAgree
  <2>2. ASSUME c.tip < MaxSlot, decided[n][s] # None
        PROVE  Applies(c, decided[n][s])
    <3>1. s \in Slot
      BY <2>1, <2>2 DEF Slot
    <3>2. PICK z \in chosen : z.slot = s /\ decided[n][s] = Cert(z)
      BY <2>1, <2>2, <3>1 DEF IsLog
    <3>3. decided[n][s].val = z.val
      BY <3>2 DEF Cert
    <3>4. CASE IsControl(z.val)
      <4>1. Origin(chosen, s, z.val)
        BY <3>2, <3>4 DEF PrefixInv
      <4>2. c.tip = s - 1
        BY <2>1
      <4>3. QED
        BY <2>1, <3>1, <3>3, <3>4, <4>1, <4>2, OriginApplies
    <3>5. CASE ~IsControl(z.val)
      BY <3>3, <3>5 DEF Applies
    <3>6. QED
      BY <3>4, <3>5
  <2>3. ASSUME c.frozen # None, ~(c.tip < c.frozen.freeze + Window)
        PROVE  FALSE
    <3>1. PICK d, F, K : IsLog(chosen, d) /\ IsTrace(d, F, K) /\ c = F[K]
      BY <2>1 DEF Derived
    <3>2. K \in Nat /\ K \in 0 .. K /\ CoreOK(F[K], K)
      <4>1. K \in Nat
        BY <3>1, ReconfigurationAssumption DEF IsTrace
      <4>2. QED
        BY <2>1, <3>1, <4>1, TraceSteps
    <3> DEFINE f == c.frozen.freeze
               k == f + Window
    <3>3. c.tip = K /\ f \in Nat /\ f >= 1
      BY <2>1, <2>3, <3>1, <3>2, FrozenFacts DEF CoreOK, Slot
    <3>4. FrozenSince(d, F, K)
      BY <2>1, <3>1, <3>2, TraceHistory
    <3>5. \A i \in f .. K : F[i].frozen = c.frozen
      BY <2>3, <3>1, <3>4 DEF FrozenSince
    <3>6. k \in 1 .. K /\ k \in f .. K /\ k - 1 \in f .. K /\ k - 1 \in 0 .. K
      BY <2>1, <2>3, <3>2, <3>3
    <3>7. /\ CoreOK(F[k - 1], k - 1) /\ k \in Slot /\ d[k].by \subseteq Node
          /\ F[k] = Apply(F[k - 1], d[k])
          /\ \/ Skipped(F[k - 1], d[k], k) \/ Froze(F[k - 1], d[k], k)
             \/ Aborted(F[k - 1], d[k], k) \/ Finished(F[k - 1], d[k], k)
      BY <2>1, <3>1, <3>6, TraceSteps
    <3>8. StepIs(F[k - 1], d[k], k, F[k])
      BY <3>7, StepFields
    <3>9. F[k - 1].frozen = c.frozen /\ F[k].frozen = c.frozen
      BY <3>5, <3>6
    <3>10. d[k].val.kind = "write" \/ Draining(F[k - 1], k)
      BY <2>3, <3>7, <3>8, <3>9 DEF StepIs
    <3>11. d[k].val.kind = "write"
      BY <2>1, <3>3, <3>9, <3>10 DEF Draining
    <3>12. d[k] # None
      BY <3>1, <3>6 DEF IsTrace
    <3>13. PICK z \in chosen : z.slot = k /\ d[k] = Cert(z)
      BY <3>1, <3>7, <3>12 DEF IsLog
    <3>14. z.val.kind = "write"
      BY <3>11, <3>13 DEF Cert
    <3>15. IsTerminal(z.val)
      BY <2>1, <2>3, <3>13 DEF PrefixInv, Unbroken
    <3>16. QED
      BY <3>14, <3>15 DEF IsTerminal
  <2>4. QED
    BY <2>2, <2>3
<1>2. QED
  BY <1>1, PrefixInit, PrefixNext, PTL DEF Spec


-----------------------------------------------------------------------------
\* AddedVotersCaughtUp.  What a recorder checked of the added voters when it voted
\* for a finish, with the configuration it found then.
CaughtUp(C, D, s, v) ==
    \E w : /\ Derived(C, w)
           /\ \A x \in v.target.members \ ClusterFor(w, s).members : 1 .. s - 1 \subseteq D[x]

AddedInv ==
    /\ AgreementInv
    /\ durable = [n \in Node |-> durable[n]]
    /\ \A v \in votes : v.val.kind = "finish" =>
          CaughtUp(chosen, durable, v.slot, v.val) \/ Echoes(chosen, v.slot, v.val)
    /\ \A cert \in chosen : cert.val.kind = "finish" =>
          CaughtUp(chosen, durable, cert.slot, cert.val)

\* A decision marker that was synced stays, through crashes too.
LEMMA DurableGrows ==
    ASSUME durable = [n \in Node |-> durable[n]], [Next]_vars
    PROVE  /\ durable' = [n \in Node |-> durable'[n]]
           /\ \A n \in Node : durable[n] \subseteq durable'[n]
<1>1. ASSUME NEW n \in Node, NEW S, durable[n] \subseteq S, durable' = [durable EXCEPT ![n] = S]
      PROVE  /\ durable' = [m \in Node |-> durable'[m]]
             /\ \A m \in Node : durable[m] \subseteq durable'[m]
  BY <1>1
<1>2. CASE durable' = durable
  BY <1>2
<1>3. Caller \subseteq Node /\ Proposer \subseteq Node /\ Crashing \subseteq Node
  BY ReconfigurationAssumption
<1>4. SUFFICES durable' = durable \/ \E n \in Node : \E S : durable[n] \subseteq S
                                               /\ durable' = [durable EXCEPT ![n] = S]
  BY <1>1, <1>2
<1>5. ASSUME NEW n \in Node, NEW d, NEW s PROVE durable[n] \subseteq Synced(n, d, s)
  BY DEF Synced
<1>6. ASSUME NEW n \in Node, NEW cert, NEW sync, Install(n, cert, sync)
      PROVE  durable' = durable \/ \E S : durable[n] \subseteq S
                                         /\ durable' = [durable EXCEPT ![n] = S]
  BY <1>5, <1>6 DEF Install
<1>7. ASSUME NEW n \in Node,
             \/ \E m \in Wanted : ChangeMembership(n, m)
             \/ AbortMembership(n) \/ GiveUp(n)
             \/ BeginReconfiguration(n)
             \/ \E s \in Slot : Propose(n, s)
             \/ \E q \in requests : Record(n, q)
      PROVE  durable' = durable
  BY <1>7 DEF ChangeMembership, AbortMembership, GiveUp, BeginReconfiguration, Propose, Record
<1>8. ASSUME NEW n \in Node, FinishReconfiguration(n) \/ CompleteChange(n)
                             \/ \E m \in Node : CatchUp(n, m)
      PROVE  \E S : durable[n] \subseteq S /\ durable' = [durable EXCEPT ![n] = S]
  <2>1. PICK T : durable' = [durable EXCEPT ![n] = durable[n] \cup T]
    BY <1>8 DEF FinishReconfiguration, CompleteChange, CatchUp
  <2>2. QED
    BY <2>1
<1>9. ASSUME NEW n \in Node, NEW s, CompleteDecision(n, s)
      PROVE  \E S : durable[n] \subseteq S /\ durable' = [durable EXCEPT ![n] = S]
  BY <1>5, <1>9 DEF CompleteDecision
<1>10. ASSUME NEW n \in Node, Crash(n)
       PROVE  \E S : durable[n] \subseteq S /\ durable' = [durable EXCEPT ![n] = S]
  BY <1>10 DEF Crash
<1>11. ASSUME NEW n \in Node, NEW cert, Learn(n, cert)
       PROVE  durable' = durable \/ \E S : durable[n] \subseteq S
                                          /\ durable' = [durable EXCEPT ![n] = S]
  BY <1>6, <1>11 DEF Learn
<1>12. ASSUME NEW n \in Node, NEW s, NEW v, Decide(n, s, v)
       PROVE  durable' = durable \/ \E S : durable[n] \subseteq S
                                          /\ durable' = [durable EXCEPT ![n] = S]
  <2>1. PICK cert : Install(n, cert, FALSE)
    BY <1>12 DEF Decide
  <2>2. QED
    BY <1>6, <2>1
<1>13. CASE UNCHANGED vars
  BY <1>13 DEF vars
<1>14. CASE Next
  <2>1. CASE \E n \in Caller, m \in Wanted : ChangeMembership(n, m)
    BY <1>3, <1>7, <2>1
  <2>2. CASE \E n \in Caller : AbortMembership(n) \/ GiveUp(n) \/ BeginReconfiguration(n)
    BY <1>3, <1>7, <2>2
  <2>3. CASE \E n \in Proposer, s \in Slot : Propose(n, s)
    BY <1>3, <1>7, <2>3
  <2>4. CASE \E r \in Node, q \in requests : Record(r, q)
    BY <1>7, <2>4
  <2>5. CASE \E n \in Caller : FinishReconfiguration(n) \/ CompleteChange(n)
    BY <1>3, <1>8, <2>5
  <2>6. CASE \E n, m \in Node : CatchUp(n, m)
    BY <1>8, <2>6
  <2>7. CASE \E n \in Caller, s \in Slot : CompleteDecision(n, s)
    BY <1>3, <1>9, <2>7
  <2>8. CASE \E n \in Crashing : Crash(n)
    BY <1>3, <1>10, <2>8
  <2>9. CASE \E n \in Node, cert \in chosen : Learn(n, cert)
    BY <1>11, <2>9
  <2>10. CASE \E n \in Caller \cup Proposer : \E o \in Offers : Decide(n, o[1], o[2])
    BY <1>3, <1>12, <2>10
  <2>11. QED
    BY <1>14, <2>1, <2>2, <2>3, <2>4, <2>5, <2>6, <2>7, <2>8, <2>9, <2>10 DEF Next
<1>15. QED
  BY <1>13, <1>14

\* Votes come from Record only.
LEMMA VoteSteps ==
    ASSUME [Next]_vars
    PROVE  votes' = votes \/ \E r \in Node, q \in requests : Record(r, q)
<1>1. CASE UNCHANGED vars
  BY <1>1 DEF vars
<1>2. CASE Next
  <2>1. ASSUME NEW n, \/ \E m \in Wanted : ChangeMembership(n, m)
                      \/ AbortMembership(n) \/ GiveUp(n) \/ CompleteChange(n)
                      \/ BeginReconfiguration(n) \/ FinishReconfiguration(n)
                      \/ \E s \in Slot : Propose(n, s) \/ CompleteDecision(n, s)
                      \/ \E cert \in chosen : Learn(n, cert)
                      \/ \E o \in Offers : Decide(n, o[1], o[2])
                      \/ \E m \in Node : CatchUp(n, m)
                      \/ Crash(n)
        PROVE  votes' = votes
    BY <2>1 DEF ChangeMembership, AbortMembership, GiveUp, CompleteChange, BeginReconfiguration,
                FinishReconfiguration, Propose, CompleteDecision, Learn, Decide, CatchUp, Crash
  <2>2. QED
    BY <1>2, <2>1 DEF Next
<1>3. QED
  BY <1>1, <1>2

\* An added voter that has caught up stays caught up: markers are never lost.
LEMMA CaughtUpGrows ==
    ASSUME NEW C, NEW B, C \subseteq B, NEW D, NEW E, \A n \in Node : D[n] \subseteq E[n],
           NEW s, NEW v, v.target.members \subseteq Node, CaughtUp(C, D, s, v)
    PROVE  CaughtUp(B, E, s, v)
<1>1. PICK w : /\ Derived(C, w)
               /\ \A x \in v.target.members \ ClusterFor(w, s).members : 1 .. s - 1 \subseteq D[x]
  BY DEF CaughtUp
<1>2. Derived(B, w)
  BY <1>1, DerivedGrows
<1>3. \A x \in v.target.members \ ClusterFor(w, s).members : 1 .. s - 1 \subseteq E[x]
  BY <1>1
<1>4. QED
  BY <1>2, <1>3 DEF CaughtUp

\* The target that a finish names.
LEMMA FinishValue ==
    ASSUME NEW s, NEW v, IsValue(s, v), v.kind = "finish"
    PROVE  v.target \in Target /\ v.target.members \subseteq Node /\ IsTerminal(v)
<1>1. v # Write
  BY DEF Write
<1>2. \A t : v # Freeze(s, t)
  BY DEF Freeze
<1>3. PICK kind \in {"finish", "abort"}, f \in Slot, t \in Target : v = Terminal(kind, f, t)
  BY <1>1, <1>2 DEF IsValue
<1>4. v.target = t
  BY <1>3 DEF Terminal
<1>5. QED
  BY <1>4 DEF Target, IsTerminal

\* No finish is voted for at the start.
LEMMA AddedInit == Init => AddedInv
<1> SUFFICES ASSUME Init PROVE AddedInv
  OBVIOUS
<1>1. AgreementInv /\ durable = [n \in Node |-> durable[n]]
  BY AgreementInit DEF Init
<1>2. \A cert \in chosen : cert.val = Write
  BY DEF Init, Legacy
<1>3. \A v \in votes : v.val = Write
  BY DEF Init, Vote
<1>4. Write.kind # "finish"
  BY DEF Write
<1>5. QED
  BY <1>1, <1>2, <1>3, <1>4 DEF AddedInv

\* A recorder votes for a finish after verifyMembershipAdmission, a certificate
\* needs such votes, and markers are never lost.
LEMMA AddedNext == AddedInv /\ [Next]_vars => AddedInv'
<1> SUFFICES ASSUME AddedInv, [Next]_vars PROVE AddedInv'
  OBVIOUS
<1>1. AgreementInv /\ AgreementInv'
  BY AgreementNext DEF AddedInv
<1>2. /\ durable' = [n \in Node |-> durable'[n]]
      /\ \A n \in Node : durable[n] \subseteq durable'[n]
  BY DurableGrows DEF AddedInv
<1>3. chosen \subseteq chosen'
  BY <1>1, CertSteps DEF Assembles
<1>4. ASSUME NEW s, NEW v, IsValue(s, v), v.kind = "finish", CaughtUp(chosen, durable, s, v)
      PROVE  CaughtUp(chosen', durable', s, v)
  BY <1>2, <1>3, <1>4, FinishValue, CaughtUpGrows
<1>5. ASSUME NEW v \in votes', v.val.kind = "finish"
      PROVE  CaughtUp(chosen', durable', v.slot, v.val) \/ Echoes(chosen', v.slot, v.val)
  <2>1. IsValue(v.slot, v.val)
    BY <1>1 DEF AgreementInv, VotesOK
  <2>2. CASE v \in votes
    <3>1. CaughtUp(chosen, durable, v.slot, v.val) \/ Echoes(chosen, v.slot, v.val)
      BY <1>5, <2>2 DEF AddedInv
    <3>2. Echoes(chosen, v.slot, v.val) => Echoes(chosen', v.slot, v.val)
      BY <1>3 DEF Echoes
    <3>3. QED
      BY <1>4, <1>5, <2>1, <3>1, <3>2
  <2>3. CASE v \notin votes
    <3>1. PICK r \in Node, q \in requests : Record(r, q)
      BY <2>3, VoteSteps
    <3> DEFINE held == decided[r][q.slot]
               val == IF held = None THEN q.val ELSE held.val
               c == core[r]
    <3>2. votes' = votes \cup {Vote(r, q.slot, val, q.cfg)}
          /\ (IsTerminal(q.val) /\ held = None => TerminalAdmitted(r, q))
      BY <3>1 DEF Record
    <3>3. v.slot = q.slot /\ v.val = val
      BY <2>3, <3>2 DEF Vote
    <3>4. q.slot \in Slot /\ Derived(chosen, c) /\ IsLog(chosen, decided[r])
      BY <1>1, NodeState DEF AgreementInv, RequestsOK
    <3>5. CASE held # None
      <4>1. PICK z \in chosen : z.slot = q.slot /\ held = Cert(z)
        BY <3>4, <3>5 DEF IsLog
      <4>2. v.val = z.val
        BY <3>3, <3>5, <4>1 DEF Cert
      <4>3. QED
        BY <1>3, <3>3, <4>1, <4>2 DEF Echoes
    <3>6. CASE held = None
      <4>1. v.val = q.val /\ IsTerminal(q.val)
        BY <1>5, <3>3, <3>6 DEF IsTerminal
      <4>2. /\ c.tip = q.slot - 1 /\ q.val.target = c.frozen.target
            /\ Admitted(ClusterFor(c, q.slot), c.frozen.target, c.tip)
        BY <1>5, <3>2, <3>6, <4>1 DEF TerminalAdmitted
      <4>3. \A x \in q.val.target.members \ ClusterFor(c, q.slot).members :
               1 .. q.slot - 1 \subseteq durable[x]
        BY <4>2 DEF Admitted
      <4>4. CaughtUp(chosen, durable, v.slot, v.val)
        BY <3>3, <3>4, <4>1, <4>3 DEF CaughtUp
      <4>5. QED
        BY <1>4, <1>5, <2>1, <4>4
    <3>7. QED
      BY <3>5, <3>6
  <2>4. QED
    BY <2>2, <2>3
<1>6. ASSUME NEW z \in chosen', z.val.kind = "finish"
      PROVE  CaughtUp(chosen', durable', z.slot, z.val)
  <2>1. IsValue(z.slot, z.val)
    BY <1>1 DEF AgreementInv, CertsOK, CertsTyped
  <2>2. SUFFICES CaughtUp(chosen, durable, z.slot, z.val)
    BY <1>4, <1>6, <2>1
  <2>3. CASE z \in chosen
    BY <1>6, <2>3 DEF AddedInv
  <2>4. CASE z \notin chosen
    <3>1. PICK n, cert : n \in Node /\ Assembles(n, cert)
      BY <1>1, <2>4, CertSteps
    <3>2. /\ z = cert /\ cert.slot \in Slot
          /\ cert.by \subseteq ClusterFor(core[n], cert.slot).members
          /\ Cardinality(cert.by) >= QuorumSize(ClusterFor(core[n], cert.slot))
          /\ \A r \in cert.by : Vote(r, cert.slot, cert.val, cert.cfg) \in votes
      BY <2>4, <3>1 DEF Assembles
    <3>3. PICK r : r \in cert.by
      <4>1. /\ CoreOK(core[n], core[n].tip) /\ core[n].tip \in Nat
            /\ cert.slot \in Nat /\ cert.slot >= 1
        BY <1>1, <3>1, <3>2, NodeState, ReconfigurationAssumption DEF Slot
      <4>2. PICK e \in core[n].epochs : ClusterFor(core[n], cert.slot) = e[2]
        BY <4>1, ClusterIs
      <4>3. IsFiniteSet(ClusterFor(core[n], cert.slot).members)
        BY <4>1, <4>2, EpochFacts
      <4>4. QED
        BY <3>2, <4>3, QuorumNonempty
    <3> DEFINE u == Vote(r, cert.slot, cert.val, cert.cfg)
    <3>4. u \in votes /\ u.slot = z.slot /\ u.val = z.val
      BY <3>2, <3>3 DEF Vote
    <3> HIDE DEF u
    <3>5. CaughtUp(chosen, durable, z.slot, z.val) \/ Echoes(chosen, z.slot, z.val)
      BY <1>6, <3>4 DEF AddedInv
    <3>6. QED
      BY <1>6, <3>5 DEF AddedInv, Echoes
  <2>5. QED
    BY <2>3, <2>4
<1>7. QED
  BY <1>1, <1>2, <1>5, <1>6 DEF AddedInv

\* Every epoch but the first was opened by a finish in the slot before it.
LEMMA EpochFinished ==
    ASSUME CertsTyped(chosen), NEW w, Derived(chosen, w), NEW e \in w.epochs, e # <<1, First>>
    PROVE  \E z \in chosen : /\ z.slot + 1 = e[1]
                             /\ z.val.kind = "finish" /\ z.val.target = e[2]
<1>1. PICK d, F, K : IsLog(chosen, d) /\ IsTrace(d, F, K) /\ w = F[K]
  BY DEF Derived
<1>2. K \in Nat /\ K \in 0 .. K /\ K <= MaxSlot /\ MaxSlot \in Nat
  BY <1>1, ReconfigurationAssumption DEF IsTrace
<1>3. EpochsSince(d, F, K)
  BY <1>1, <1>2, TraceHistory
<1>4. PICK f, last \in 1 .. K : e[1] = last + 1 /\ d[last].val = Terminal("finish", f, e[2])
  BY <1>1, <1>3 DEF EpochsSince, FromFreeze
<1>5. d[last] # None /\ last \in Slot
  BY <1>1, <1>2 DEF IsTrace, Slot
<1>6. PICK z \in chosen : z.slot = last /\ d[last] = Cert(z)
  BY <1>1, <1>5 DEF IsLog
<1>7. z.val = Terminal("finish", f, e[2])
  BY <1>4, <1>6 DEF Cert
<1>8. z.val.kind = "finish" /\ z.val.target = e[2]
  BY <1>7 DEF Terminal
<1>9. QED
  BY <1>4, <1>6, <1>8

\* A voter that a finish adds for the first time is in no configuration that a
\* derived state has up to the finish's slot.
LEMMA NewToBefore ==
    ASSUME CertsTyped(chosen), NEW cert \in chosen, NEW x \in NewTo(cert),
           NEW w, Derived(chosen, w)
    PROVE  x \notin ClusterFor(w, cert.slot).members
<1> DEFINE s == cert.slot
<1>1. s \in Nat /\ s >= 1
  BY ReconfigurationAssumption DEF CertsTyped, Slot
<1>2. CoreOK(w, w.tip) /\ w.tip \in Nat
  BY DerivedOK
<1>3. PICK e \in w.epochs : e[1] <= s /\ ClusterFor(w, s) = e[2]
  BY <1>1, <1>2, ClusterIs
<1>4. SUFFICES ASSUME x \in e[2].members PROVE FALSE
  BY <1>3
<1>5. e # <<1, First>>
  BY <1>4 DEF First, NewTo
<1>6. PICK z \in chosen : z.slot + 1 = e[1] /\ z.val.kind = "finish" /\ z.val.target = e[2]
  BY <1>5, EpochFinished
<1>7. z.slot \in Nat
  BY ReconfigurationAssumption DEF CertsTyped, Slot
<1>8. z.slot < s
  BY <1>1, <1>3, <1>6, <1>7
<1>9. QED
  BY <1>4, <1>6, <1>8 DEF NewTo

\* What the recorders checked is what AddedVotersCaughtUp says.
LEMMA AddedCaughtUp == AddedInv => AddedVotersCaughtUp
<1> SUFFICES ASSUME AddedInv, NEW cert \in chosen, cert.val.kind = "finish", NEW x \in NewTo(cert)
             PROVE  1 .. cert.slot - 1 \subseteq durable[x]
  BY DEF AddedVotersCaughtUp
<1>1. CertsTyped(chosen)
  BY DEF AddedInv, AgreementInv, CertsOK
<1>2. PICK w : /\ Derived(chosen, w)
               /\ \A y \in cert.val.target.members \ ClusterFor(w, cert.slot).members :
                     1 .. cert.slot - 1 \subseteq durable[y]
  BY DEF AddedInv, CaughtUp
<1>3. x \in cert.val.target.members
  BY DEF NewTo
<1>4. QED
  BY <1>1, <1>2, <1>3, NewToBefore

\* A voter that a finished change added had the whole prefix durably when the old
\* voters certified it.
THEOREM AddedVoters == Spec => []AddedVotersCaughtUp
BY AddedCaughtUp, AddedInit, AddedNext, PTL DEF Spec

-----------------------------------------------------------------------------
\* CompletedChangesKept.  Who runs a change is one of its voters.
CallsOK ==
    \A n \in Node : op[n] # None => op[n].abort \/ n \in op[n].target.members

KeptInv == AddedInv /\ CallsOK /\ CompletedChangesKept

\* Starting and ending a call.
LEMMA CallsStart ==
    ASSUME OpsOK, CallsOK, NEW n \in Node, NEW x,
           x = None \/ x.abort \/ n \in x.target.members, op' = [op EXCEPT ![n] = x]
    PROVE  CallsOK'
<1>1. \A m \in Node : op'[m] = IF m = n THEN x ELSE op[m]
  BY DEF OpsOK
<1>2. QED
  BY <1>1 DEF CallsOK

\* Only the two management calls start an operation.
LEMMA CallsNext ==
    ASSUME OpsOK, CallsOK, [Next]_vars
    PROVE  CallsOK'
<1>1. Caller \subseteq Node /\ Proposer \subseteq Node /\ Crashing \subseteq Node
  BY ReconfigurationAssumption
<1>2. CASE op' = op
  BY <1>2 DEF CallsOK
<1>3. ASSUME NEW n \in Node, op' = [op EXCEPT ![n] = None] PROVE CallsOK'
  BY <1>3, CallsStart
<1>4. ASSUME NEW n \in Node, NEW m, ChangeMembership(n, m) PROVE CallsOK'
  <2> DEFINE t == [id |-> Current(core[n]).id + 1, members |-> m]
             x == [round |-> RoundOf(core[n]), target |-> t, abort |-> FALSE]
  <2>1. op' = [op EXCEPT ![n] = x] /\ n \in t.members
    BY <1>4 DEF ChangeMembership
  <2>2. n \in x.target.members
    BY <2>1
  <2>3. QED
    BY <2>1, <2>2, CallsStart
<1>5. ASSUME NEW n \in Node, AbortMembership(n) PROVE CallsOK'
  <2> DEFINE x == [round |-> RoundOf(core[n]), target |-> core[n].frozen.target, abort |-> TRUE]
  <2>1. op' = [op EXCEPT ![n] = x]
    BY <1>5 DEF AbortMembership
  <2>2. x.abort
    OBVIOUS
  <2>3. QED
    BY <2>1, <2>2, CallsStart
<1>6. ASSUME NEW n \in Node, GiveUp(n) \/ CompleteChange(n) \/ Crash(n) PROVE CallsOK'
  BY <1>3, <1>6 DEF GiveUp, CompleteChange, Crash
<1>7. ASSUME NEW n \in Node,
             \/ BeginReconfiguration(n) \/ FinishReconfiguration(n)
             \/ \E s \in Slot : Propose(n, s) \/ CompleteDecision(n, s)
             \/ \E q \in requests : Record(n, q)
             \/ \E cert \in chosen : Learn(n, cert)
             \/ \E o \in Offers : Decide(n, o[1], o[2])
             \/ \E m \in Node : CatchUp(n, m)
      PROVE  op' = op
  BY <1>7 DEF BeginReconfiguration, FinishReconfiguration, Propose, CompleteDecision, Record,
              Learn, Decide, CatchUp
<1>8. CASE UNCHANGED vars
  BY <1>2, <1>8 DEF vars
<1>9. QED
  BY <1>1, <1>2, <1>4, <1>5, <1>6, <1>7, <1>8 DEF Next

\* Changes are completed by CompleteChange only.
LEMMA CompleteSteps ==
    ASSUME [Next]_vars
    PROVE  completed' = completed \/ \E n \in Node : CompleteChange(n)
<1>1. Caller \subseteq Node /\ Proposer \subseteq Node
  BY ReconfigurationAssumption
<1>2. CASE UNCHANGED vars
  BY <1>2 DEF vars
<1>3. ASSUME NEW n,   \/ \E m \in Wanted : ChangeMembership(n, m)
                      \/ AbortMembership(n) \/ GiveUp(n)
                      \/ BeginReconfiguration(n) \/ FinishReconfiguration(n)
                      \/ \E s \in Slot : Propose(n, s) \/ CompleteDecision(n, s)
                      \/ \E q \in requests : Record(n, q)
                      \/ \E cert \in chosen : Learn(n, cert)
                      \/ \E o \in Offers : Decide(n, o[1], o[2])
                      \/ \E m \in Node : CatchUp(n, m)
                      \/ Crash(n)
      PROVE  completed' = completed
  BY <1>3 DEF ChangeMembership, AbortMembership, GiveUp, BeginReconfiguration,
              FinishReconfiguration, Propose, CompleteDecision, Record, Learn, Decide, CatchUp,
              Crash
<1>4. QED
  BY <1>1, <1>2, <1>3 DEF Next

\* What CompletedChangesKept says of one change and the certificate of its finish.
KeptBy(cert, cfg) ==
    /\ cert.val.kind = "finish" /\ cert.val.target = cfg
    /\ Cardinality({r \in cfg.members : cert.slot \in durable[r]}) >= QuorumSize(cfg)
    /\ \E r \in cfg.members : 1 .. cert.slot \subseteq durable[r]
    /\ \A x \in NewTo(cert) : 1 .. cert.slot \subseteq durable[x]

\* It stays: markers are never lost, and a voter that is new was so before.
LEMMA KeptStays ==
    ASSUME CertsTyped(chosen), chosen \subseteq chosen',
           \A n \in Node : durable[n] \subseteq durable'[n],
           NEW cert \in chosen, NEW cfg, KeptBy(cert, cfg)
    PROVE  KeptBy(cert, cfg)'
<1> DEFINE A == {r \in cfg.members : cert.slot \in durable[r]}
           B == {r \in cfg.members : cert.slot \in durable'[r]}
<1>1. cfg.members \subseteq Node
  BY FinishValue DEF CertsTyped, KeptBy
<1>2. IsFiniteSet(cfg.members)
  BY <1>1, ReconfigurationAssumption, FS_Subset
<1>3. IsFiniteSet(B) /\ A \subseteq B
  BY <1>1, <1>2, FS_Subset
<1>4. Cardinality(A) <= Cardinality(B) /\ Cardinality(A) \in Nat /\ Cardinality(B) \in Nat
  BY <1>3, FS_Subset, FS_CardinalityType
<1>5. QuorumSize(cfg) \in Nat
  BY <1>2, FS_CardinalityType DEF QuorumSize
<1>6. Cardinality(B) >= QuorumSize(cfg)
  BY <1>4, <1>5 DEF KeptBy
<1>7. NewTo(cert)' \subseteq NewTo(cert) /\ NewTo(cert) \subseteq Node
  BY <1>1 DEF NewTo, KeptBy
<1>8. QED
  BY <1>1, <1>6, <1>7 DEF KeptBy

\* The last epoch of a core is the configuration of its first slot.
LEMMA LastEpoch ==
    ASSUME NEW c, CoreOK(c, c.tip), c.tip \in Nat
    PROVE  \E e \in c.epochs : /\ e[1] = Max({g[1] : g \in c.epochs}) /\ e[1] \in Nat
                               /\ e[1] <= c.tip + 1 /\ e[1] >= 1
                               /\ ClusterFor(c, e[1]) = e[2]
<1> DEFINE firsts == {g[1] : g \in c.epochs}
           last == Max(firsts)
<1>1. firsts \subseteq 1 .. c.tip + 1 /\ firsts # {} /\ firsts \subseteq 0 .. c.tip + 1
  BY DEF CoreOK
<1>2. last \in firsts
  <2>1. c.tip + 1 \in Nat
    OBVIOUS
  <2> HIDE DEF firsts
  <2>2. QED
    BY <1>1, <2>1, MaxOf
<1>3. PICK g \in c.epochs : g[1] = last
  BY <1>2
<1>4. last \in Nat /\ last >= 1 /\ last <= c.tip + 1
  BY <1>1, <1>2
<1> HIDE DEF last
<1>5. PICK e \in c.epochs : /\ e[1] <= last /\ ClusterFor(c, last) = e[2]
                            /\ \A h \in c.epochs : h[1] <= last => h[2].id <= e[2].id
  BY <1>4, ClusterIs
<1>6. e[1] \in Nat /\ g[1] \in Nat /\ e[2].id \in Nat /\ g[2].id \in Nat
  BY EpochFacts
<1>7. ~ (e[1] < g[1])
  BY <1>3, <1>4, <1>5, <1>6 DEF CoreOK
<1>8. e[1] = last
  BY <1>3, <1>5, <1>6, <1>7
<1>9. QED
  BY <1>4, <1>5, <1>8 DEF last

\* A change that is reported complete is kept: the caller's prefix is durable, a
\* quorum acknowledged the terminal, and so did each added voter, which had the
\* prefix before.
LEMMA CompleteKept ==
    ASSUME KeptInv, NEW n \in Node, CompleteChange(n), chosen' = chosen,
           \A m \in Node : durable[m] \subseteq durable'[m]
    PROVE  \E cfg : /\ completed' = completed \cup {cfg}
                    /\ \E cert \in chosen' : KeptBy(cert, cfg)'
<1> DEFINE c == core[n]
           last == Max({e[1] : e \in c.epochs})
           old == ClusterFor(c, last - 1)
           new == ClusterFor(c, last)
           acked == {r \in Node : last - 1 \in durable[r] /\ core[r].tip >= last - 1}
<1>1. /\ op[n] # None /\ ~ op[n].abort /\ last > 1 /\ new = op[n].target
      /\ durable' = [durable EXCEPT ![n] = @ \cup 1 .. c.tip]
      /\ TerminalAcknowledged(last - 1, old, new)
      /\ completed' = completed \cup {new}
  BY DEF CompleteChange
<1>2. /\ AgreementInv /\ CertsTyped(chosen) /\ durable = [m \in Node |-> durable[m]]
      /\ AddedVotersCaughtUp
  BY AddedCaughtUp DEF KeptInv, AddedInv, AgreementInv, CertsOK
<1>3. Derived(chosen, c) /\ CoreOK(c, c.tip) /\ c.tip \in Nat
  BY <1>2, NodeState
<1>4. PICK e \in c.epochs : /\ e[1] = last /\ last \in Nat /\ last <= c.tip + 1
                            /\ new = e[2]
  BY <1>3, LastEpoch
<1>5. PICK z \in chosen : z.slot + 1 = e[1] /\ z.val.kind = "finish" /\ z.val.target = e[2]
  <2>1. e # <<1, First>>
    BY <1>1, <1>4
  <2>2. QED
    BY <1>2, <1>3, <1>4, <2>1, EpochFinished
<1>6. z.slot \in Nat /\ z.slot = last - 1 /\ z.slot <= c.tip
  <2>1. z.slot \in Nat
    BY <1>2, ReconfigurationAssumption DEF CertsTyped, Slot
  <2>2. QED
    BY <2>1, <1>3, <1>4, <1>5
<1>7. new.members \subseteq Node /\ IsFiniteSet(new.members)
  BY <1>3, <1>4, EpochFacts
<1>8. Cardinality({r \in new.members : z.slot \in durable'[r]}) >= QuorumSize(new)
  <2> DEFINE A == acked \cap new.members
             B == {r \in new.members : z.slot \in durable'[r]}
  <2>1. Cardinality(A) >= QuorumSize(new)
    BY <1>1 DEF TerminalAcknowledged
  <2>2. IsFiniteSet(B) /\ A \subseteq B
    BY <1>6, <1>7, FS_Subset
  <2> HIDE DEF A, B
  <2>3. Cardinality(A) <= Cardinality(B) /\ Cardinality(A) \in Nat /\ Cardinality(B) \in Nat
    BY <2>2, FS_Subset, FS_CardinalityType
  <2>4. QuorumSize(new) \in Nat
    BY <1>7, FS_CardinalityType DEF QuorumSize
  <2>5. QED
    BY <2>1, <2>3, <2>4 DEF B
<1>9. n \in new.members /\ 1 .. z.slot \subseteq durable'[n]
  <2>1. n \in new.members
    BY <1>1 DEF KeptInv, CallsOK
  <2>2. 1 .. c.tip \subseteq durable'[n]
    BY <1>1, <1>2
  <2>3. 1 .. z.slot \subseteq 1 .. c.tip
    BY <1>3, <1>6
  <2>4. QED
    BY <2>1, <2>2, <2>3
<1>10. ASSUME NEW x \in NewTo(z) PROVE 1 .. z.slot \subseteq durable'[x]
  <2>1. x \notin old.members
    BY <1>2, <1>3, <1>6, NewToBefore
  <2>2. x \in new.members
    BY <1>4, <1>5 DEF NewTo
  <2>3. x \in acked
    BY <1>1, <2>1, <2>2 DEF TerminalAcknowledged
  <2>4. z.slot \in durable[x] /\ x \in Node
    BY <1>6, <2>3
  <2>5. 1 .. z.slot - 1 \subseteq durable[x]
    BY <1>2, <1>5 DEF AddedVotersCaughtUp
  <2>6. \A k \in 1 .. z.slot : k \in durable[x]
    <3>1. TAKE k \in 1 .. z.slot
    <3>2. k = z.slot \/ k \in 1 .. z.slot - 1
      BY <1>6
    <3>3. QED
      BY <2>4, <2>5, <3>2
  <2>7. QED
    BY <2>4, <2>6
<1>11. NewTo(z)' = NewTo(z)
  BY DEF NewTo
<1>12. PICK cfg : cfg = new
  OBVIOUS
<1>13. z.val.kind = "finish" /\ z.val.target = cfg
  BY <1>4, <1>5, <1>12
<1>14. /\ Cardinality({r \in cfg.members : z.slot \in durable'[r]}) >= QuorumSize(cfg)
       /\ \E r \in cfg.members : 1 .. z.slot \subseteq durable'[r]
  BY <1>8, <1>9, <1>12
<1>15. KeptBy(z, cfg)'
  BY <1>10, <1>11, <1>13, <1>14 DEF KeptBy
<1>16. QED
  BY <1>1, <1>12, <1>15

\* Markers and certificates are never lost, and a change is reported complete only
\* when it is kept.
LEMMA KeptNext == KeptInv /\ [Next]_vars => KeptInv'
<1> SUFFICES ASSUME KeptInv, [Next]_vars PROVE KeptInv'
  OBVIOUS
<1>1. AddedInv /\ AddedInv' /\ AgreementInv /\ CertsTyped(chosen) /\ OpsOK
  BY AddedNext DEF KeptInv, AddedInv, AgreementInv, CertsOK
<1>2. CallsOK'
  BY <1>1, CallsNext DEF KeptInv
<1>3. \A n \in Node : durable[n] \subseteq durable'[n]
  BY <1>1, DurableGrows DEF AddedInv
<1>4. chosen \subseteq chosen'
  BY <1>1, CertSteps DEF Assembles
<1>5. ASSUME NEW cfg \in completed PROVE \E cert \in chosen' : KeptBy(cert, cfg)'
  <2>1. PICK cert \in chosen : KeptBy(cert, cfg)
    BY DEF KeptInv, CompletedChangesKept, KeptBy
  <2>2. KeptBy(cert, cfg)'
    BY <1>1, <1>3, <1>4, <2>1, KeptStays
  <2>3. QED
    BY <1>4, <2>2
<1>6. \A cfg \in completed' : \E cert \in chosen' : KeptBy(cert, cfg)'
  <2>1. CASE completed' = completed
    BY <1>5, <2>1
  <2>2. CASE \E n \in Node : CompleteChange(n)
    <3>1. PICK n \in Node : CompleteChange(n)
      BY <2>2
    <3>2. chosen' = chosen
      BY <3>1 DEF CompleteChange
    <3>3. PICK new : /\ completed' = completed \cup {new}
                     /\ \E cert \in chosen' : KeptBy(cert, new)'
      BY <1>3, <3>1, <3>2, CompleteKept
    <3>4. QED
      BY <1>5, <3>3
  <2>3. QED
    BY <2>1, <2>2, CompleteSteps
<1>7. CompletedChangesKept'
  BY <1>6 DEF CompletedChangesKept, KeptBy
<1>8. QED
  BY <1>1, <1>2, <1>7 DEF KeptInv

\* A membership change that was reported complete survives any number of crashes:
\* a quorum of the new voters has its terminal on disk, and the caller as well as
\* each voter that is new has the whole prefix and can rebuild the epoch.
THEOREM ChangesKept == Spec => []CompletedChangesKept
<1>1. Init => KeptInv
  <2>1. SUFFICES ASSUME Init PROVE KeptInv
    OBVIOUS
  <2>2. \A n \in Node : op[n] = None
    BY <2>1 DEF Init
  <2>3. completed = {}
    BY <2>1 DEF Init
  <2>4. QED
    BY <2>1, <2>2, <2>3, AddedInit DEF KeptInv, CallsOK, CompletedChangesKept
<1>2. QED
  BY <1>1, KeptNext, PTL DEF Spec, KeptInv

=============================================================================
