----------------------------- MODULE Parts_proofs -----------------------------
(***************************************************************************)
(* What TLAPS proves of the modules that Parts puts side by side, for all  *)
(* values of their constants that satisfy the assumptions there.           *)
(***************************************************************************)
EXTENDS Parts, Sequences, SequenceTheorems, TLAPS, WellFoundedInduction

-----------------------------------------------------------------------------
(* Induction over the natural numbers, stated with sets.                  *)

(* A set of numbers that is not empty has a smallest one.                  *)
LEMMA SmallestOf ==
    ASSUME NEW S, S \subseteq Nat, S # {}
    PROVE  \E x \in S : \A y \in S : x =< y
<1>1. \E x \in S : \A y \in S : <<y, x>> \notin OpToRel(<, Nat)
  BY WFMin, NatLessThanWellFounded
<1>2. PICK x \in S : \A y \in S : <<y, x>> \notin OpToRel(<, Nat)
  BY <1>1
<1>3. \A y \in S : ~ (y < x)
  BY <1>2 DEF OpToRel
<1>4. QED
  BY <1>3

(* A set of numbers with 0 and the successor of each of its numbers.       *)
LEMMA SetInduction ==
    ASSUME NEW S, S \subseteq Nat, 0 \in S, \A k \in S : k + 1 \in S
    PROVE  S = Nat
<1>1. SUFFICES ASSUME Nat \ S # {} PROVE FALSE
  OBVIOUS
<1>2. PICK x \in Nat \ S : \A y \in Nat \ S : x =< y
  BY <1>1, SmallestOf
<1>3. x # 0 /\ x - 1 \in Nat /\ x - 1 \in S
  BY <1>2
<1>4. QED
  BY <1>2, <1>3

-----------------------------------------------------------------------------
(* The restart policy: RestartPolicy.                                      *)

(* A launch is counted by the policy unless the counter was reset, and no  *)
(* retry is due beyond the limit.                                          *)
RetriesCounted ==
    /\ maxRetries \in Nat /\ tries \in Nat /\ shortRuns \in Nat
    /\ shortRuns <= tries + 1
    /\ maxRetries # 0 =>
          /\ tries <= maxRetries
          /\ rpPc = "backoff" => tries < maxRetries

(* An executable none of whose runs outlasts the interval is launched at   *)
(* most max_retries + 1 times, for every limit, interval and way to back   *)
(* off.                                                                    *)
THEOREM ShortRunsBoundedCorrect ==
    RP!Spec => []ShortRunsBounded
<1>1. RP!Init => RetriesCounted
  BY RestartPolicyAssumption DEF RP!Init, RP!Assumptions, RetriesCounted
<1>2. RetriesCounted /\ [RP!Next]_RP!vars => RetriesCounted'
  BY DEF RetriesCounted, RP!Next, RP!vars, RP!ProcessEnds, RP!ShouldBackoff,
         RP!Backoff
<1>3. RetriesCounted => ShortRunsBounded
  BY DEF RetriesCounted, ShortRunsBounded, RP!ShortRunsBounded
<1>4. QED
  BY <1>1, <1>2, <1>3, PTL DEF RP!Spec

(* Function g doubles from 0 to k.                                         *)
Doubles(g, k) == g[0] = 1 /\ \A i \in 1..k : g[i] = 2 * g[i - 1]

(* There is such a function for every k.                                   *)
LEMMA DoublesExist ==
    ASSUME NEW k \in Nat PROVE \E g \in [Nat -> Nat] : Doubles(g, k)
<1> DEFINE S == {j \in Nat : \E g \in [Nat -> Nat] : Doubles(g, j)}
<1>1. 0 \in S
  <2>1. [i \in Nat |-> 1] \in [Nat -> Nat] /\ Doubles([i \in Nat |-> 1], 0)
    BY DEF Doubles
  <2>2. QED
    BY <2>1
<1>2. ASSUME NEW j \in S PROVE j + 1 \in S
  <2>1. PICK g \in [Nat -> Nat] : Doubles(g, j)
    BY <1>2
  <2> DEFINE h == [g EXCEPT ![j + 1] = 2 * g[j]]
  <2>2. h \in [Nat -> Nat]
    BY <1>2
  <2>3. Doubles(h, j + 1)
    BY <1>2, <2>1 DEF Doubles
  <2>4. j + 1 \in Nat /\ \E f \in [Nat -> Nat] : Doubles(f, j + 1)
    <3> HIDE DEF h
    <3> QED BY <1>2, <2>2, <2>3
  <2>5. QED
    BY <2>4
<1>3. S = Nat
  BY <1>1, <1>2, SetInduction
<1>4. QED
  BY <1>3

(* Two of them agree where both double.                                    *)
LEMMA DoublesAgree ==
    ASSUME NEW g \in [Nat -> Nat], NEW h \in [Nat -> Nat], NEW k \in Nat, NEW l \in Nat,
           Doubles(g, k), Doubles(h, l)
    PROVE  \A i \in Nat : i <= k /\ i <= l => g[i] = h[i]
<1> DEFINE S == {i \in Nat : i <= k /\ i <= l => g[i] = h[i]}
<1>1. 0 \in S
  BY DEF Doubles
<1>2. ASSUME NEW i \in S PROVE i + 1 \in S
  BY <1>2 DEF Doubles
<1>3. S = Nat
  BY <1>1, <1>2, SetInduction
<1>4. QED
  BY <1>3

(* So the recursive definition of the powers of two is one of a function.  *)
LEMMA PowIs == /\ RP!pow \in [Nat -> Nat] /\ RP!pow[0] = 1
               /\ \A k \in Nat : RP!pow[k + 1] = 2 * RP!pow[k]
<1> DEFINE G(k) == CHOOSE g \in [Nat -> Nat] : Doubles(g, k)
           P == [k \in Nat |-> G(k)[k]]
<1>1. \A k \in Nat : G(k) \in [Nat -> Nat] /\ Doubles(G(k), k)
  BY DoublesExist
<1> HIDE DEF G
<1>2. P[0] = 1
  BY <1>1 DEF Doubles
<1>3. \A k \in Nat \ {0} : P[k] = 2 * P[k - 1]
  <2>1. SUFFICES ASSUME NEW k \in Nat \ {0} PROVE G(k)[k] = 2 * G(k - 1)[k - 1]
    OBVIOUS
  <2>2. G(k)[k] = 2 * G(k)[k - 1]
    BY <1>1 DEF Doubles
  <2>3. G(k)[k - 1] = G(k - 1)[k - 1]
    <3>1. /\ k - 1 \in Nat /\ G(k) \in [Nat -> Nat] /\ Doubles(G(k), k)
          /\ G(k - 1) \in [Nat -> Nat] /\ Doubles(G(k - 1), k - 1)
      BY <1>1
    <3>2. \A i \in Nat : i <= k /\ i <= k - 1 => G(k)[i] = G(k - 1)[i]
      BY <3>1, DoublesAgree
    <3>3. QED
      BY <3>1, <3>2
  <2>4. QED
    BY <2>2, <2>3
<1>4. P = [k \in Nat |-> IF k = 0 THEN 1 ELSE 2 * P[k - 1]]
  BY <1>2, <1>3
<1> HIDE DEF P
<1>5. RP!pow = [k \in Nat |-> IF k = 0 THEN 1 ELSE 2 * RP!pow[k - 1]]
  BY <1>4 DEF RP!pow
<1>6. RP!pow[0] = 1 /\ \A k \in Nat : RP!pow[k + 1] = 2 * RP!pow[k]
  BY <1>5
<1> DEFINE S == {k \in Nat : RP!pow[k] \in Nat}
<1>7. S = Nat
  <2>1. 0 \in S
    BY <1>6
  <2>2. \A k \in S : k + 1 \in S
    BY <1>6
  <2>3. QED
    BY <2>1, <2>2, SetInduction
<1>8. \A k \in Nat : RP!pow[k] \in Nat
  BY <1>7
<1>9. RP!pow \in [Nat -> Nat]
  <2> HIDE DEF S
  <2> QED
  BY <1>5, <1>8
<1>10. QED
  BY <1>6, <1>9

(* A smaller exponent gives a smaller power.                               *)
LEMMA PowGrows ==
    ASSUME NEW j \in Nat, NEW k \in Nat, j < k
    PROVE  RP!pow[j] \in Nat /\ RP!pow[k] \in Nat /\ RP!pow[j] < RP!pow[k]
<1> DEFINE S == {i \in Nat : RP!pow[i] > 0 /\ \A l \in Nat : l < i => RP!pow[l] < RP!pow[i]}
<1>1. RP!pow \in [Nat -> Nat] /\ RP!pow[0] = 1 /\ \A i \in Nat : RP!pow[i + 1] = 2 * RP!pow[i]
  BY PowIs
<1>2. 0 \in S
  BY <1>1
<1>3. ASSUME NEW i \in S PROVE i + 1 \in S
  <2>1. RP!pow[i + 1] > RP!pow[i] /\ RP!pow[i + 1] > 0
    BY <1>1, <1>3
  <2>2. \A l \in Nat : l < i + 1 => l < i \/ l = i
    BY <1>3
  <2>3. \A l \in Nat : l < i + 1 => RP!pow[l] < RP!pow[i + 1]
    BY <1>1, <1>3, <2>1, <2>2
  <2>4. QED
    BY <1>3, <2>1, <2>3
<1>4. S = Nat
  BY <1>2, <1>3, SetInduction
<1>5. QED
  BY <1>1, <1>4

(* The remainder of what is smaller than the divisor.                      *)
LEMMA SmallRemainder ==
    ASSUME NEW x \in Nat, NEW m \in Nat, x < m
    PROVE  x % m = x
  OBVIOUS

(* The next delay of a sequence of retries is no shorter, as long as the   *)
(* power fits its width.                                                   *)
LEMMA DelayGrows ==
    ASSUME NEW s \in RP!Strategies, NEW k \in Nat \ {0}, k <= PowWidth
    PROVE  RP!Delay(s, k) >= RP!Delay(s, k - 1)
<1>1. InitialDelay \in Nat /\ PowWidth \in Nat
  BY RestartPolicyAssumption DEF RP!Assumptions
<1>2. CASE s = "fixed"
  BY <1>1, <1>2 DEF RP!Delay
<1>3. CASE s = "linear"
  <2>1. RP!Delay(s, k) = k * InitialDelay /\ RP!Delay(s, k - 1) = (k - 1) * InitialDelay
    BY <1>3 DEF RP!Delay
  <2>2. k * InitialDelay >= (k - 1) * InitialDelay
    BY <1>1
  <2>3. QED
    BY <2>1, <2>2
<1>4. CASE s = "exponential"
  <2> DEFINE i == RP!AtLeastOne(k) - 1
             j == RP!AtLeastOne(k - 1) - 1
  <2>1. i \in Nat /\ j \in Nat /\ i < PowWidth /\ j < PowWidth /\ (i = j \/ j < i)
    BY <1>1 DEF RP!AtLeastOne
  <2>2. /\ RP!Delay(s, k) = InitialDelay * (RP!pow[i] % RP!pow[PowWidth])
        /\ RP!Delay(s, k - 1) = InitialDelay * (RP!pow[j] % RP!pow[PowWidth])
    BY <1>4 DEF RP!Delay
  <2> HIDE DEF i, j
  <2>3. /\ RP!pow[i] \in Nat /\ RP!pow[j] \in Nat /\ RP!pow[PowWidth] \in Nat
        /\ RP!pow[i] < RP!pow[PowWidth] /\ RP!pow[j] < RP!pow[PowWidth]
        /\ RP!pow[j] <= RP!pow[i]
    BY <1>1, <2>1, PowGrows
  <2>4. /\ RP!Delay(s, k) = InitialDelay * RP!pow[i]
        /\ RP!Delay(s, k - 1) = InitialDelay * RP!pow[j]
    BY <2>2, <2>3, SmallRemainder
  <2>5. InitialDelay * RP!pow[j] <= InitialDelay * RP!pow[i]
    BY <1>1, <2>3
  <2>6. QED
    BY <2>4, <2>5
<1>5. QED
  BY <1>2, <1>3, <1>4 DEF RP!Strategies

(* The delay slept last is that of the retry before.                       *)
DelayIsLast ==
    /\ strategy \in RP!Strategies /\ tries \in Nat
    /\ delay = -1 \/ (tries # 0 /\ delay = RP!Delay(strategy, tries - 1))

(* Within a sequence of retries the delay never shrinks, whichever way it  *)
(* grows and whatever its first value, as long as the power of two fits    *)
(* the width of its type.                                                  *)
THEOREM DelaysGrowCorrect ==
    RP!Spec => DelaysGrow
<1>1. RP!Init => DelayIsLast
  BY DEF RP!Init, DelayIsLast
<1>2. DelayIsLast /\ [RP!Next]_RP!vars => DelayIsLast'
  BY DEF DelayIsLast, RP!Next, RP!vars, RP!ProcessEnds, RP!ShouldBackoff, RP!Backoff
<1>3. DelayIsLast /\ [RP!Next]_RP!vars =>
        [(RP!Backoff /\ delay >= 0 /\ tries <= PowWidth) => delay' >= delay]_RP!vars
  BY DelayGrows DEF DelayIsLast, RP!Backoff
<1>4. QED
  BY <1>1, <1>2, <1>3, PTL DEF RP!Spec, DelaysGrow, RP!DelaysGrow

-----------------------------------------------------------------------------
(* The rendered files of an agent: RenderedFiles.                          *)

(* What lies below a path that lies below another lies below that.         *)
LEMMA BelowTransitive ==
    ASSUME NEW p \in RF!Paths, NEW q \in RF!Paths, NEW r \in RF!Paths,
           q \in RF!Below(r), p \in RF!Below(q)
    PROVE  p \in RF!Below(r)
<1>1. p \in Seq(STRING) /\ q \in Seq(STRING) /\ r \in Seq(STRING)
  BY RenderedFilesAssumption DEF RF!Assumptions
<1>2. /\ Len(r) <= Len(q) /\ SubSeq(r, 1, Len(r)) = SubSeq(q, 1, Len(r))
      /\ Len(q) <= Len(p) /\ SubSeq(q, 1, Len(q)) = SubSeq(p, 1, Len(q))
  BY <1>1 DEF RF!Below
<1>3. \A i \in 1..Len(r) : q[i] = r[i]
  <2>1. \A i \in 1..Len(r) : SubSeq(r, 1, Len(r))[i] = r[i] /\ SubSeq(q, 1, Len(r))[i] = q[i]
    BY <1>1, <1>2
  <2>2. QED
    BY <1>2, <2>1
<1>4. \A i \in 1..Len(r) : p[i] = r[i]
  <2>1. \A i \in 1..Len(q) : SubSeq(q, 1, Len(q))[i] = q[i] /\ SubSeq(p, 1, Len(q))[i] = p[i]
    BY <1>1, <1>2
  <2>2. QED
    BY <1>1, <1>2, <1>3, <2>1
<1>5. Len(r) <= Len(p) /\ SubSeq(r, 1, Len(r)) = SubSeq(p, 1, Len(r))
  BY <1>1, <1>2, <1>4
<1>6. QED
  BY <1>1, <1>5 DEF RF!Below

(* What lies below a path is that path, or has it above.                   *)
LEMMA BelowOrAbove ==
    ASSUME NEW p \in RF!Paths, NEW q \in RF!Paths, p \in RF!Below(q)
    PROVE  q = p \/ q \in RF!Above(p)
  BY DEF RF!Above

(* A deletion, complete or not, takes only what lies below the paths it is *)
(* given, and if it is complete all of those.                              *)
LEMMA Deleted ==
    ASSUME NEW R \in SUBSET RF!Paths, NEW d,
           d = RF!Without(R) \/ d \in RF!Partly(R)
    PROVE  /\ d = [p \in RF!Paths |-> d[p]]
           /\ \A p \in RF!Paths :
                \/ d[p] = disk_[p]
                \/ d[p] = "none" /\ \E q \in R : p \in RF!Below(q)
           /\ d = RF!Without(R) => \A p \in R : d[p] = "none"
<1>1. \A p \in RF!Paths : p \in RF!Below(p)
  BY RenderedFilesAssumption DEF RF!Assumptions, RF!Below
<1>2. CASE d = RF!Without(R)
  BY <1>1, <1>2 DEF RF!Without
<1>3. CASE d \in RF!Partly(R)
  <2>1. PICK S \in SUBSET UNION {RF!Below(p) : p \in R} : d = RF!Without(S)
    BY <1>3 DEF RF!Partly
  <2>2. ASSUME NEW p \in RF!Paths, NEW s \in S, p \in RF!Below(s)
        PROVE  \E q \in R : p \in RF!Below(q)
    <3>1. PICK q \in R : s \in RF!Below(q)
      BY <2>1
    <3>2. s \in RF!Paths /\ q \in RF!Paths
      BY <3>1 DEF RF!Below
    <3>3. QED
      BY <2>2, <3>1, <3>2, BelowTransitive
  <2>3. /\ d = [p \in RF!Paths |-> d[p]]
        /\ \A p \in RF!Paths :
             \/ d[p] = disk_[p]
             \/ d[p] = "none" /\ \E q \in R : p \in RF!Below(q)
    BY <2>1, <2>2 DEF RF!Without
  <2>4. d = RF!Without(R) => \A p \in R : d[p] = "none"
    BY <1>1 DEF RF!Without
  <2>5. QED
    BY <2>3, <2>4
<1>4. QED
  BY <1>2, <1>3

(* The disk, and the paths that Agent Control knows, none of them a file   *)
(* of the process.                                                         *)
FilesTyped ==
    /\ disk_ = [p \in RF!Paths |-> disk_[p]]
    /\ tree \in Trees
    /\ manifest \subseteq RF!Paths \ OwnFiles
    /\ written \subseteq RF!Paths \ OwnFiles

(* What was written and is still there is in the manifest, or about to be, *)
(* unless it was lost track of.                                            *)
Noted ==
    \A p \in written \ lost :
        disk_[p] # "none" =>
            p \in manifest \/ (rfPc = "save" /\ p \in RF!Declared(tree))

(* From the reconciliation on nothing of an earlier tree is left.          *)
Cleared ==
    rfPc \in {"write", "save", "running"} =>
        \A p \in written \ (RF!Declared(tree) \cup lost) : disk_[p] = "none"

(* From the write on everything declared is there.                         *)
Filled ==
    rfPc \in {"save", "running"} =>
        \A p \in RF!Declared(tree) : disk_[p] = RF!Rendered(tree[p])

FilesInv == FilesTyped /\ Noted /\ Cleared /\ Filled

(* The paths of a tree are paths of Agent Control.                         *)
LEMMA DeclaredApart ==
    /\ \A t \in Trees : RF!Declared(t) \subseteq RF!Paths \ OwnFiles
    /\ OwnFiles \subseteq RF!Paths
<1>1. ASSUME NEW t \in Trees, NEW p \in RF!Declared(t)
      PROVE  p \in RF!Paths \ OwnFiles
  <2>1. p \in UNION {RF!Declared(u) : u \in Trees}
    BY <1>1
  <2>2. p \in RF!Paths
    BY <2>1, Zenon DEF RF!Paths
  <2>3. OwnFiles \cap RF!Declared(t) = {}
    BY RenderedFilesAssumption DEF RF!Assumptions
  <2>4. QED
    BY <1>1, <2>2, <2>3
<1>2. ASSUME NEW p \in OwnFiles PROVE p \in RF!Paths
  BY <1>2, Zenon DEF RF!Paths
<1>3. QED
  BY <1>1, <1>2

(* Initially nothing is on disk.                                           *)
LEMMA FilesInit == RF!Init => FilesInv
  BY DEF RF!Init, FilesInv, FilesTyped, Noted, Cleared, Filled

(* The deletions before a write and at a stop.                             *)
LEMMA DeleteEphemeralStep ==
    ASSUME FilesInv, NEW label \in {"reconcile", "down"},
           RF!DeleteEphemeral(label), rfPc \in {"wipe", "running"}
    PROVE  FilesInv'
<1>1. RF!EphemeralRoots(tree) \in SUBSET RF!Paths
  BY DeclaredApart DEF RF!EphemeralRoots, FilesInv, FilesTyped
<1>2. /\ disk_' = [p \in RF!Paths |-> disk_'[p]]
      /\ \A p \in RF!Paths : disk_'[p] = disk_[p] \/ disk_'[p] = "none"
  BY <1>1, Deleted DEF RF!DeleteEphemeral
<1>3. UNCHANGED <<manifest, tree, written, lost>> /\ rfPc' = label
  BY DEF RF!DeleteEphemeral
<1>4. QED
  BY <1>2, <1>3 DEF FilesInv, FilesTyped, Noted, Cleared, Filled

(* The deletion of what an earlier tree left, as far as it is noted.       *)
LEMMA ReconcileStep ==
    ASSUME FilesInv, RF!Reconcile
    PROVE  FilesInv'
<1>1. RF!Stale \in SUBSET RF!Paths
  BY DEF RF!Stale, FilesInv, FilesTyped
<1>2. /\ disk_' = [p \in RF!Paths |-> disk_'[p]]
      /\ \A p \in RF!Paths : disk_'[p] = disk_[p] \/ disk_'[p] = "none"
      /\ disk_' = RF!Without(RF!Stale) => \A p \in RF!Stale : disk_'[p] = "none"
  BY <1>1, Deleted DEF RF!Reconcile
<1>3. UNCHANGED <<manifest, tree, written>> /\ rfPc' = "write" /\ rfPc = "reconcile"
  BY DEF RF!Reconcile
<1>4. \/ disk_' = RF!Without(RF!Stale) /\ lost' = lost
      \/ lost' = lost \cup RF!Stale
  BY DEF RF!Reconcile
<1>5. Noted'
  BY <1>2, <1>3, <1>4 DEF FilesInv, FilesTyped, Noted
<1>6. Cleared'
  <2>. SUFFICES ASSUME NEW p \in written, p \notin RF!Declared(tree), p \notin lost'
                PROVE  disk_'[p] = "none"
    BY <1>3 DEF Cleared
  <2>1. p \in RF!Paths /\ p \notin lost
    BY <1>4 DEF FilesInv, FilesTyped
  <2>2. CASE disk_[p] = "none"
    BY <1>2, <2>1, <2>2
  <2>3. CASE disk_[p] # "none"
    <3>1. p \in RF!Stale
      BY <1>3, <2>1, <2>3 DEF FilesInv, Noted, RF!Stale
    <3>2. QED
      BY <1>2, <1>4, <3>1
  <2>4. QED
    BY <2>2, <2>3
<1>7. QED
  BY <1>2, <1>3, <1>5, <1>6 DEF FilesInv, FilesTyped, Filled

(* The write of all entries.                                               *)
LEMMA WriteEntriesStep ==
    ASSUME FilesInv, RF!WriteEntries
    PROVE  FilesInv'
<1>1. /\ disk_' = [p \in RF!Paths |-> IF p \in RF!Declared(tree)
                                    THEN RF!Rendered(tree[p]) ELSE disk_[p]]
      /\ written' = written \cup RF!Declared(tree)
      /\ rfPc = "write" /\ rfPc' = "save"
      /\ UNCHANGED <<manifest, tree, lost>>
  BY DEF RF!WriteEntries, RF!DiskAfter
<1>2. RF!Declared(tree) \subseteq RF!Paths \ OwnFiles
  BY DeclaredApart DEF FilesInv, FilesTyped
<1>3. FilesTyped'
  BY <1>1, <1>2 DEF FilesInv, FilesTyped
<1>4. Noted' /\ Cleared'
  BY <1>1, <1>2 DEF FilesInv, FilesTyped, Noted, Cleared
<1>5. Filled'
  BY <1>1, <1>2 DEF Filled
<1>6. QED
  BY <1>3, <1>4, <1>5 DEF FilesInv

(* A write that fails loses track of all it was to write.                  *)
LEMMA WriteFailsStep ==
    ASSUME FilesInv, RF!WriteFails
    PROVE  FilesInv'
<1>1. /\ written' = written \cup RF!Declared(tree)
      /\ lost' = lost \cup RF!Declared(tree)
      /\ rfPc' = "down"
      /\ UNCHANGED <<manifest, tree>>
  BY DEF RF!WriteFails
<1>2. RF!Declared(tree) \subseteq RF!Paths \ OwnFiles
  BY DeclaredApart DEF FilesInv, FilesTyped
<1>3. /\ disk_' = [p \in RF!Paths |-> disk_'[p]]
      /\ \A p \in RF!Paths \ RF!Declared(tree) : disk_'[p] = disk_[p]
  BY <1>2 DEF RF!WriteFails, RF!DiskAfter
<1>4. FilesTyped'
  BY <1>1, <1>2, <1>3 DEF FilesInv, FilesTyped
<1>5. Noted' /\ Cleared' /\ Filled'
  BY <1>1, <1>2, <1>3 DEF FilesInv, FilesTyped, Noted, Cleared, Filled, RF!WriteFails
<1>6. QED
  BY <1>4, <1>5 DEF FilesInv

(* The manifest is replaced, or what it would have said is lost.           *)
LEMMA SaveManifestStep ==
    ASSUME FilesInv, RF!SaveManifest
    PROVE  FilesInv'
<1>1. RF!Declared(tree) \subseteq RF!Paths \ OwnFiles
  BY DeclaredApart DEF FilesInv, FilesTyped
<1>2. QED
  BY <1>1 DEF RF!SaveManifest, FilesInv, FilesTyped, Noted, Cleared, Filled

(* The process of the agent writes its own files only.                     *)
LEMMA AgentWritesStep ==
    ASSUME FilesInv, NEW p \in OwnFiles, RF!AgentWrites(p)
    PROVE  FilesInv'
<1>1. RF!Declared(tree) \subseteq RF!Paths \ OwnFiles /\ p \in RF!Paths
  BY DeclaredApart DEF FilesInv, FilesTyped
<1>2. /\ disk_' = [q \in RF!Paths |-> disk_'[q]]
      /\ \A q \in RF!Paths \ {p} : disk_'[q] = disk_[q]
      /\ UNCHANGED <<manifest, rfPc, tree, written, lost>>
  BY DEF RF!AgentWrites, FilesInv, FilesTyped
<1>3. QED
  BY <1>1, <1>2 DEF FilesInv, FilesTyped, Noted, Cleared, Filled

(* Every action preserves the invariant.                                   *)
LEMMA FilesStep ==
    ASSUME FilesInv, [RF!Next]_RF!vars
    PROVE  FilesInv'
<1>1. CASE RF!SpinUp
  BY <1>1 DEF RF!SpinUp, FilesInv, FilesTyped, Noted, Cleared, Filled
<1>2. CASE RF!WipeBeforeWrite
  BY <1>2, DeleteEphemeralStep DEF RF!WipeBeforeWrite
<1>3. CASE RF!Stop
  BY <1>3, DeleteEphemeralStep DEF RF!Stop
<1>4. CASE RF!Crash
  BY <1>4 DEF RF!Crash, FilesInv, FilesTyped, Noted, Cleared, Filled
<1>5. CASE RF!RemoveAgent
  <2>1. /\ disk_' = [p \in RF!Paths |-> disk_'[p]]
        /\ \A p \in RF!Paths : disk_'[p] = disk_[p] \/ disk_'[p] = "none"
    BY <1>5, Deleted DEF RF!RemoveAgent
  <2>2. /\ rfPc = "down" /\ UNCHANGED <<rfPc, tree, written>>
        /\ \/ UNCHANGED <<manifest, lost>>
           \/ manifest' = {} /\ lost' = lost \cup manifest
           \/ /\ manifest' = {} /\ lost' = lost
              /\ \A p \in RF!Paths : disk_'[p] = "none"
    BY <1>5 DEF RF!RemoveAgent
  <2>3. QED
    BY <2>1, <2>2 DEF FilesInv, FilesTyped, Noted, Cleared, Filled
<1>6. CASE UNCHANGED RF!vars
  BY <1>6 DEF RF!vars, FilesInv, FilesTyped, Noted, Cleared, Filled
<1>7. QED
  BY <1>1, <1>2, <1>3, <1>4, <1>5, <1>6, ReconcileStep, WriteEntriesStep,
     WriteFailsStep, SaveManifestStep, AgentWritesStep
  DEF RF!Next

(* A supervisor that started finds exactly what its tree declares, for all *)
(* trees: what an earlier one had is gone unless its writing, its deletion *)
(* or its record failed.                                                   *)
THEOREM FilesAsDeclaredCorrect ==
    RF!Spec => []FilesAsDeclared
<1>1. FilesInv => FilesAsDeclared
  BY DEF FilesInv, Filled, Cleared, FilesAsDeclared, RF!FilesAsDeclared
<1>2. FilesInv /\ [RF!Next]_RF!vars => FilesInv'
  BY FilesStep
<1>3. QED
  BY <1>1, <1>2, FilesInit, PTL DEF RF!Spec

(* A file of the process outlives every deletion, as long as the           *)
(* directories above it are declared persistent: neither the entries that  *)
(* are wiped nor those of an earlier tree lie above it.                    *)
THEOREM OwnFilesStayCorrect ==
    RF!Spec => OwnFilesStay
<1>. DEFINE Sheltered(p) ==
              \A q \in RF!Above(p) : q \in RF!Declared(tree) /\ tree[q].persistent
<1>1. ASSUME FilesInv, RF!Next, NEW p \in OwnFiles, disk_[p] = "own",
             ~ RF!RemoveAgent, Sheltered(p)
      PROVE  disk_'[p] = "own"
  <2>1. /\ p \in RF!Paths
        /\ p \notin RF!Declared(tree)
        /\ p \notin manifest
        /\ RF!Declared(tree) \subseteq RF!Paths
    BY <1>1, DeclaredApart DEF FilesInv, FilesTyped
  <2>2. ASSUME NEW R \in SUBSET RF!Paths, p \notin R, R \cap RF!Above(p) = {},
               disk_' = RF!Without(R) \/ disk_' \in RF!Partly(R)
        PROVE  disk_'[p] = "own"
    <3>1. \A q \in R : p \notin RF!Below(q)
      BY <2>1, <2>2, BelowOrAbove
    <3>2. disk_'[p] = disk_[p] \/ \E q \in R : p \in RF!Below(q)
      BY <2>1, <2>2, Deleted
    <3>3. QED
      BY <1>1, <3>1, <3>2
  <2>3. CASE RF!WipeBeforeWrite \/ RF!Stop
    <3>1. /\ RF!EphemeralRoots(tree) \in SUBSET RF!Paths
          /\ p \notin RF!EphemeralRoots(tree)
          /\ RF!EphemeralRoots(tree) \cap RF!Above(p) = {}
      BY <1>1, <2>1 DEF RF!EphemeralRoots
    <3>2. \/ disk_' = RF!Without(RF!EphemeralRoots(tree))
          \/ disk_' \in RF!Partly(RF!EphemeralRoots(tree))
      BY <2>3 DEF RF!WipeBeforeWrite, RF!Stop, RF!DeleteEphemeral
    <3>3. QED
      BY <2>2, <3>1, <3>2
  <2>4. CASE RF!Reconcile
    <3>1. /\ RF!Stale \in SUBSET RF!Paths
          /\ p \notin RF!Stale
          /\ RF!Stale \cap RF!Above(p) = {}
      BY <1>1, <2>1 DEF RF!Stale, FilesInv, FilesTyped
    <3>2. disk_' = RF!Without(RF!Stale) \/ disk_' \in RF!Partly(RF!Stale)
      BY <2>4 DEF RF!Reconcile
    <3>3. QED
      BY <2>2, <3>1, <3>2
  <2>5. CASE RF!WriteEntries \/ RF!WriteFails
    BY <1>1, <2>1, <2>5 DEF RF!WriteEntries, RF!WriteFails, RF!DiskAfter
  <2>6. CASE \E q \in OwnFiles : RF!AgentWrites(q)
    BY <1>1, <2>1, <2>6 DEF RF!AgentWrites, FilesInv, FilesTyped
  <2>7. CASE RF!SpinUp \/ RF!SaveManifest \/ RF!Crash
    BY <1>1, <2>7 DEF RF!SpinUp, RF!SaveManifest, RF!Crash
  <2>8. QED
    BY <1>1, <2>3, <2>4, <2>5, <2>6, <2>7 DEF RF!Next
<1>2. FilesInv /\ [RF!Next]_RF!vars =>
        [\A p \in OwnFiles :
           (disk_[p] = "own" /\ ~ RF!RemoveAgent
              /\ \A q \in RF!Above(p) : q \in RF!Declared(tree) /\ tree[q].persistent)
           => disk_'[p] = "own"]_RF!vars
  BY <1>1
<1>3. FilesInv /\ [RF!Next]_RF!vars => FilesInv'
  BY FilesStep
<1>4. QED
  BY <1>2, <1>3, FilesInit, PTL DEF RF!Spec, OwnFilesStay, RF!OwnFilesStay

-----------------------------------------------------------------------------
(* The download of an artifact: OciFetch.                                  *)

(* Digest d may be what the request gets: its signature was found, if one  *)
(* is required, and it is the one asked for, if one was.                   *)
Vouched(d) ==
    /\ OF!ShouldVerifySignature(ofRequest) => d \in signed /\ OF!ValidSignature(d)
    /\ ofRequest.base # TagRef => d = ofRequest.base

(* What is asked for until a digest has been verified, and that digest     *)
(* from then on: the tag is not read again.                                *)
Pinned ==
    ofPc = "manifest" =>
        IF OF!ShouldVerifySignature(ofRequest)
        THEN reference \in OF!Digests /\ Vouched(reference)
        ELSE reference = ofRequest.base

(* The digest that is being verified, where that is required, and the      *)
(* manifest that was pulled.                                               *)
InHand ==
    /\ ofPc \in {"keys", "digest", "signatures"} => OF!ShouldVerifySignature(ofRequest)
    /\ ofPc = "signatures" /\ ofRequest.base # TagRef => digest = ofRequest.base
    /\ ofPc = "blob" =>
          /\ Vouched(digest)
          /\ OF!GetLayer(ofRequest.kind, Manifests[digest]) # NoResult

OciInv ==
    /\ signed \subseteq OF!Digests
    /\ Pinned
    /\ InHand
    /\ OF!VerifiedIsDownloaded

(* The layer of a manifest is one of its layers.                           *)
LEMMA LayerOfManifest ==
    ASSUME NEW kind, NEW m, OF!GetLayer(kind, m) # NoResult
    PROVE  \E i \in DOMAIN m.layers : m.layers[i] = OF!GetLayer(kind, m)
<1>. DEFINE supported ==
              {i \in DOMAIN m.layers :
                 m.layers[i].media \in IF kind = "package" THEN OF!PackageMedia
                                        ELSE OF!TypeMedia}
<1>1. /\ \E i \in supported : supported = {i}
      /\ OF!GetLayer(kind, m) = m.layers[CHOOSE i \in supported : TRUE]
  BY DEF OF!GetLayer
<1>2. (CHOOSE i \in supported : TRUE) \in supported
  BY <1>1
<1>3. QED
  BY <1>1, <1>2

(* A new attempt starts from the request.                                  *)
LEMMA RetryStep ==
    ASSUME OciInv, OF!Retry, OF!Calm
    PROVE  OciInv'
<1>1. /\ ofPc' \in {"failed", OF!First(ofRequest)}
      /\ reference' = ofRequest.base
      /\ UNCHANGED <<signed, ofRequest>>
  BY DEF OF!Retry, OF!Calm
<1>2. QED
  BY <1>1 DEF OciInv, OF!First, Pinned, InHand, OF!VerifiedIsDownloaded,
              OF!ShouldVerifySignature

(* The signature is looked up by the digest that is pulled next.           *)
LEMMA VerifySignatureStep ==
    ASSUME OciInv, OF!VerifySignature
    PROVE  OciInv'
<1>1. CASE OF!Retry
  BY <1>1, RetryStep DEF OF!VerifySignature
<1>2. CASE /\ digest \in signed /\ OF!ValidSignature(digest)
           /\ reference' = digest /\ ofPc' = "manifest"
  <2>1. ofPc = "signatures" /\ UNCHANGED <<signed, ofRequest>>
    BY DEF OF!VerifySignature, OF!Calm
  <2>2. Vouched(digest) /\ digest \in OF!Digests
    BY <1>2, <2>1 DEF OciInv, InHand, Vouched
  <2>3. Vouched(reference)' /\ reference' \in OF!Digests
    BY <1>2, <2>1, <2>2 DEF Vouched, OF!ShouldVerifySignature, OF!ValidSignature,
       OF!SignatureData
  <2>4. Pinned'
    BY <1>2, <2>1, <2>3 DEF OciInv, InHand, Pinned, OF!ShouldVerifySignature, OF!Digests
  <2>5. QED
    BY <1>2, <2>1, <2>4 DEF OciInv, InHand, OF!VerifiedIsDownloaded
<1>3. QED
  BY <1>1, <1>2 DEF OF!VerifySignature, OF!VerifiedReference

(* A pinned reference names one manifest.                                  *)
LEMMA PullManifestStep ==
    ASSUME OciInv, OF!PullManifest
    PROVE  OciInv'
<1>1. CASE OF!Retry
  BY <1>1, RetryStep DEF OF!PullManifest
<1>2. CASE /\ digest' = IF reference = TagRef THEN tag ELSE reference
           /\ OF!GetLayer(ofRequest.kind, Manifests[digest']) # NoResult
           /\ ofPc' = "blob"
  <2>1. ofPc = "manifest" /\ UNCHANGED <<signed, ofRequest>>
    BY DEF OF!PullManifest, OF!Calm
  <2>2. Vouched(digest')
    BY OciFetchAssumption, <1>2, <2>1 DEF OciInv, Pinned, Vouched, OF!Assumptions
  <2>3. InHand'
    BY <1>2, <2>1, <2>2 DEF InHand, Vouched, OF!ShouldVerifySignature,
       OF!ValidSignature, OF!SignatureData, OF!GetLayer, OF!PackageMedia, OF!TypeMedia
  <2>4. QED
    BY <1>2, <2>1, <2>3 DEF OciInv, Pinned, OF!VerifiedIsDownloaded
<1>3. QED
  BY <1>1, <1>2 DEF OF!PullManifest

(* What is returned is the manifest in hand, with its layer on disk.       *)
LEMMA PullBlobStep ==
    ASSUME OciInv, OF!PullBlob
    PROVE  OciInv'
<1>1. CASE OF!Retry
  BY <1>1, RetryStep DEF OF!PullBlob
<1>2. CASE ~ OF!Retry
  <2>. DEFINE layer == OF!GetLayer(ofRequest.kind, Manifests[digest])
  <2>1. /\ ofPc = "blob" /\ ofPc' = "done"
        /\ result' = [manifest |-> digest, layer |-> layer]
        /\ UNCHANGED <<signed, ofRequest, digest>>
    BY <1>2 DEF OF!PullBlob, OF!Calm
  <2>2. ofRequest.kind = "package" => files'[layer.digest] = "complete"
    BY <1>2 DEF OF!PullBlob
  <2>3. Vouched(digest) /\ \E i \in DOMAIN Manifests[digest].layers :
                              Manifests[digest].layers[i] = layer
    BY <2>1, LayerOfManifest DEF OciInv, InHand
  <2>. HIDE DEF layer
  <2>4. OF!VerifiedIsDownloaded'
    BY <2>1, <2>2, <2>3 DEF OF!VerifiedIsDownloaded, Vouched,
       OF!ShouldVerifySignature, OF!ValidSignature, OF!SignatureData
  <2>5. QED
    BY <2>1, <2>4 DEF OciInv, Pinned, InHand
<1>3. QED
  BY <1>1, <1>2

(* The registry may change at any time: signatures are only added.         *)
LEMMA RegistryStep ==
    ASSUME OciInv, NEW d \in OF!Digests, OF!MoveTag(d) \/ OF!PushSignature(d)
    PROVE  OciInv'
<1>1. /\ signed \subseteq signed' /\ signed' \subseteq OF!Digests
      /\ UNCHANGED <<ofRequest, ofPc, reference, digest, files, result>>
  BY DEF OF!MoveTag, OF!PushSignature, OciInv
<1>2. \A e : Vouched(e) => Vouched(e)'
  BY <1>1 DEF Vouched, OF!ShouldVerifySignature, OF!ValidSignature, OF!SignatureData
<1>3. QED
  BY <1>1, <1>2 DEF OciInv, Pinned, InHand, OF!VerifiedIsDownloaded, OF!Digests,
     OF!ShouldVerifySignature, OF!ValidSignature, OF!SignatureData, OF!GetLayer

(* What a download returns is what was verified, for every registry, all   *)
(* the ways it changes meanwhile and any number of attempts.               *)
THEOREM VerifiedIsDownloadedCorrect ==
    OF!Spec => []VerifiedIsDownloaded
<1>1. OF!Init => OciInv
  BY DEF OF!Init, OciInv, Pinned, InHand, OF!VerifiedIsDownloaded
<1>2. ASSUME OciInv, [OF!Next]_OF!vars PROVE OciInv'
  <2>1. ASSUME NEW r \in OF!Requests, OF!Download(r) PROVE OciInv'
    BY <1>2, <2>1 DEF OF!Download, OF!First, OciInv, Pinned, InHand,
       OF!VerifiedIsDownloaded, OF!ShouldVerifySignature
  <2>2. CASE OF!FetchKeys
    <3>1. CASE OF!Retry
      BY <1>2, <2>2, <3>1, RetryStep DEF OF!FetchKeys
    <3>2. CASE ~ OF!Retry
      BY <1>2, <2>2, <3>2 DEF OF!FetchKeys, OF!Calm, OciInv, Pinned, InHand,
         OF!VerifiedIsDownloaded
    <3>3. QED
      BY <3>1, <3>2
  <2>3. CASE OF!ResolveDigest
    <3>1. CASE OF!Retry
      BY <1>2, <2>3, <3>1, RetryStep DEF OF!ResolveDigest
    <3>2. CASE ~ OF!Retry
      BY <1>2, <2>3, <3>2 DEF OF!ResolveDigest, OF!Calm, OciInv, Pinned, InHand,
         OF!VerifiedIsDownloaded
    <3>3. QED
      BY <3>1, <3>2
  <2>4. CASE UNCHANGED OF!vars
    BY <1>2, <2>4 DEF OF!vars, OciInv, Pinned, InHand, Vouched,
       OF!VerifiedIsDownloaded, OF!ShouldVerifySignature, OF!ValidSignature,
       OF!SignatureData, OF!GetLayer, OF!Digests
  <2>5. QED
    BY <1>2, <2>1, <2>2, <2>3, <2>4, VerifySignatureStep, PullManifestStep,
       PullBlobStep, RegistryStep DEF OF!Next
<1>3. OciInv => VerifiedIsDownloaded
  BY DEF OciInv, VerifiedIsDownloaded
<1>4. QED
  BY <1>1, <1>2, <1>3, PTL DEF OF!Spec

-----------------------------------------------------------------------------
(* The health checks: Health.                                              *)

(* The contents and the checkers.                                          *)
HealthTyped ==
    /\ content = [o \in Objects |-> content[o]]
    /\ \A o \in Objects : content[o] \in Contents[o.kind]
    /\ plan \in Seq([kind : STRING, by : STRING, name : STRING])
    /\ next \in 0..Len(plan) /\ Len(plan) # 0

(* During a round what is up or down has been noted, no read has failed,   *)
(* and all that was checked so far was up at some moment.                  *)
Noticed ==
    next # 0 =>
        /\ HC!UpNow \subseteq up /\ HC!DownNow \subseteq down
        /\ \A i \in 1..(next - 1) : HC!Selected(plan[i]) \subseteq up

HealthInv == HealthTyped /\ Noticed /\ HC!HealthJustified

(* What the checkers read of an object decides rightly: an object that     *)
(* passes is up, and one that does not is down or unsettled.               *)
LEMMA PassesIffUp ==
    ASSUME NEW o \in Objects, NEW c \in Contents[o.kind]
    PROVE  /\ HC!Passes(o, c) => HC!Up(o, c)
           /\ ~ HC!Passes(o, c) => HC!Down(o, c)
<1>1. CASE c = Absent \/ o.kind \notin HC!Workloads
  BY <1>1 DEF HC!Passes, HC!Up, HC!Down
<1>2. CASE c = NoStatus /\ c # Absent
  BY <1>2 DEF HC!Passes, HC!Up, HC!Down, HC!Ok
<1>3. CASE c \notin {Absent, NoStatus} /\ o.kind \in HC!Workloads
  <2>1. /\ c.want \in Nat /\ c.ready \in Nat
        /\ o.kind # "StatefulSet" => c.unavailable \in Nat
        /\ o.kind = "DaemonSet" => c.updated \in Nat
    BY HealthAssumption, <1>3 DEF HC!Assumptions
  <2>2. CASE o.kind = "Deployment"
    BY <1>3, <2>1, <2>2 DEF HC!Passes, HC!Up, HC!Down, HC!Ok, HC!DeploymentOk
  <2>3. CASE o.kind = "DaemonSet"
    BY <1>3, <2>1, <2>3 DEF HC!Passes, HC!Up, HC!Down, HC!Ok, HC!DaemonSetOk
  <2>4. CASE o.kind = "StatefulSet"
    BY <1>3, <2>1, <2>4 DEF HC!Passes, HC!Up, HC!Down, HC!Ok, HC!StatefulSetOk
  <2>5. QED
    BY <1>3, <2>2, <2>3, <2>4 DEF HC!Workloads
<1>4. QED
  BY <1>1, <1>2, <1>3

(* Whatever changes during a round is noted.                               *)
LEMMA ChangeStep ==
    ASSUME HealthInv, NEW o \in Objects, NEW c \in Contents[o.kind], HC!Change(o, c)
    PROVE  HealthInv'
<1>1. /\ content' = [content EXCEPT ![o] = c]
      /\ UNCHANGED <<plan, next, health, unread>>
      /\ up' = IF next # 0 /\ HC!Up(o, c) THEN up \cup {o} ELSE up
      /\ down' = IF next # 0 /\ HC!Down(o, c) THEN down \cup {o} ELSE down
  BY DEF HC!Change
<1>2. \A p \in Objects : content'[p] = IF p = o THEN c ELSE content[p]
  BY <1>1 DEF HealthInv, HealthTyped
<1>3. HealthTyped'
  BY <1>1, <1>2 DEF HealthInv, HealthTyped
<1>4. Noticed'
  <2>. SUFFICES ASSUME next # 0 PROVE Noticed'
    BY <1>1 DEF Noticed
  <2>1. HC!UpNow' \subseteq up'
    BY <1>1, <1>2 DEF HealthInv, Noticed, HC!UpNow
  <2>2. HC!DownNow' \subseteq down'
    BY <1>1, <1>2 DEF HealthInv, Noticed, HC!DownNow
  <2>3. \A i \in 1..(next - 1) : HC!Selected(plan[i])' \subseteq up'
    BY <1>1 DEF HealthInv, Noticed, HC!Selected, HC!Selects
  <2>4. QED
    BY <1>1, <2>1, <2>2, <2>3 DEF Noticed
<1>5. HC!HealthJustified'
  BY <1>1 DEF HealthInv, HC!HealthJustified, HC!InScope, HC!Selected, HC!Selects
<1>6. QED
  BY <1>3, <1>4, <1>5 DEF HealthInv

(* One checker.                                                            *)
LEMMA CheckStep ==
    ASSUME HealthInv, HC!Check
    PROVE  HealthInv'
<1>1. /\ UNCHANGED <<content, plan, up, down>>
      /\ next \in 1..Len(plan) /\ Len(plan) \in Nat
      /\ DOMAIN plan = 1..Len(plan)
  BY DEF HC!Check, HC!world, HealthInv, HealthTyped
<1>2. /\ HC!UpNow \subseteq up /\ HC!DownNow \subseteq down
      /\ \A i \in 1..(next - 1) : HC!Selected(plan[i]) \subseteq up
  BY <1>1 DEF HealthInv, Noticed
<1>3. HC!Selected(plan[next]) \subseteq HC!InScope
  BY <1>1 DEF HC!InScope
<1>4. \A o \in HC!Selected(plan[next]) : o \in Objects /\ content[o] \in Contents[o.kind]
  BY DEF HC!Selected, HealthInv, HealthTyped
<1>5. /\ HC!InScope' = HC!InScope
      /\ HC!UpNow' = HC!UpNow /\ HC!DownNow' = HC!DownNow
      /\ \A i : HC!Selected(plan[i])' = HC!Selected(plan[i])
  BY <1>1 DEF HC!InScope, HC!UpNow, HC!DownNow, HC!Selected, HC!Selects
<1>6. CASE HC!CheckOk(plan[next]) /\ UNCHANGED unread
  <2>1. HC!Selected(plan[next]) \subseteq up
    BY <1>2, <1>4, <1>6, PassesIffUp DEF HC!CheckOk, HC!UpNow
  <2>2. \A i \in 1..next : HC!Selected(plan[i]) \subseteq up
    BY <1>1, <1>2, <2>1
  <2>3. CASE next = Len(plan) /\ next' = 0 /\ health' = "healthy"
    <3>1. HC!InScope \subseteq up
      BY <1>1, <2>2, <2>3 DEF HC!InScope
    <3>2. HC!HealthJustified'
      BY <1>1, <1>5, <2>3, <3>1 DEF HC!HealthJustified
    <3>3. QED
      BY <1>1, <2>3, <3>2 DEF HealthInv, HealthTyped, Noticed
  <2>4. CASE next # Len(plan) /\ next' = next + 1 /\ UNCHANGED health
    <3>1. next' \in 1..Len(plan) /\ next' - 1 = next
      <4>1. next \in Nat /\ 1 <= next /\ next <= Len(plan) /\ Len(plan) \in Nat
        BY <1>1
      <4>2. QED
        BY <2>4, <4>1
    <3>2. HealthTyped'
      BY <1>1, <3>1 DEF HealthInv, HealthTyped
    <3>3. Noticed'
      BY <1>1, <1>2, <1>5, <2>2, <3>1 DEF Noticed
    <3>4. HC!HealthJustified'
      BY <3>1 DEF HC!HealthJustified
    <3>5. QED
      BY <3>2, <3>3, <3>4 DEF HealthInv
  <2>5. CASE next' = 0 /\ health' = "unhealthy" /\ unread'
    BY <1>1, <2>5 DEF HealthInv, HealthTyped, Noticed, HC!HealthJustified
  <2>6. QED
    BY <1>6, <2>3, <2>4, <2>5 DEF HC!Check, HC!EndRound
<1>7. CASE ~ HC!CheckOk(plan[next]) /\ next' = 0 /\ health' = "unhealthy"
  <2>1. PICK o \in HC!Selected(plan[next]) : ~ HC!Passes(o, content[o])
    BY <1>7 DEF HC!CheckOk
  <2>2. o \in down
    BY <1>2, <1>4, <2>1, PassesIffUp DEF HC!DownNow
  <2>3. HC!HealthJustified'
    BY <1>1, <1>3, <1>5, <1>7, <2>1, <2>2 DEF HC!HealthJustified
  <2>4. QED
    BY <1>1, <1>7, <2>3 DEF HealthInv, HealthTyped, Noticed
<1>8. CASE next' = 0 /\ health' = "unhealthy" /\ unread'
  BY <1>1, <1>8 DEF HealthInv, HealthTyped, Noticed, HC!HealthJustified
<1>9. QED
  BY <1>6, <1>7, <1>8 DEF HC!Check, HC!EndRound

(* What is published as healthy was up, and what is published as unhealthy *)
(* was down or could not be read, for every plan and whatever happens to   *)
(* the objects while they are checked one after the other.                 *)
THEOREM HealthJustifiedCorrect ==
    HC!Spec => []HealthJustified
<1>1. HC!Init => HealthInv
  <2>. SUFFICES ASSUME HC!Init PROVE HealthInv
    OBVIOUS
  <2>1. plan \in Seq([kind : STRING, by : STRING, name : STRING]) \ {<<>>}
    BY HealthAssumption DEF HC!Init, HC!Assumptions
  <2>2. HealthTyped
    BY HealthAssumption, <2>1 DEF HC!Init, HC!Assumptions, HealthTyped
  <2>3. Noticed /\ HC!HealthJustified
    BY HealthAssumption DEF HC!Init, HC!Assumptions, Noticed, HC!HealthJustified
  <2>4. QED
    BY <2>2, <2>3 DEF HealthInv
<1>2. ASSUME HealthInv, [HC!Next]_HC!vars PROVE HealthInv'
  <2>1. CASE HC!Begin
    <3>1. /\ UNCHANGED <<content, plan>> /\ next' = 1
          /\ up' = HC!UpNow /\ down' = HC!DownNow
      BY <2>1 DEF HC!Begin, HC!world
    <3>2. HC!UpNow' = HC!UpNow /\ HC!DownNow' = HC!DownNow
      BY <3>1 DEF HC!UpNow, HC!DownNow
    <3>3. HealthTyped'
      BY <1>2, <3>1 DEF HealthInv, HealthTyped
    <3>4. Noticed' /\ HC!HealthJustified'
      BY <3>1, <3>2 DEF Noticed, HC!HealthJustified
    <3>5. QED
      BY <3>3, <3>4 DEF HealthInv
  <2>2. CASE UNCHANGED HC!vars
    <3>1. UNCHANGED <<content, plan, next, health, up, down, unread>>
      BY <2>2 DEF HC!vars, HC!world, HC!history
    <3>2. /\ HC!InScope' = HC!InScope
          /\ HC!UpNow' = HC!UpNow /\ HC!DownNow' = HC!DownNow
          /\ \A i : HC!Selected(plan[i])' = HC!Selected(plan[i])
      BY <3>1 DEF HC!InScope, HC!UpNow, HC!DownNow, HC!Selected, HC!Selects
    <3>3. QED
      BY <1>2, <3>1, <3>2 DEF HealthInv, HealthTyped, Noticed, HC!HealthJustified
  <2>3. QED
    BY <1>2, <2>1, <2>2, ChangeStep, CheckStep DEF HC!Next
<1>3. HealthInv => HealthJustified
  BY DEF HealthInv, HealthJustified
<1>4. QED
  BY <1>1, <1>2, <1>3, PTL DEF HC!Spec

-----------------------------------------------------------------------------
(* The status server: StatusServer.                                        *)

ControlEvents == {"HealthUpdated", "OpAMPConnected", "OpAMPConnectFailed",
                  "ControlDescriptionUpdated", "SubAgentRemoved", "AgentControlStopped"}
AgentEvents == {"SubAgentStarted", "SubAgentHealth", "AgentDescriptionUpdated"}
OfKind(k) == IF k = "control" THEN ControlEvents ELSE AgentEvents
Attributes == {"host", "version"}
AllHealths == SS!Healths \cup {SS!NoHealth}

Events == [is : ControlEvents \cup AgentEvents, about : SUBSET StatusAgents,
           type : Types \cup {NoType}, health : AllHealths, attributes : SUBSET Attributes]

(* What the events of each kind carry.                                     *)
WellFormed(e) ==
    /\ e.is \in ControlEvents \ {"SubAgentRemoved"} => e.about = {}
    /\ e.is \notin {"ControlDescriptionUpdated", "AgentDescriptionUpdated"} =>
          e.attributes = {}
    /\ e.is = "AgentDescriptionUpdated" => e.attributes # {}
    /\ e.is = "SubAgentHealth" => e.health \in SS!Healths
    /\ e.is = "SubAgentRemoved" => e.health = SS!NoHealth

MessageSet == [n : Nat, event : {e \in Events : WellFormed(e)}]

Entries == [type : Types \cup {NoType}, start : BOOLEAN,
            health : AllHealths, attributes : SUBSET Attributes]

SaidEntries == [known : BOOLEAN, health : AllHealths, attributes : SUBSET Attributes]

StatusTyped ==
    /\ n \in Nat
    /\ type \in [StatusAgents -> Types \cup {NoType}]
    /\ queue \in [SS!Kinds -> Seq(MessageSet)]
    /\ async \in [SS!Kinds -> Seq(MessageSet)]
    /\ status \in [health : AllHealths, reachable : BOOLEAN,
                   attributes : SUBSET Attributes, agents : [StatusAgents -> Entries]]
    /\ said \in [health : AllHealths, reachable : BOOLEAN,
                 attributes : SUBSET Attributes, agents : [StatusAgents -> SaidEntries]]

(* Each channel is in the order of the broadcasts, what was forwarded      *)
(* before what was not, and each has events of its kind.                   *)
InOrder ==
    \A k \in SS!Kinds :
        /\ \A i, j \in DOMAIN async[k] : i < j => async[k][i].n < async[k][j].n
        /\ \A i, j \in DOMAIN queue[k] : i < j => queue[k][i].n < queue[k][j].n
        /\ \A i \in DOMAIN async[k], j \in DOMAIN queue[k] : async[k][i].n < queue[k][j].n
        /\ \A i \in DOMAIN async[k] : async[k][i].event.is \in OfKind(k)
        /\ \A i \in DOMAIN queue[k] : queue[k][i].event.is \in OfKind(k)

(* No two messages have the same number.                                   *)
Numbered ==
    /\ \A m \in SS!Pending : m.n < n
    /\ \A l, m \in SS!Pending : l.n = m.n => l = m

(* Message m is the last one pending of the events K.                      *)
LastOf(K, m) ==
    /\ m.event.is \in K
    /\ \A f \in SS!Pending : f.event.is \in K => f.n <= m.n

(* The status of Agent Control once all messages are processed is what was *)
(* said last.                                                              *)
ControlCurrent ==
    /\ \A m \in SS!Pending : LastOf({"HealthUpdated"}, m) => m.event.health = said.health
    /\ (\A m \in SS!Pending : m.event.is # "HealthUpdated") => status.health = said.health
    /\ \A m \in SS!Pending :
          LastOf({"OpAMPConnected", "OpAMPConnectFailed"}, m) =>
              (m.event.is = "OpAMPConnected") = said.reachable
    /\ (\A m \in SS!Pending : m.event.is \notin {"OpAMPConnected", "OpAMPConnectFailed"}) =>
          status.reachable = said.reachable
    /\ \A x \in Attributes :
          x \in said.attributes <=>
              \/ x \in status.attributes
              \/ \E m \in SS!Pending :
                    m.event.is = "ControlDescriptionUpdated" /\ x \in m.event.attributes

(* A removal of agent a, numbered i or higher, is pending.                 *)
WillBeRemoved(a, i) ==
    \E f \in SS!Pending : f.event.is = "SubAgentRemoved" /\ a \in f.event.about /\ i <= f.n

(* What message m says of agent a no later message takes back.             *)
Lasting(a, m) == a \in m.event.about /\ ~ WillBeRemoved(a, m.n)

SetsHealth(a, m) ==
    a \in m.event.about /\ m.event.is \in {"SubAgentHealth", "SubAgentRemoved"}

(* The entry of agent a once all messages are processed is what was said   *)
(* last.                                                                   *)
EntryCurrent(a) ==
    /\ said.agents[a].known <=>
          \/ status.agents[a] # SS!NoEntry /\ ~ WillBeRemoved(a, 0)
          \/ \E m \in SS!Pending : Lasting(a, m)
    /\ \A x \in Attributes :
          x \in said.agents[a].attributes <=>
              \/ x \in status.agents[a].attributes /\ ~ WillBeRemoved(a, 0)
              \/ \E m \in SS!Pending : Lasting(a, m) /\ x \in m.event.attributes
    /\ \A m \in SS!Pending :
          SetsHealth(a, m) /\ (\A f \in SS!Pending : SetsHealth(a, f) => f.n <= m.n) =>
              m.event.health = said.agents[a].health
    /\ (\A m \in SS!Pending : ~ SetsHealth(a, m)) =>
          status.agents[a].health = said.agents[a].health

Serving == processor = "run" /\ bridge = "run"

StatusInv ==
    /\ StatusTyped
    /\ InOrder
    /\ Numbered
    /\ Serving => ControlCurrent /\ \A a \in StatusAgents \ overtaken : EntryCurrent(a)

(* Message m is in channel s.                                              *)
In(m, s) == \E i \in DOMAIN s : m = s[i]

(* Where the pending messages are.                                         *)
LEMMA PendingIs ==
    ASSUME StatusTyped
    PROVE  /\ \A m : m \in SS!Pending <=>
                \E k \in SS!Kinds :
                   In(m, queue[k]) \/ In(m, async[k])
           /\ SS!Pending \subseteq MessageSet
<1>1. \A m : m \in SS!Pending <=>
                \E k \in SS!Kinds :
                   In(m, queue[k]) \/ In(m, async[k])
  BY DEF SS!Pending, SS!Range, In
<1>2. \A k \in SS!Kinds :
        /\ \A i \in DOMAIN queue[k] : queue[k][i] \in MessageSet
        /\ \A i \in DOMAIN async[k] : async[k][i] \in MessageSet
  BY DEF StatusTyped
<1>3. QED
  BY <1>1, <1>2 DEF In

(* What a channel has after a message was sent to it.                      *)
LEMMA Sent ==
    ASSUME NEW S, NEW s \in Seq(S), NEW e \in S
    PROVE  /\ Append(s, e) \in Seq(S)
           /\ DOMAIN Append(s, e) = 1..(Len(s) + 1) /\ DOMAIN s = 1..Len(s)
           /\ Len(s) \in Nat
           /\ \A i \in DOMAIN s : Append(s, e)[i] = s[i]
           /\ Append(s, e)[Len(s) + 1] = e
  OBVIOUS

(* What a channel has after its first message was received.                *)
LEMMA Received ==
    ASSUME NEW S, NEW s \in Seq(S), s # <<>>
    PROVE  /\ Tail(s) \in Seq(S) /\ Head(s) \in S /\ Head(s) = s[1]
           /\ Len(s) \in Nat \ {0}
           /\ DOMAIN Tail(s) = 1..(Len(s) - 1) /\ DOMAIN s = 1..Len(s)
           /\ \A i \in DOMAIN Tail(s) : Tail(s)[i] = s[i + 1]
  OBVIOUS

(* A broadcast adds the last message of its channel, and of all.           *)
LEMMA BroadcastStep ==
    ASSUME StatusTyped, InOrder, Numbered, NEW k \in SS!Kinds,
           NEW e \in Events, WellFormed(e),
           e.is \in OfKind(k),
           SS!Broadcast(k, e)
    PROVE  /\ n' \in Nat
           /\ queue' \in [SS!Kinds -> Seq(MessageSet)]
           /\ async' \in [SS!Kinds -> Seq(MessageSet)]
           /\ InOrder' /\ Numbered'
           /\ UNCHANGED <<status, overtaken, processor, bridge>>
           /\ Serving => SS!Pending' = SS!Pending \cup {[n |-> n, event |-> e]}
<1>. DEFINE m == [n |-> n, event |-> e]
<1>1. m \in MessageSet /\ m.n = n /\ m.event = e /\ n \in Nat /\ n' = n + 1
  BY DEF MessageSet, StatusTyped, SS!Broadcast
<1>2. UNCHANGED <<status, overtaken, processor, bridge, async>>
  BY DEF SS!Broadcast
<1>3. \A l \in SS!Pending : l.n \in Nat /\ l.n < n
  BY PendingIs DEF Numbered, MessageSet
<1>4. CASE bridge # "run"
  <2>1. UNCHANGED queue
    BY <1>4 DEF SS!Broadcast
  <2>2. SS!Pending' = SS!Pending
    BY <1>2, <2>1 DEF SS!Pending
  <2>3. InOrder'
    BY <1>2, <2>1 DEF InOrder
  <2>4. Numbered'
    BY <1>1, <1>3, <2>2 DEF Numbered
  <2>5. QED
    BY <1>1, <1>2, <1>4, <2>1, <2>3, <2>4 DEF Serving, StatusTyped
<1>5. CASE bridge = "run"
  <2>1. /\ queue[k] \in Seq(MessageSet)
        /\ queue' = [queue EXCEPT ![k] = Append(queue[k], m)]
        /\ queue \in [SS!Kinds -> Seq(MessageSet)]
    BY <1>5 DEF SS!Broadcast, StatusTyped
  <2>2. /\ Append(queue[k], m) \in Seq(MessageSet)
        /\ DOMAIN Append(queue[k], m) = 1..(Len(queue[k]) + 1)
        /\ DOMAIN queue[k] = 1..Len(queue[k])
        /\ Len(queue[k]) \in Nat
        /\ \A i \in DOMAIN queue[k] : Append(queue[k], m)[i] = queue[k][i]
        /\ Append(queue[k], m)[Len(queue[k]) + 1] = m
    BY <1>1, <2>1, Sent
  <2>3. queue' \in [SS!Kinds -> Seq(MessageSet)]
    BY <2>1, <2>2
  <2>4. /\ queue'[k] = Append(queue[k], m)
        /\ \A j \in SS!Kinds : j # k => queue'[j] = queue[j]
    BY <2>1
  <2>5. /\ \A i \in DOMAIN queue'[k] : i \in DOMAIN queue[k] \/ i = Len(queue[k]) + 1
        /\ DOMAIN queue[k] \subseteq DOMAIN queue'[k]
        /\ \A i \in DOMAIN queue[k] : queue'[k][i] = queue[k][i] /\ i < Len(queue[k]) + 1
        /\ queue'[k][Len(queue[k]) + 1] = m
        /\ Len(queue[k]) + 1 \in DOMAIN queue'[k]
    BY <2>2, <2>4
  <2>6. \A l : l \in SS!Pending' <=>
           \E j \in SS!Kinds :
              In(l, queue'[j]) \/ In(l, async[j])
    BY <1>2 DEF SS!Pending, SS!Range, In
  <2>7. SS!Pending' = SS!Pending \cup {m}
    <3>1. \A j \in SS!Kinds : \A l :
            In(l, queue'[j]) <=>
               In(l, queue[j]) \/ (j = k /\ l = m)
      BY <2>4, <2>5 DEF In
    <3>2. QED
      BY <2>6, <3>1, PendingIs
  <2>8. Numbered'
    BY <1>1, <1>3, <2>7 DEF Numbered
  <2>9. InOrder'
    <3>1. \A i \in DOMAIN queue[k] : queue[k][i].n \in Nat /\ queue[k][i].n < n
      BY <1>3, PendingIs DEF In
    <3>2. \A i \in DOMAIN async[k] : async[k][i].n < n
      BY <1>3, PendingIs DEF In
    <3>3. \A i, j \in DOMAIN queue'[k] : i < j => queue'[k][i].n < queue'[k][j].n
      BY <1>1, <2>2, <2>5, <3>1 DEF InOrder
    <3>4. \A i \in DOMAIN async[k], j \in DOMAIN queue'[k] : async[k][i].n < queue'[k][j].n
      BY <1>1, <2>5, <3>2 DEF InOrder
    <3>5. \A i \in DOMAIN queue'[k] : queue'[k][i].event.is \in OfKind(k)
      BY <1>1, <2>5 DEF InOrder
    <3>6. QED
      BY <1>2, <2>4, <3>3, <3>4, <3>5 DEF InOrder
  <2>10. QED
    BY <1>1, <1>2, <2>3, <2>7, <2>8, <2>9 DEF StatusTyped
<1>6. QED
  BY <1>4, <1>5

(* Forwarding keeps what is pending, and its order.                        *)
LEMMA ForwardStep ==
    ASSUME StatusTyped, InOrder, Numbered, NEW k \in SS!Kinds, SS!Forward(k)
    PROVE  /\ StatusTyped' /\ InOrder' /\ Numbered'
           /\ UNCHANGED <<status, said, overtaken, processor, bridge>>
           /\ Serving => SS!Pending' = SS!Pending
<1>. DEFINE q == queue[k]
            s == async[k]
<1>1. /\ UNCHANGED <<status, said, overtaken, processor, bridge, n, type>>
      /\ queue' = [queue EXCEPT ![k] = Tail(q)]
      /\ async' = IF processor = "run" THEN [async EXCEPT ![k] = Append(s, Head(q))]
                  ELSE async
      /\ q # <<>>
  BY DEF SS!Forward, SS!control
<1>2. /\ q \in Seq(MessageSet) /\ s \in Seq(MessageSet)
      /\ queue \in [SS!Kinds -> Seq(MessageSet)] /\ async \in [SS!Kinds -> Seq(MessageSet)]
  BY DEF StatusTyped
<1>3. /\ Tail(q) \in Seq(MessageSet) /\ Head(q) \in MessageSet /\ Head(q) = q[1]
      /\ Len(q) \in Nat \ {0}
      /\ DOMAIN Tail(q) = 1..(Len(q) - 1) /\ DOMAIN q = 1..Len(q)
      /\ \A i \in DOMAIN Tail(q) : Tail(q)[i] = q[i + 1]
  BY <1>1, <1>2, Received
<1>4. /\ Append(s, Head(q)) \in Seq(MessageSet)
      /\ DOMAIN Append(s, Head(q)) = 1..(Len(s) + 1) /\ DOMAIN s = 1..Len(s)
      /\ Len(s) \in Nat
      /\ \A i \in DOMAIN s : Append(s, Head(q))[i] = s[i]
      /\ Append(s, Head(q))[Len(s) + 1] = Head(q)
  BY <1>2, <1>3, Sent
<1>5. /\ queue' \in [SS!Kinds -> Seq(MessageSet)]
      /\ async' \in [SS!Kinds -> Seq(MessageSet)]
  BY <1>1, <1>2, <1>3, <1>4
<1>6. StatusTyped'
  BY <1>1, <1>5 DEF StatusTyped
<1>7. /\ queue'[k] = Tail(q)
      /\ \A j \in SS!Kinds : j # k => queue'[j] = queue[j] /\ async'[j] = async[j]
      /\ processor = "run" => async'[k] = Append(s, Head(q))
      /\ processor # "run" => async'[k] = s
  BY <1>1, <1>2
<1>8. /\ \A i \in DOMAIN queue'[k] : i + 1 \in DOMAIN q /\ queue'[k][i] = q[i + 1]
      /\ \A i \in DOMAIN q : i = 1 \/ (i - 1 \in DOMAIN queue'[k] /\ queue'[k][i - 1] = q[i])
      /\ 1 \in DOMAIN q
  BY <1>3, <1>7
<1>9. ASSUME processor = "run"
      PROVE  /\ \A i \in DOMAIN async'[k] : i \in DOMAIN s \/ i = Len(s) + 1
             /\ DOMAIN s \subseteq DOMAIN async'[k]
             /\ \A i \in DOMAIN s : async'[k][i] = s[i] /\ i < Len(s) + 1
             /\ async'[k][Len(s) + 1] = q[1]
             /\ Len(s) + 1 \in DOMAIN async'[k]
  BY <1>3, <1>4, <1>7, <1>9
<1>10. /\ \A m : m \in SS!Pending' <=>
             \E j \in SS!Kinds :
                In(m, queue'[j]) \/ In(m, async'[j])
  BY DEF SS!Pending, SS!Range, In
<1>11. /\ SS!Pending' \subseteq SS!Pending
       /\ processor = "run" => SS!Pending' = SS!Pending
  <2>1. CASE processor = "run"
    <3>1. \A m :
             (In(m, queue'[k]) \/ In(m, async'[k]))
             <=> (In(m, q) \/ In(m, s))
      BY <1>8, <1>9, <2>1 DEF In
    <3>2. \A j \in SS!Kinds : \A m :
             (In(m, queue'[j]) \/ In(m, async'[j]))
             <=> (In(m, queue[j]) \/ In(m, async[j]))
      BY <1>7, <3>1
    <3>3. \A m : m \in SS!Pending' <=> m \in SS!Pending
      BY <1>10, <3>2, PendingIs
    <3>4. QED
      BY <3>3
  <2>2. CASE processor # "run"
    <3>1. \A m : In(m, queue'[k]) => In(m, q)
      BY <1>8 DEF In
    <3>2. \A j \in SS!Kinds : \A m :
             (In(m, queue'[j]) \/ In(m, async'[j]))
             => (In(m, queue[j]) \/ In(m, async[j]))
      BY <1>7, <2>2, <3>1
    <3>3. \A m : m \in SS!Pending' => m \in SS!Pending
      BY <1>10, <3>2, PendingIs
    <3>4. QED
      BY <2>2, <3>3
  <2>3. QED
    BY <2>1, <2>2
<1>12. Numbered'
  BY <1>1, <1>11 DEF Numbered
<1>13. InOrder'
  <2>1. /\ \A i, j \in DOMAIN q : i < j => q[i].n < q[j].n
        /\ \A i, j \in DOMAIN s : i < j => s[i].n < s[j].n
        /\ \A i \in DOMAIN s, j \in DOMAIN q : s[i].n < q[j].n
        /\ \A i \in DOMAIN s : s[i].event.is \in OfKind(k)
        /\ \A i \in DOMAIN q : q[i].event.is \in OfKind(k)
    BY DEF InOrder
  <2>2. /\ \A i, j \in DOMAIN queue'[k] : i < j => queue'[k][i].n < queue'[k][j].n
        /\ \A i \in DOMAIN queue'[k] : queue'[k][i].event.is \in OfKind(k)
        /\ \A i \in DOMAIN queue'[k] : 1 < i + 1
    <3>1. /\ \A i \in DOMAIN queue'[k] : i \in Nat /\ 1 < i + 1
          /\ \A i, j \in DOMAIN queue'[k] : i < j => i + 1 < j + 1
      BY <1>3, <1>7
    <3>2. QED
      BY <1>8, <2>1, <3>1
  <2>3. CASE processor = "run"
    <3>1. \A i, j \in DOMAIN async'[k] : i < j => async'[k][i].n < async'[k][j].n
      BY <1>4, <1>8, <1>9, <2>1, <2>3
    <3>2. \A i \in DOMAIN async'[k], j \in DOMAIN queue'[k] : async'[k][i].n < queue'[k][j].n
      BY <1>8, <1>9, <2>1, <2>2, <2>3
    <3>3. \A i \in DOMAIN async'[k] : async'[k][i].event.is \in OfKind(k)
      BY <1>8, <1>9, <2>1, <2>3
    <3>4. QED
      BY <1>7, <2>2, <3>1, <3>2, <3>3 DEF InOrder
  <2>4. CASE processor # "run"
    <3>1. \A i \in DOMAIN s, j \in DOMAIN queue'[k] : s[i].n < queue'[k][j].n
      BY <1>8, <2>1
    <3>2. QED
      BY <1>7, <2>1, <2>2, <2>4, <3>1 DEF InOrder
  <2>5. QED
    BY <2>3, <2>4
<1>14. QED
  BY <1>1, <1>6, <1>11, <1>12, <1>13 DEF Serving

(* A message that is taken is the first of its channel, and the only one   *)
(* that goes.                                                              *)
LEMMA TakeStep ==
    ASSUME StatusTyped, InOrder, Numbered, NEW k \in SS!Kinds, SS!Process(k),
           Head(async[k]).event.is # "AgentControlStopped"
    PROVE  LET m == Head(async[k])
           IN  /\ UNCHANGED <<said, processor, bridge, n, type, queue>>
               /\ async' \in [SS!Kinds -> Seq(MessageSet)]
               /\ InOrder' /\ Numbered'
               /\ m \in SS!Pending /\ SS!Pending' = SS!Pending \ {m}
               /\ m.event.is \in OfKind(k)
               /\ k = "control" => \A f \in SS!Pending :
                                      f.event.is \in ControlEvents => m.n <= f.n
<1>. DEFINE q == queue[k]
            s == async[k]
            m == Head(s)
<1>1. /\ UNCHANGED <<said, processor, bridge, n, type, queue>>
      /\ async' = [async EXCEPT ![k] = Tail(s)]
      /\ s # <<>>
  BY DEF SS!Process, SS!control
<1>2. /\ q \in Seq(MessageSet) /\ s \in Seq(MessageSet)
      /\ async \in [SS!Kinds -> Seq(MessageSet)]
  BY DEF StatusTyped
<1>3. /\ Tail(s) \in Seq(MessageSet) /\ m \in MessageSet /\ m = s[1]
      /\ Len(s) \in Nat \ {0}
      /\ DOMAIN Tail(s) = 1..(Len(s) - 1) /\ DOMAIN s = 1..Len(s)
      /\ \A i \in DOMAIN Tail(s) : Tail(s)[i] = s[i + 1]
  BY <1>1, <1>2, Received
<1>4. async' \in [SS!Kinds -> Seq(MessageSet)]
  BY <1>1, <1>2, <1>3
<1>5. /\ async'[k] = Tail(s)
      /\ \A j \in SS!Kinds : j # k => async'[j] = async[j]
  BY <1>1, <1>2
<1>6. /\ \A i \in DOMAIN async'[k] : i + 1 \in DOMAIN s /\ async'[k][i] = s[i + 1]
      /\ \A i \in DOMAIN s : i = 1 \/ (i - 1 \in DOMAIN async'[k] /\ async'[k][i - 1] = s[i])
      /\ 1 \in DOMAIN s
  BY <1>3, <1>5
<1>7. /\ \A i \in DOMAIN async'[k] : 1 < i + 1
      /\ \A i, j \in DOMAIN async'[k] : i < j => i + 1 < j + 1
      /\ \A i \in DOMAIN s : i # 1 => 1 < i
  BY <1>3, <1>5
<1>8. /\ \A i, j \in DOMAIN s : i < j => s[i].n < s[j].n
      /\ \A i \in DOMAIN s, j \in DOMAIN q : s[i].n < q[j].n
      /\ \A i \in DOMAIN s : s[i].event.is \in OfKind(k)
  BY DEF InOrder
<1>9. m \in SS!Pending
  BY <1>3, <1>6, PendingIs DEF In
<1>10. \A l \in SS!Pending : l \in MessageSet /\ l.n \in Nat
  BY PendingIs DEF MessageSet
<1>11. \A l : In(l, q) \/ In(l, s) => m.n <= l.n
  <2>1. \A l : In(l, q) => m.n < l.n
    BY <1>3, <1>6, <1>8 DEF In
  <2>2. \A l : In(l, s) => l = m \/ m.n < l.n
    BY <1>3, <1>6, <1>7, <1>8 DEF In
  <2>3. \A l : In(l, q) \/ In(l, s) => l \in SS!Pending
    BY PendingIs
  <2>4. QED
    BY <1>9, <1>10, <2>1, <2>2, <2>3
<1>12. \A j \in SS!Kinds : \A l :
         In(l, queue[j]) \/ In(l, async[j]) => l.event.is \in OfKind(j)
  BY DEF InOrder, In
<1>13. ControlEvents \cap AgentEvents = {}
  BY DEF ControlEvents, AgentEvents
<1>14. SS!Pending' = SS!Pending \ {m}
  <2>1. \A l : In(l, async'[k]) <=> In(l, s) /\ l # m
    <3>1. \A i \in DOMAIN async'[k] : m.n < async'[k][i].n
      BY <1>3, <1>6, <1>7, <1>8
    <3>2. m.n \in Nat
      BY <1>9, <1>10
    <3>3. \A i \in DOMAIN async'[k] : async'[k][i] # m
      BY <3>1, <3>2
    <3>4. QED
      BY <1>3, <1>6, <3>3 DEF In
  <2>2. \A l : In(l, q) => l # m
    BY <1>3, <1>6, <1>8, <1>9, <1>10 DEF In
  <2>3. \A j \in SS!Kinds : j # k => \A l : In(l, queue[j]) \/ In(l, async[j]) => l # m
    <3>1. In(m, s)
      BY <1>3, <1>6 DEF In
    <3>2. QED
      BY <1>12, <1>13, <3>1 DEF SS!Kinds, OfKind
  <2>4. \A l : l \in SS!Pending' <=>
          \E j \in SS!Kinds : In(l, queue[j]) \/ In(l, async'[j])
    BY <1>1 DEF SS!Pending, SS!Range, In
  <2>5. \A j \in SS!Kinds : \A l :
          In(l, queue[j]) \/ In(l, async'[j])
             <=> (In(l, queue[j]) \/ In(l, async[j])) /\ l # m
    BY <1>5, <2>1, <2>2, <2>3
  <2>6. \A l : l \in SS!Pending' <=> l \in SS!Pending /\ l # m
    BY <2>4, <2>5, PendingIs
  <2>7. QED
    BY <2>6
<1>15. Numbered'
  BY <1>1, <1>14 DEF Numbered
<1>16. InOrder'
  <2>1. \A i, j \in DOMAIN async'[k] : i < j => async'[k][i].n < async'[k][j].n
    BY <1>6, <1>7, <1>8
  <2>2. \A i \in DOMAIN async'[k], j \in DOMAIN q : async'[k][i].n < q[j].n
    BY <1>6, <1>8
  <2>3. \A i \in DOMAIN async'[k] : async'[k][i].event.is \in OfKind(k)
    BY <1>6, <1>8
  <2>4. QED
    BY <1>1, <1>5, <2>1, <2>2, <2>3 DEF InOrder
<1>17. k = "control" => \A f \in SS!Pending : f.event.is \in ControlEvents => m.n <= f.n
  BY <1>11, <1>12, <1>13, PendingIs DEF OfKind
<1>18. m.event.is \in OfKind(k)
  BY <1>3, <1>6, <1>8
<1>19. QED
  BY <1>1, <1>4, <1>9, <1>14, <1>15, <1>16, <1>17, <1>18

(* What was said once event e was.                                         *)
SaidWith(e) ==
    [health |-> IF e.is = "HealthUpdated" THEN e.health ELSE said.health,
     reachable |-> IF e.is \in {"OpAMPConnected", "OpAMPConnectFailed"}
                   THEN e.is = "OpAMPConnected" ELSE said.reachable,
     attributes |-> IF e.is = "ControlDescriptionUpdated"
                    THEN said.attributes \cup e.attributes ELSE said.attributes,
     agents |-> [a \in StatusAgents |->
        IF a \notin e.about THEN said.agents[a]
        ELSE IF e.is = "SubAgentRemoved" THEN SS!Silent
        ELSE [known |-> TRUE,
              health |-> IF e.is = "SubAgentHealth" THEN e.health ELSE said.agents[a].health,
              attributes |-> said.agents[a].attributes \cup e.attributes]]]

(* A broadcast is pending after all others.                                *)
LEMMA SaidControl ==
    ASSUME StatusTyped, Numbered, NEW m \in MessageSet, m.n = n,
           SS!Pending' = SS!Pending \cup {m}, UNCHANGED status,
           said' = SaidWith(m.event), ControlCurrent
    PROVE  ControlCurrent'
<1>1. /\ m \in SS!Pending'
      /\ \A l \in SS!Pending : l \in SS!Pending' /\ l.n \in Nat /\ l.n < m.n
      /\ \A l \in SS!Pending' : l \in SS!Pending \/ l = m
      /\ m.n \in Nat
  BY PendingIs DEF Numbered, MessageSet
<1>2. /\ said'.health = IF m.event.is = "HealthUpdated" THEN m.event.health ELSE said.health
      /\ said'.reachable = IF m.event.is \in {"OpAMPConnected", "OpAMPConnectFailed"}
                           THEN m.event.is = "OpAMPConnected" ELSE said.reachable
      /\ said'.attributes = IF m.event.is = "ControlDescriptionUpdated"
                            THEN said.attributes \cup m.event.attributes ELSE said.attributes
  BY DEF SaidWith
<1>3. /\ \A l \in SS!Pending' :
            LastOf({"HealthUpdated"}, l)' => l.event.health = said'.health
      /\ (\A l \in SS!Pending' : l.event.is # "HealthUpdated") => status'.health = said'.health
  BY <1>1, <1>2 DEF ControlCurrent, LastOf
<1>4. /\ \A l \in SS!Pending' :
            LastOf({"OpAMPConnected", "OpAMPConnectFailed"}, l)' =>
                (l.event.is = "OpAMPConnected") = said'.reachable
      /\ (\A l \in SS!Pending' : l.event.is \notin {"OpAMPConnected", "OpAMPConnectFailed"}) =>
            status'.reachable = said'.reachable
  BY <1>1, <1>2 DEF ControlCurrent, LastOf
<1>5. \A x \in Attributes :
          x \in said'.attributes <=>
              \/ x \in status'.attributes
              \/ \E l \in SS!Pending' :
                    l.event.is = "ControlDescriptionUpdated" /\ x \in l.event.attributes
  BY <1>1, <1>2 DEF ControlCurrent
<1>6. QED
  BY <1>3, <1>4, <1>5 DEF ControlCurrent, LastOf

(* So what it says of an agent, its removal included, holds in the end.    *)
LEMMA SaidEntry ==
    ASSUME StatusTyped, Numbered, NEW m \in MessageSet, m.n = n,
           SS!Pending' = SS!Pending \cup {m}, UNCHANGED status,
           said' = SaidWith(m.event), NEW a \in StatusAgents, EntryCurrent(a)
    PROVE  EntryCurrent(a)'
<1>1. /\ m \in SS!Pending'
      /\ \A l \in SS!Pending : l \in SS!Pending' /\ l.n \in Nat /\ l.n < m.n
      /\ \A l \in SS!Pending' : l \in SS!Pending \/ l = m
      /\ m.n \in Nat /\ WellFormed(m.event)
  BY PendingIs DEF Numbered, MessageSet
<1>2. CASE a \notin m.event.about
  <2>1. said'.agents[a] = said.agents[a]
    BY <1>2 DEF SaidWith
  <2>2. /\ \A i \in Nat : WillBeRemoved(a, i)' <=> WillBeRemoved(a, i)
        /\ \A l \in SS!Pending : Lasting(a, l)' <=> Lasting(a, l)
        /\ ~ Lasting(a, m)'
    BY <1>1, <1>2 DEF WillBeRemoved, Lasting
  <2>3. /\ \A l : SetsHealth(a, l)' <=> SetsHealth(a, l)
        /\ ~ SetsHealth(a, m)
    BY <1>2 DEF SetsHealth
  <2>4. WillBeRemoved(a, 0)' <=> WillBeRemoved(a, 0)
    BY <2>2
  <2>5. QED
    BY <1>1, <2>1, <2>2, <2>3, <2>4 DEF EntryCurrent
<1>3. CASE a \in m.event.about /\ m.event.is = "SubAgentRemoved"
  <2>1. /\ said'.agents[a].known = FALSE /\ said'.agents[a].attributes = {}
        /\ said'.agents[a].health = SS!NoHealth
    BY <1>3 DEF SaidWith, SS!Silent
  <2>2. /\ WillBeRemoved(a, 0)'
        /\ \A l \in SS!Pending' : ~ Lasting(a, l)'
    BY <1>1, <1>3 DEF WillBeRemoved, Lasting
  <2>3. SetsHealth(a, m)' /\ m.event.health = SS!NoHealth
    BY <1>1, <1>3 DEF SetsHealth, WellFormed
  <2>4. \A l \in SS!Pending' :
          SetsHealth(a, l)' /\ (\A f \in SS!Pending' : SetsHealth(a, f)' => f.n <= l.n) => l = m
    BY <1>1, <2>3
  <2>5. QED
    BY <1>1, <2>1, <2>2, <2>3, <2>4 DEF EntryCurrent
<1>4. CASE a \in m.event.about /\ m.event.is # "SubAgentRemoved"
  <2>1. /\ said'.agents[a].known = TRUE
        /\ said'.agents[a].attributes = said.agents[a].attributes \cup m.event.attributes
        /\ said'.agents[a].health = IF m.event.is = "SubAgentHealth" THEN m.event.health
                                    ELSE said.agents[a].health
    BY <1>4 DEF SaidWith
  <2>2. /\ \A i \in Nat : WillBeRemoved(a, i)' <=> WillBeRemoved(a, i)
        /\ ~ WillBeRemoved(a, m.n)
        /\ \A l \in SS!Pending : Lasting(a, l)' <=> Lasting(a, l)
    BY <1>1, <1>4 DEF WillBeRemoved, Lasting
  <2>3. Lasting(a, m)'
    BY <1>1, <1>4, <2>2 DEF Lasting
  <2>4. WillBeRemoved(a, 0)' <=> WillBeRemoved(a, 0)
    BY <2>2
  <2>5. /\ \A l : SetsHealth(a, l)' <=> SetsHealth(a, l)
        /\ SetsHealth(a, m) <=> m.event.is = "SubAgentHealth"
    BY <1>4 DEF SetsHealth
  <2>6. said.agents[a].known' <=>
          \/ status.agents[a]' # SS!NoEntry /\ ~ WillBeRemoved(a, 0)'
          \/ \E l \in SS!Pending' : Lasting(a, l)'
    BY <1>1, <2>1, <2>3
  <2>7. \A x \in Attributes :
          x \in said.agents[a].attributes' <=>
              \/ x \in status.agents[a].attributes' /\ ~ WillBeRemoved(a, 0)'
              \/ \E l \in SS!Pending' : Lasting(a, l)' /\ x \in l.event.attributes
    BY <1>1, <2>1, <2>2, <2>3, <2>4 DEF EntryCurrent
  <2>8. /\ \A l \in SS!Pending' :
             SetsHealth(a, l)' /\ (\A f \in SS!Pending' : SetsHealth(a, f)' => f.n <= l.n) =>
                l.event.health = said.agents[a].health'
        /\ (\A l \in SS!Pending' : ~ SetsHealth(a, l)') =>
             status.agents[a].health' = said.agents[a].health'
    BY <1>1, <2>1, <2>5 DEF EntryCurrent
  <2>9. QED
    BY <2>6, <2>7, <2>8 DEF EntryCurrent
<1>5. QED
  BY <1>2, <1>3, <1>4

(* Processing the first message of Agent Control's own channel, or one of  *)
(* the other, which does not concern Agent Control.                        *)
LEMMA TakenControl ==
    ASSUME StatusTyped, Numbered, NEW m \in SS!Pending,
           SS!Pending' = SS!Pending \ {m}, UNCHANGED said,
           status' = SS!UpdateStatus(status, m.event), ControlCurrent,
           m.event.is \in ControlEvents =>
             \A f \in SS!Pending : f.event.is \in ControlEvents => m.n <= f.n
    PROVE  ControlCurrent'
<1>1. /\ \A l \in SS!Pending : l.n \in Nat /\ (l = m \/ l \in SS!Pending')
      /\ \A l \in SS!Pending' : l \in SS!Pending /\ l # m /\ l.n # m.n
  BY PendingIs DEF Numbered, MessageSet
<1>2. m.event.is \in ControlEvents =>
        \A f \in SS!Pending' : f.event.is \in ControlEvents => m.n < f.n
  BY <1>1
<1>3. {"HealthUpdated", "OpAMPConnected", "OpAMPConnectFailed",
       "ControlDescriptionUpdated"} \subseteq ControlEvents
  BY DEF ControlEvents
<1>4. /\ status'.health = IF m.event.is = "HealthUpdated" THEN m.event.health ELSE status.health
      /\ status'.reachable = IF m.event.is \in {"OpAMPConnected", "OpAMPConnectFailed"}
                             THEN m.event.is = "OpAMPConnected" ELSE status.reachable
      /\ status'.attributes = IF m.event.is = "ControlDescriptionUpdated"
                              THEN status.attributes \cup m.event.attributes
                              ELSE status.attributes
  BY DEF SS!UpdateStatus
<1>5. /\ \A l \in SS!Pending' :
            LastOf({"HealthUpdated"}, l)' => l.event.health = said'.health
      /\ (\A l \in SS!Pending' : l.event.is # "HealthUpdated") => status'.health = said'.health
  BY <1>1, <1>2, <1>3, <1>4 DEF ControlCurrent, LastOf
<1>6. /\ \A l \in SS!Pending' :
            LastOf({"OpAMPConnected", "OpAMPConnectFailed"}, l)' =>
                (l.event.is = "OpAMPConnected") = said'.reachable
      /\ (\A l \in SS!Pending' : l.event.is \notin {"OpAMPConnected", "OpAMPConnectFailed"}) =>
            status'.reachable = said'.reachable
  BY <1>1, <1>2, <1>3, <1>4 DEF ControlCurrent, LastOf
<1>7. \A x \in Attributes :
          x \in said'.attributes <=>
              \/ x \in status'.attributes
              \/ \E l \in SS!Pending' :
                    l.event.is = "ControlDescriptionUpdated" /\ x \in l.event.attributes
  BY <1>1, <1>4 DEF ControlCurrent
<1>8. QED
  BY <1>5, <1>6, <1>7 DEF ControlCurrent, LastOf

(* Entry u is what event e makes of entry x.                               *)
Follows(u, x, e) ==
    IF e.is = "SubAgentRemoved" THEN u = SS!NoEntry
    ELSE /\ u # SS!NoEntry
         /\ u.attributes = x.attributes \cup e.attributes
         /\ u.health = IF e.is = "SubAgentHealth" THEN e.health ELSE x.health

(* What processing a message does to the entry of an agent it is about.    *)
LEMMA EntryUpdated ==
    ASSUME NEW e, e.is \in AgentEvents \cup {"SubAgentRemoved"}, WellFormed(e),
           NEW x \in Entries
    PROVE  Follows(SS!UpdateEntry(x, e), x, e)
<1>. DEFINE u == SS!UpdateEntry(x, e)
<1>1. SS!NoEntry = [type |-> NoType, start |-> FALSE, health |-> "unknown",
                    attributes |-> {}]
  BY DEF SS!NoEntry, SS!NoHealth
<1>2. CASE e.is = "SubAgentRemoved"
  BY <1>2 DEF SS!UpdateEntry, Follows
<1>3. CASE e.is = "SubAgentStarted"
  <2>1. u = SS!OrInsert(x, e, TRUE) /\ e.attributes = {}
    BY <1>3 DEF SS!UpdateEntry, SS!Started, WellFormed
  <2>2. CASE x = SS!NoEntry
    <3>1. u = [type |-> e.type, start |-> TRUE, health |-> "unknown", attributes |-> {}]
      BY <1>1, <2>1, <2>2 DEF SS!OrInsert, SS!WithIdentity
    <3>2. u # SS!NoEntry /\ u.attributes = x.attributes /\ u.health = x.health
      <4>1. u.attributes = {} /\ u.health = "unknown" /\ u.start = TRUE
        BY <3>1
      <4>2. x.attributes = {} /\ x.health = "unknown" /\ x.start = FALSE
        BY <1>1, <2>2
      <4>3. QED
        BY <2>2, <4>1, <4>2
    <3>3. QED
      BY <1>3, <2>1, <3>2 DEF Follows
  <2>3. CASE x # SS!NoEntry
    BY <1>3, <2>1, <2>3 DEF SS!OrInsert, Follows, Entries
  <2>4. QED
    BY <2>2, <2>3
<1>4. CASE e.is = "SubAgentHealth"
  <2>1. /\ u = [SS!OrInsert(x, e, TRUE) EXCEPT !.health = e.health]
        /\ e.attributes = {} /\ e.health \in {"healthy", "unhealthy"}
    BY <1>4 DEF SS!UpdateEntry, WellFormed, SS!Healths
  <2>2. QED
    BY <1>1, <1>4, <2>1 DEF SS!OrInsert, SS!WithIdentity, Follows, Entries
<1>5. CASE e.is = "AgentDescriptionUpdated"
  <2>1. /\ u = [SS!OrInsert(x, e, FALSE) EXCEPT !.attributes = @ \cup e.attributes]
        /\ e.attributes # {}
    BY <1>5 DEF SS!UpdateEntry, WellFormed
  <2>2. QED
    BY <1>1, <1>5, <2>1 DEF SS!OrInsert, SS!WithIdentity, Follows, Entries
<1>6. QED
  BY <1>2, <1>3, <1>4, <1>5 DEF AgentEvents

(* Processing the first message about an agent, or one about others.       *)
LEMMA TakenEntry ==
    ASSUME StatusTyped, Numbered, NEW m \in SS!Pending,
           SS!Pending' = SS!Pending \ {m}, UNCHANGED said,
           status' = SS!UpdateStatus(status, m.event),
           NEW a \in StatusAgents, EntryCurrent(a),
           a \in m.event.about => \A f \in SS!Pending : a \in f.event.about => m.n <= f.n
    PROVE  EntryCurrent(a)'
<1>1. /\ \A l \in SS!Pending : l.n \in Nat /\ (l = m \/ l \in SS!Pending')
      /\ \A l \in SS!Pending' : l \in SS!Pending /\ l # m /\ l.n # m.n
      /\ m.event \in Events /\ WellFormed(m.event)
  BY PendingIs DEF Numbered, MessageSet
<1>2. status'.agents[a] = IF a \in m.event.about
                          THEN SS!UpdateEntry(status.agents[a], m.event)
                          ELSE status.agents[a]
  BY DEF SS!UpdateStatus
<1>3. /\ \A l : SetsHealth(a, l)' <=> SetsHealth(a, l)
  BY DEF SetsHealth
<1>4. CASE a \notin m.event.about
  <2>1. /\ \A i \in Nat : WillBeRemoved(a, i)' <=> WillBeRemoved(a, i)
        /\ \A l \in SS!Pending : Lasting(a, l)' <=> Lasting(a, l)
        /\ ~ Lasting(a, m)
    BY <1>1, <1>4 DEF WillBeRemoved, Lasting
  <2>2. ~ SetsHealth(a, m)
    BY <1>4 DEF SetsHealth
  <2>3. WillBeRemoved(a, 0)' <=> WillBeRemoved(a, 0)
    BY <2>1
  <2>4. QED
    BY <1>1, <1>2, <1>3, <1>4, <2>1, <2>2, <2>3 DEF EntryCurrent
<1>5. CASE a \in m.event.about
  <2>1. \A f \in SS!Pending' : a \in f.event.about => m.n < f.n
    BY <1>1, <1>5
  <2>2. m.event.is \in AgentEvents \cup {"SubAgentRemoved"}
    BY <1>1, <1>5 DEF WellFormed, Events, ControlEvents
  <2>3. Follows(status'.agents[a], status.agents[a], m.event)
    <3>1. status.agents[a] \in Entries
      BY DEF StatusTyped
    <3>2. status'.agents[a] = SS!UpdateEntry(status.agents[a], m.event)
      BY <1>2, <1>5
    <3>3. WellFormed(m.event)
      BY <1>1
    <3>4. QED
      BY <2>2, <3>1, <3>2, <3>3, EntryUpdated
  <2>4. \A l \in SS!Pending' : Lasting(a, l)' <=> Lasting(a, l)
    BY <1>1, <1>5, <2>1 DEF WillBeRemoved, Lasting
  <2>5. CASE m.event.is = "SubAgentRemoved"
    <3>1. WillBeRemoved(a, 0) /\ ~ Lasting(a, m)
      BY <1>1, <1>5, <2>5 DEF WillBeRemoved, Lasting
    <3>2. /\ status'.agents[a] = SS!NoEntry /\ status'.agents[a].attributes = {}
          /\ status'.agents[a].health = m.event.health
      BY <1>1, <2>3, <2>5 DEF SS!NoEntry, WellFormed, Follows
    <3>3. SetsHealth(a, m)
      BY <1>5, <2>5 DEF SetsHealth
    <3>4. /\ \A l \in SS!Pending' :
               SetsHealth(a, l)' /\ (\A f \in SS!Pending' : SetsHealth(a, f)' => f.n <= l.n) =>
                  l.event.health = said.agents[a].health'
          /\ (\A l \in SS!Pending' : ~ SetsHealth(a, l)') =>
               status.agents[a].health' = said.agents[a].health'
      BY <1>1, <1>3, <2>1, <3>2, <3>3 DEF EntryCurrent, SetsHealth
    <3>5. QED
      BY <1>1, <2>4, <3>1, <3>2, <3>4 DEF EntryCurrent
  <2>6. CASE m.event.is # "SubAgentRemoved"
    <3>1. /\ WillBeRemoved(a, 0)' <=> WillBeRemoved(a, 0)
          /\ Lasting(a, m) <=> ~ WillBeRemoved(a, 0)
      BY <1>1, <1>5, <2>1, <2>6 DEF WillBeRemoved, Lasting
    <3>2. SetsHealth(a, m) <=> m.event.is = "SubAgentHealth"
      BY <1>5, <2>6 DEF SetsHealth
    <3>3. /\ \A l \in SS!Pending' :
               SetsHealth(a, l)' /\ (\A f \in SS!Pending' : SetsHealth(a, f)' => f.n <= l.n) =>
                  l.event.health = said.agents[a].health'
          /\ (\A l \in SS!Pending' : ~ SetsHealth(a, l)') =>
               status.agents[a].health' = said.agents[a].health'
      BY <1>1, <1>3, <2>1, <2>3, <2>6, <3>2 DEF EntryCurrent, SetsHealth, Follows
    <3>4. said.agents[a].known' <=>
            \/ status.agents[a]' # SS!NoEntry /\ ~ WillBeRemoved(a, 0)'
            \/ \E l \in SS!Pending' : Lasting(a, l)'
      BY <1>1, <2>3, <2>4, <2>6, <3>1 DEF EntryCurrent, Follows
    <3>5. \A x \in Attributes :
            x \in said.agents[a].attributes' <=>
                \/ x \in status.agents[a].attributes' /\ ~ WillBeRemoved(a, 0)'
                \/ \E l \in SS!Pending' : Lasting(a, l)' /\ x \in l.event.attributes
      BY <1>1, <2>3, <2>4, <2>6, <3>1 DEF EntryCurrent, Follows
    <3>6. QED
      BY <3>3, <3>4, <3>5 DEF EntryCurrent
  <2>7. QED
    BY <2>5, <2>6
<1>6. QED
  BY <1>4, <1>5

(* An event leaves what was said well typed.                               *)
LEMMA SaidTyped ==
    ASSUME StatusTyped, NEW e \in Events
    PROVE  SaidWith(e) \in [health : AllHealths, reachable : BOOLEAN,
                            attributes : SUBSET Attributes,
                            agents : [StatusAgents -> SaidEntries]]
<1>1. SaidWith(e).agents \in [StatusAgents -> SaidEntries]
  <2>1. ASSUME NEW a \in StatusAgents PROVE SaidWith(e).agents[a] \in SaidEntries
    BY DEF SaidWith, StatusTyped, Events, SaidEntries, SS!Silent, AllHealths
  <2>2. QED
    BY <2>1 DEF SaidWith
<1>2. QED
  BY <1>1 DEF SaidWith, StatusTyped, Events

(* An event leaves the status well typed.                                  *)
LEMMA UpdatedTyped ==
    ASSUME StatusTyped, NEW e \in Events, WellFormed(e)
    PROVE  SS!UpdateStatus(status, e) \in
             [health : AllHealths, reachable : BOOLEAN,
              attributes : SUBSET Attributes, agents : [StatusAgents -> Entries]]
<1>. DEFINE u == SS!UpdateStatus(status, e)
<1>1. u.agents \in [StatusAgents -> Entries]
  <2>1. ASSUME NEW a \in StatusAgents PROVE u.agents[a] \in Entries
    <3>1. status.agents[a] \in Entries /\ e.type \in Types \cup {NoType}
          /\ e.health \in AllHealths /\ e.attributes \in SUBSET Attributes
      BY DEF StatusTyped, Events
    <3>2. SS!NoEntry \in Entries
      BY DEF SS!NoEntry, Entries, AllHealths
    <3>3. \A b \in BOOLEAN : SS!OrInsert(status.agents[a], e, b) \in Entries
      BY <3>1, <3>2 DEF SS!OrInsert, SS!WithIdentity, SS!NoEntry, Entries
    <3>4. CASE a \notin e.about
      BY <3>1, <3>4 DEF SS!UpdateStatus
    <3>5. CASE a \in e.about
      <4>1. u.agents[a] = SS!UpdateEntry(status.agents[a], e)
        BY <3>5 DEF SS!UpdateStatus
      <4>2. e.is \in AgentEvents \cup {"SubAgentRemoved"}
        BY <3>5 DEF WellFormed, Events
      <4>3. QED
        <5>1. CASE e.is = "SubAgentRemoved"
          BY <3>2, <4>1, <5>1 DEF SS!UpdateEntry
        <5>2. CASE e.is = "SubAgentStarted"
          BY <3>3, <4>1, <5>2 DEF SS!UpdateEntry, SS!Started
        <5>3. CASE e.is = "SubAgentHealth"
          <6>1. /\ u.agents[a] = [SS!OrInsert(status.agents[a], e, TRUE)
                                   EXCEPT !.health = e.health]
                /\ SS!OrInsert(status.agents[a], e, TRUE) \in Entries
            BY <3>3, <4>1, <5>3 DEF SS!UpdateEntry
          <6>2. QED
            BY <3>1, <6>1 DEF Entries
        <5>4. CASE e.is = "AgentDescriptionUpdated"
          <6>1. /\ u.agents[a] = [SS!OrInsert(status.agents[a], e, FALSE)
                                   EXCEPT !.attributes = @ \cup e.attributes]
                /\ SS!OrInsert(status.agents[a], e, FALSE) \in Entries
            BY <3>3, <4>1, <5>4 DEF SS!UpdateEntry
          <6>2. QED
            BY <3>1, <6>1 DEF Entries
        <5>5. QED
          BY <4>2, <5>1, <5>2, <5>3, <5>4 DEF AgentEvents
    <3>6. QED
      BY <3>4, <3>5
  <2>2. QED
    BY <2>1 DEF SS!UpdateStatus
<1>2. QED
  BY <1>1 DEF SS!UpdateStatus, StatusTyped, Events

(* A broadcast preserves the invariant.                                    *)
LEMMA SayStep ==
    ASSUME StatusInv, NEW k \in SS!Kinds, NEW e \in Events, WellFormed(e),
           e.is \in OfKind(k),
           SS!Broadcast(k, e), said' = SaidWith(e),
           type' \in [StatusAgents -> Types \cup {NoType}]
    PROVE  StatusInv'
<1>. DEFINE m == [n |-> n, event |-> e]
<1>1. StatusTyped /\ InOrder /\ Numbered
  BY DEF StatusInv
<1>2. /\ n' \in Nat
      /\ queue' \in [SS!Kinds -> Seq(MessageSet)]
      /\ async' \in [SS!Kinds -> Seq(MessageSet)]
      /\ InOrder' /\ Numbered'
      /\ UNCHANGED <<status, overtaken, processor, bridge>>
      /\ Serving => SS!Pending' = SS!Pending \cup {m}
  BY <1>1, BroadcastStep
<1>3. StatusTyped'
  BY <1>1, <1>2, SaidTyped DEF StatusTyped
<1>4. m \in MessageSet /\ m.n = n /\ m.event = e
  BY <1>1 DEF MessageSet, StatusTyped
<1>5. ASSUME Serving'
      PROVE  ControlCurrent' /\ \A a \in StatusAgents \ overtaken' : EntryCurrent(a)'
  <2>1. Serving /\ SS!Pending' = SS!Pending \cup {m} /\ UNCHANGED status
    BY <1>2, <1>5 DEF Serving
  <2>2. ControlCurrent'
    BY <1>1, <1>4, <2>1, SaidControl DEF StatusInv
  <2>3. ASSUME NEW a \in StatusAgents \ overtaken' PROVE EntryCurrent(a)'
    <3>1. a \in StatusAgents /\ EntryCurrent(a)
      BY <1>2, <2>1 DEF StatusInv
    <3>2. QED
      BY <1>1, <1>4, <2>1, <3>1, SaidEntry
  <2>4. QED
    BY <2>2, <2>3
<1>6. QED
  BY <1>2, <1>3, <1>5 DEF StatusInv

(* An event of an agent.                                                   *)
LEMMA AgentEventStep ==
    ASSUME StatusInv, NEW a \in StatusAgents, NEW is \in AgentEvents,
           NEW h \in AllHealths, NEW x \in SUBSET Attributes,
           NEW e, e = [is |-> is, about |-> {}, type |-> NoType, health |-> h,
                       attributes |-> x],
           is # "AgentDescriptionUpdated" => x = {},
           is = "AgentDescriptionUpdated" => x # {},
           is = "SubAgentHealth" => h \in SS!Healths,
           type' \in [StatusAgents -> Types \cup {NoType}],
           SS!AgentEvent(a, e)
    PROVE  StatusInv'
<1>. DEFINE f == [is |-> is, about |-> {a}, type |-> type'[a], health |-> h,
                  attributes |-> x]
<1>1. f = SS!About(e, a, type'[a])
  BY DEF SS!About
<1>2. f \in Events /\ f.is = is
  BY DEF Events
<1>3. WellFormed(f)
  BY DEF WellFormed, AgentEvents, ControlEvents
<1>4. SS!Broadcast("agent", f)
  BY <1>1 DEF SS!AgentEvent
<1>5. said' = SaidWith(f)
  <2>1. said' = [said EXCEPT !.agents[a] =
                   [known |-> TRUE,
                    health |-> IF is = "SubAgentHealth" THEN h ELSE said.agents[a].health,
                    attributes |-> said.agents[a].attributes \cup x]]
    BY DEF SS!AgentEvent
  <2>2. is \notin {"HealthUpdated", "OpAMPConnected", "OpAMPConnectFailed",
                   "ControlDescriptionUpdated", "SubAgentRemoved"}
    BY DEF AgentEvents
  <2>3. said \in [health : AllHealths, reachable : BOOLEAN, attributes : SUBSET Attributes,
                  agents : [StatusAgents -> SaidEntries]]
    BY DEF StatusInv, StatusTyped
  <2>4. SaidWith(f).agents = [said.agents EXCEPT ![a] =
                   [known |-> TRUE,
                    health |-> IF is = "SubAgentHealth" THEN h ELSE said.agents[a].health,
                    attributes |-> said.agents[a].attributes \cup x]]
    BY <2>2, <2>3 DEF SaidWith
  <2>5. /\ SaidWith(f).health = said.health /\ SaidWith(f).reachable = said.reachable
        /\ SaidWith(f).attributes = said.attributes
    BY <2>2 DEF SaidWith
  <2>6. SaidWith(f) = [health |-> SaidWith(f).health, reachable |-> SaidWith(f).reachable,
                       attributes |-> SaidWith(f).attributes, agents |-> SaidWith(f).agents]
    BY DEF SaidWith
  <2>7. QED
    BY <2>1, <2>3, <2>4, <2>5, <2>6
<1>6. QED
  BY <1>2, <1>3, <1>4, <1>5, SayStep DEF SS!Kinds, OfKind

(* Processing a message preserves the invariant: an agent of which an      *)
(* earlier one is pending is overtaken from then on.                       *)
LEMMA ProcessStep ==
    ASSUME StatusInv, NEW k \in SS!Kinds, SS!Process(k)
    PROVE  StatusInv'
<1>. DEFINE m == Head(async[k])
<1>1. StatusTyped /\ InOrder /\ Numbered
  BY DEF StatusInv
<1>2. CASE m.event.is = "AgentControlStopped"
  <2>1. /\ UNCHANGED <<status, overtaken, said, n, type, queue>>
        /\ processor' = "ended"
        /\ async' = [j \in SS!Kinds |-> <<>>]
    BY <1>2 DEF SS!Process, SS!control
  <2>2. StatusTyped'
    BY <1>1, <2>1 DEF StatusTyped
  <2>3. \A j \in SS!Kinds : async'[j] = <<>> /\ DOMAIN async'[j] = {}
    BY <2>1
  <2>4. InOrder'
    BY <1>1, <2>1, <2>3 DEF InOrder
  <2>5. SS!Pending' \subseteq SS!Pending
    <3>1. \A l : l \in SS!Pending' <=>
            \E j \in SS!Kinds : In(l, queue[j]) \/ In(l, async'[j])
      BY <2>1 DEF SS!Pending, SS!Range, In
    <3>2. \A j \in SS!Kinds : \A l : ~ In(l, async'[j])
      BY <2>3 DEF In
    <3>3. QED
      BY <1>1, <3>1, <3>2, PendingIs
  <2>6. Numbered'
    BY <1>1, <2>1, <2>5 DEF Numbered
  <2>7. ~ Serving'
    BY <2>1 DEF Serving
  <2>8. QED
    BY <2>2, <2>4, <2>6, <2>7 DEF StatusInv
<1>3. CASE m.event.is # "AgentControlStopped"
  <2>1. /\ UNCHANGED <<said, processor, bridge, n, type, queue>>
        /\ async' \in [SS!Kinds -> Seq(MessageSet)]
        /\ InOrder' /\ Numbered'
        /\ m \in SS!Pending /\ SS!Pending' = SS!Pending \ {m}
        /\ m.event.is \in OfKind(k)
        /\ k = "control" => \A f \in SS!Pending :
                               f.event.is \in ControlEvents => m.n <= f.n
    BY <1>1, <1>3, TakeStep
  <2>2. /\ status' = SS!UpdateStatus(status, m.event)
        /\ overtaken' = overtaken \cup
             {a \in m.event.about : \E f \in SS!Pending : f.n < m.n /\ a \in f.event.about}
    BY <1>3 DEF SS!Process
  <2>3. \A f \in SS!Pending : f.n \in Nat /\ f.event \in Events /\ WellFormed(f.event)
    BY <1>1, PendingIs DEF MessageSet
  <2>4. StatusTyped'
    <3>1. status' \in [health : AllHealths, reachable : BOOLEAN,
                       attributes : SUBSET Attributes, agents : [StatusAgents -> Entries]]
      BY <1>1, <2>1, <2>2, <2>3, UpdatedTyped
    <3>2. QED
      BY <1>1, <2>1, <3>1 DEF StatusTyped
  <2>5. ASSUME Serving'
        PROVE  ControlCurrent' /\ \A a \in StatusAgents \ overtaken' : EntryCurrent(a)'
    <3>1. Serving
      BY <2>1, <2>5 DEF Serving
    <3>2. m.event.is \in ControlEvents =>
            \A f \in SS!Pending : f.event.is \in ControlEvents => m.n <= f.n
      BY <2>1 DEF ControlEvents, AgentEvents, OfKind
    <3>3. ControlCurrent'
      BY <1>1, <2>1, <2>2, <3>1, <3>2, TakenControl DEF StatusInv
    <3>4. ASSUME NEW a \in StatusAgents \ overtaken' PROVE EntryCurrent(a)'
      <4>1. a \in StatusAgents /\ EntryCurrent(a)
        BY <2>2, <3>1 DEF StatusInv
      <4>2. a \in m.event.about => \A f \in SS!Pending : a \in f.event.about => m.n <= f.n
        BY <2>1, <2>2, <2>3, <3>4
      <4>3. QED
        BY <1>1, <2>1, <2>2, <4>1, <4>2, TakenEntry
    <3>5. QED
      BY <3>3, <3>4
  <2>6. QED
    BY <2>1, <2>4, <2>5 DEF StatusInv
<1>4. QED
  BY <1>2, <1>3

(* What is current stays current while nothing is processed or said.       *)
LEMMA StaysCurrent ==
    ASSUME SS!Pending' = SS!Pending, UNCHANGED <<status, said>>
    PROVE  /\ ControlCurrent => ControlCurrent'
           /\ \A a : EntryCurrent(a) => EntryCurrent(a)'
<1>1. ControlCurrent => ControlCurrent'
  BY DEF ControlCurrent, LastOf
<1>2. \A a : EntryCurrent(a) => EntryCurrent(a)'
  BY DEF EntryCurrent, Lasting, WillBeRemoved, SetsHealth
<1>3. QED
  BY <1>1, <1>2

(* A step that leaves the channels or empties some of them, and ends what  *)
(* it empties.                                                             *)
LEMMA ChannelsEnd ==
    ASSUME StatusInv, UNCHANGED <<status, said, n, type, overtaken>>,
           \/ UNCHANGED <<queue, async, processor, bridge>>
           \/ /\ queue' \in {queue, [j \in SS!Kinds |-> <<>>]}
              /\ async' \in {async, [j \in SS!Kinds |-> <<>>]}
              /\ processor' = "ended" \/ bridge' = "ended"
    PROVE  StatusInv'
<1>1. StatusTyped /\ InOrder /\ Numbered
  BY DEF StatusInv
<1>2. /\ queue' \in {queue, [j \in SS!Kinds |-> <<>>]}
      /\ async' \in {async, [j \in SS!Kinds |-> <<>>]}
  OBVIOUS
<1>3. \A j \in SS!Kinds :
        /\ queue'[j] = queue[j] \/ (queue'[j] = <<>> /\ DOMAIN queue'[j] = {})
        /\ async'[j] = async[j] \/ (async'[j] = <<>> /\ DOMAIN async'[j] = {})
  BY <1>2
<1>4. /\ queue' \in [SS!Kinds -> Seq(MessageSet)]
      /\ async' \in [SS!Kinds -> Seq(MessageSet)]
  <2>1. [j \in SS!Kinds |-> <<>>] \in [SS!Kinds -> Seq(MessageSet)]
    OBVIOUS
  <2>2. queue \in [SS!Kinds -> Seq(MessageSet)] /\ async \in [SS!Kinds -> Seq(MessageSet)]
    BY <1>1 DEF StatusTyped
  <2>3. QED
    BY <1>2, <2>1, <2>2
<1>5. StatusTyped'
  BY <1>1, <1>4 DEF StatusTyped
<1>6. InOrder'
  BY <1>1, <1>3 DEF InOrder
<1>7. SS!Pending' \subseteq SS!Pending
  <2>1. \A l : l \in SS!Pending' <=>
          \E j \in SS!Kinds : In(l, queue'[j]) \/ In(l, async'[j])
    BY DEF SS!Pending, SS!Range, In
  <2>2. \A j \in SS!Kinds : \A l :
          /\ In(l, queue'[j]) => In(l, queue[j])
          /\ In(l, async'[j]) => In(l, async[j])
    BY <1>3 DEF In
  <2>3. QED
    BY <1>1, <2>1, <2>2, PendingIs
<1>8. Numbered'
  BY <1>1, <1>7 DEF Numbered
<1>9. CASE UNCHANGED <<queue, async, processor, bridge>>
  <2>1. SS!Pending' = SS!Pending /\ (Serving' <=> Serving)
    BY <1>9 DEF SS!Pending, Serving
  <2>2. QED
    BY <1>5, <1>6, <1>8, <2>1, StaysCurrent DEF StatusInv
<1>10. CASE processor' = "ended" \/ bridge' = "ended"
  BY <1>5, <1>6, <1>8, <1>10 DEF StatusInv, Serving
<1>11. QED
  BY <1>9, <1>10

(* An event of Agent Control itself: what is said changes as it says.      *)
LEMMA ControlStep ==
    ASSUME StatusInv,
           \/ \E a \in StatusAgents : SS!RemoveSubAgent(a)
           \/ \E h \in SS!Healths : SS!ReportHealth(h)
           \/ \E b \in BOOLEAN : SS!Connection(b)
           \/ SS!ControlAttributes \/ SS!StopAgentControl
    PROVE  StatusInv'
<1>1. /\ said \in [health : AllHealths, reachable : BOOLEAN, attributes : SUBSET Attributes,
                   agents : [StatusAgents -> SaidEntries]]
      /\ type \in [StatusAgents -> Types \cup {NoType}]
      /\ "control" \in SS!Kinds
  BY DEF StatusInv, StatusTyped, SS!Kinds
<1>2. /\ [a \in StatusAgents |-> said.agents[a]] = said.agents
      /\ said = [health |-> said.health, reachable |-> said.reachable,
                 attributes |-> said.attributes, agents |-> said.agents]
  BY <1>1
<1>3. ASSUME NEW is \in ControlEvents, NEW h \in AllHealths, NEW x \in SUBSET Attributes,
             NEW c \in SUBSET StatusAgents, is # "SubAgentRemoved" => c = {},
             is = "SubAgentRemoved" => h = SS!NoHealth,
             is # "ControlDescriptionUpdated" => x = {},
             SS!Broadcast("control", [is |-> is, about |-> c, type |-> NoType,
                                      health |-> h, attributes |-> x]),
             said' = SaidWith([is |-> is, about |-> c, type |-> NoType, health |-> h,
                               attributes |-> x]),
             type' \in [StatusAgents -> Types \cup {NoType}]
      PROVE  StatusInv'
  <2>. DEFINE e == [is |-> is, about |-> c, type |-> NoType, health |-> h, attributes |-> x]
  <2>1. e \in Events /\ e.is \in ControlEvents
    BY DEF Events
  <2>2. WellFormed(e)
    BY <1>3 DEF WellFormed, ControlEvents
  <2>3. QED
    BY <1>1, <1>3, <2>1, <2>2, SayStep DEF OfKind
<1>4. /\ {} \in SUBSET Attributes /\ {"version"} \in SUBSET Attributes
      /\ {} \in SUBSET StatusAgents
      /\ SS!NoHealth \in AllHealths /\ SS!Healths \subseteq AllHealths
      /\ {"HealthUpdated", "OpAMPConnected", "OpAMPConnectFailed",
          "ControlDescriptionUpdated", "SubAgentRemoved", "AgentControlStopped"}
         \subseteq ControlEvents
  BY DEF Attributes, AllHealths, ControlEvents
<1>5. ASSUME NEW a \in StatusAgents, SS!RemoveSubAgent(a) PROVE StatusInv'
  <2>. DEFINE e == [is |-> "SubAgentRemoved", about |-> {a}, type |-> NoType,
                    health |-> SS!NoHealth, attributes |-> {}]
  <2>1. SS!Broadcast("control", e)
    <3>1. [SS!Event("SubAgentRemoved") EXCEPT !.about = {a}] = e
      BY DEF SS!Event
    <3>2. QED
      BY <1>5, <3>1 DEF SS!RemoveSubAgent, SS!ControlEvent
  <2>2. said' = [said EXCEPT !.agents[a] = SS!Silent]
    BY <1>5 DEF SS!RemoveSubAgent
  <2>3. [b \in StatusAgents |-> IF b \notin {a} THEN said.agents[b] ELSE SS!Silent]
          = [said.agents EXCEPT ![a] = SS!Silent]
    BY <1>1
  <2>4. said' = SaidWith(e)
    <3>1. SaidWith(e) = [health |-> said.health, reachable |-> said.reachable,
                         attributes |-> said.attributes,
                         agents |-> [said.agents EXCEPT ![a] = SS!Silent]]
      BY <2>3 DEF SaidWith
    <3>2. QED
      BY <1>1, <2>2, <3>1
  <2>5. type' \in [StatusAgents -> Types \cup {NoType}]
    BY <1>1, <1>5 DEF SS!RemoveSubAgent
  <2>6. QED
    BY <1>3, <1>4, <2>1, <2>4, <2>5
<1>6. ASSUME NEW h \in SS!Healths, SS!ReportHealth(h) PROVE StatusInv'
  <2>. DEFINE e == [is |-> "HealthUpdated", about |-> {}, type |-> NoType,
                    health |-> h, attributes |-> {}]
  <2>1. SS!Broadcast("control", e) /\ UNCHANGED type
    BY <1>6 DEF SS!ReportHealth, SS!ControlEvent, SS!Event, SS!control
  <2>2. said' = SaidWith(e)
    BY <1>1, <1>2, <1>6 DEF SS!ReportHealth, SaidWith
  <2>3. QED
    BY <1>1, <1>3, <1>4, <2>1, <2>2
<1>7. ASSUME NEW b \in BOOLEAN, SS!Connection(b) PROVE StatusInv'
  <2>. DEFINE is == IF b THEN "OpAMPConnected" ELSE "OpAMPConnectFailed"
              e == [is |-> is, about |-> {}, type |-> NoType,
                    health |-> SS!NoHealth, attributes |-> {}]
  <2>1. SS!Broadcast("control", e) /\ UNCHANGED type
    BY <1>7 DEF SS!Connection, SS!ControlEvent, SS!Event, SS!control
  <2>2. said' = SaidWith(e)
    BY <1>1, <1>2, <1>7 DEF SS!Connection, SaidWith
  <2>3. is \in ControlEvents /\ is \notin {"SubAgentRemoved", "ControlDescriptionUpdated"}
    BY <1>4
  <2>4. QED
    BY <1>1, <1>3, <1>4, <2>1, <2>2, <2>3
<1>8. CASE SS!ControlAttributes
  <2>. DEFINE e == [is |-> "ControlDescriptionUpdated", about |-> {}, type |-> NoType,
                    health |-> SS!NoHealth, attributes |-> {"version"}]
  <2>1. SS!Broadcast("control", e) /\ UNCHANGED type
    BY <1>8 DEF SS!ControlAttributes, SS!ControlEvent, SS!Event, SS!control
  <2>2. said' = SaidWith(e)
    BY <1>1, <1>2, <1>8 DEF SS!ControlAttributes, SaidWith
  <2>3. QED
    BY <1>1, <1>3, <1>4, <2>1, <2>2
<1>9. CASE SS!StopAgentControl
  <2>. DEFINE e == [is |-> "AgentControlStopped", about |-> {}, type |-> NoType,
                    health |-> SS!NoHealth, attributes |-> {}]
  <2>1. SS!Broadcast("control", e) /\ UNCHANGED type
    BY <1>9 DEF SS!StopAgentControl, SS!ControlEvent, SS!Event
  <2>2. said' = SaidWith(e)
    BY <1>1, <1>2, <1>9 DEF SS!StopAgentControl, SaidWith
  <2>3. QED
    BY <1>1, <1>3, <1>4, <2>1, <2>2
<1>10. QED
  BY <1>5, <1>6, <1>7, <1>8, <1>9

(* Once the processor has caught up, /status shows what was broadcast last *)
(* of Agent Control, its connection and every agent of which no two events *)
(* were processed out of order, for any number of agents and events and    *)
(* every way in which the two channels are read.                           *)
THEOREM StatusCurrentCorrect ==
    SS!Spec => []StatusCurrent
<1>1. SS!Init => StatusInv
  <2>. SUFFICES ASSUME SS!Init PROVE StatusInv
    OBVIOUS
  <2>1. \A k \in SS!Kinds : /\ queue[k] = <<>> /\ DOMAIN queue[k] = {}
                            /\ async[k] = <<>> /\ DOMAIN async[k] = {}
    BY DEF SS!Init
  <2>2. StatusTyped
    <3>1. /\ [k \in SS!Kinds |-> <<>>] \in [SS!Kinds -> Seq(MessageSet)]
          /\ SS!NoEntry \in Entries /\ SS!Silent \in SaidEntries
      BY DEF Entries, SaidEntries, SS!NoEntry, SS!Silent, AllHealths
    <3>2. QED
      BY <3>1 DEF StatusTyped, SS!Init, AllHealths
  <2>3. SS!Pending = {}
    BY <2>1, <2>2, PendingIs DEF In
  <2>4. InOrder /\ Numbered
    BY <2>1, <2>3 DEF InOrder, Numbered
  <2>5. ControlCurrent
    BY <2>3 DEF SS!Init, ControlCurrent
  <2>6. ASSUME NEW a \in StatusAgents PROVE EntryCurrent(a)
    <3>1. status.agents[a] = SS!NoEntry /\ said.agents[a] = SS!Silent
      BY DEF SS!Init
    <3>2. QED
      BY <2>3, <3>1 DEF EntryCurrent, SS!NoEntry, SS!Silent
  <2>7. QED
    BY <2>2, <2>4, <2>5, <2>6 DEF StatusInv
<1>2. ASSUME StatusInv, [SS!Next]_SS!vars PROVE StatusInv'
  <2>1. type \in [StatusAgents -> Types \cup {NoType}]
    BY <1>2 DEF StatusInv, StatusTyped
  <2>2. /\ {} \in SUBSET Attributes /\ {"host"} \in SUBSET Attributes
        /\ {"version"} \in SUBSET Attributes
        /\ SS!NoHealth \in AllHealths /\ SS!Healths \subseteq AllHealths
        /\ {"SubAgentStarted", "SubAgentHealth", "AgentDescriptionUpdated"} \subseteq AgentEvents
    BY DEF Attributes, AllHealths, AgentEvents
  <2>3. ASSUME NEW a \in StatusAgents, NEW t \in Types, SS!Build(a, t) PROVE StatusInv'
    <3>. DEFINE e == [is |-> "AgentDescriptionUpdated", about |-> {}, type |-> NoType,
                      health |-> SS!NoHealth, attributes |-> {"host"}]
    <3>1. SS!AgentEvent(a, e) /\ type' \in [StatusAgents -> Types \cup {NoType}]
      BY <2>1, <2>3 DEF SS!Build, SS!Event
    <3>2. QED
      BY <1>2, <2>2, <3>1, AgentEventStep
  <2>4. ASSUME NEW a \in StatusAgents, SS!RuntimeStarts(a) PROVE StatusInv'
    <3>. DEFINE e == [is |-> "SubAgentStarted", about |-> {}, type |-> NoType,
                      health |-> SS!NoHealth, attributes |-> {}]
    <3>1. SS!AgentEvent(a, e) /\ type' \in [StatusAgents -> Types \cup {NoType}]
      BY <2>1, <2>4 DEF SS!RuntimeStarts, SS!Event
    <3>2. QED
      BY <1>2, <2>2, <3>1, AgentEventStep
  <2>5. ASSUME NEW a \in StatusAgents, SS!AttributesUpdated(a) PROVE StatusInv'
    <3>. DEFINE e == [is |-> "AgentDescriptionUpdated", about |-> {}, type |-> NoType,
                      health |-> SS!NoHealth, attributes |-> {"version"}]
    <3>1. SS!AgentEvent(a, e) /\ type' \in [StatusAgents -> Types \cup {NoType}]
      BY <2>1, <2>5 DEF SS!AttributesUpdated, SS!Event, SS!control
    <3>2. QED
      BY <1>2, <2>2, <3>1, AgentEventStep
  <2>6. ASSUME NEW a \in StatusAgents, NEW h \in SS!Healths, SS!OnHealth(a, h)
        PROVE  StatusInv'
    <3>. DEFINE e == [is |-> "SubAgentHealth", about |-> {}, type |-> NoType,
                      health |-> h, attributes |-> {}]
    <3>1. SS!AgentEvent(a, e) /\ type' \in [StatusAgents -> Types \cup {NoType}]
      BY <2>1, <2>6 DEF SS!OnHealth, SS!Event, SS!control
    <3>2. QED
      BY <1>2, <2>2, <3>1, AgentEventStep
  <2>7. ASSUME NEW k \in SS!Kinds, SS!Forward(k) PROVE StatusInv'
    <3>1. /\ StatusTyped' /\ InOrder' /\ Numbered'
          /\ UNCHANGED <<status, said, overtaken, processor, bridge>>
          /\ Serving => SS!Pending' = SS!Pending
      BY <1>2, <2>7, ForwardStep DEF StatusInv
    <3>2. Serving' <=> Serving
      BY <3>1 DEF Serving
    <3>3. QED
      BY <1>2, <3>1, <3>2, StaysCurrent DEF StatusInv
  <2>8. ASSUME NEW k \in SS!Kinds, SS!Disconnected(k) PROVE StatusInv'
    BY <1>2, <2>8, ChannelsEnd DEF SS!Disconnected, SS!control
  <2>9. CASE SS!DropServer \/ SS!BridgeStops \/ SS!StopHttp \/ UNCHANGED SS!vars
    BY <1>2, <2>9, ChannelsEnd DEF SS!DropServer, SS!BridgeStops, SS!StopHttp, SS!vars,
       SS!control, SS!server
  <2>10. QED
    BY <1>2, <2>3, <2>4, <2>5, <2>6, <2>7, <2>8, <2>9, ControlStep, ProcessStep
    DEF SS!Next
<1>3. StatusInv => StatusCurrent
  <2>. SUFFICES ASSUME StatusInv, Serving, SS!Pending = {}
                PROVE  /\ status.health = said.health
                       /\ status.reachable = said.reachable
                       /\ status.attributes = said.attributes
                       /\ \A a \in StatusAgents \ overtaken :
                            /\ (status.agents[a] # SS!NoEntry) = said.agents[a].known
                            /\ status.agents[a].health = said.agents[a].health
                            /\ status.agents[a].attributes = said.agents[a].attributes
    BY DEF StatusCurrent, SS!StatusCurrent, Serving
  <2>1. /\ status.attributes \in SUBSET Attributes /\ said.attributes \in SUBSET Attributes
        /\ \A a \in StatusAgents : /\ status.agents[a].attributes \in SUBSET Attributes
                                   /\ said.agents[a].attributes \in SUBSET Attributes
                                   /\ said.agents[a].known \in BOOLEAN
    BY DEF StatusInv, StatusTyped, Entries, SaidEntries
  <2>2. /\ status.health = said.health
        /\ status.reachable = said.reachable
        /\ status.attributes = said.attributes
    BY <2>1 DEF StatusInv, ControlCurrent
  <2>3. ASSUME NEW a \in StatusAgents \ overtaken
        PROVE  /\ (status.agents[a] # SS!NoEntry) = said.agents[a].known
               /\ status.agents[a].health = said.agents[a].health
               /\ status.agents[a].attributes = said.agents[a].attributes
    <3>1. EntryCurrent(a)
      BY DEF StatusInv
    <3>2. \A i : ~ WillBeRemoved(a, i)
      BY DEF WillBeRemoved
    <3>3. QED
      BY <2>1, <3>1, <3>2 DEF EntryCurrent
  <2>4. QED
    BY <2>2, <2>3
<1>4. QED
  BY <1>1, <1>2, <1>3, PTL DEF SS!Spec

-----------------------------------------------------------------------------
(* Remote configurations: RemoteConfigs.                                   *)

(* The message of an event, and the agent entries whose values a parse     *)
(* has.                                                                    *)
Of(p) == p.event.message
Done(p) == (DOMAIN Of(p).entries \cap AgentEntries) \ p.left

ConfigEvents == {RC!ProcessRemoteConfig(m) : m \in Messages}

(* A parse is what the actions make of it, of an event that was published, *)
(* and the current key is among those it knows of.                         *)
ParseWellFormed(p, top) ==
    /\ p = RC!Parsing(p.stage, p.event, p.left, p.latest, p.values)
    /\ p.event \in ConfigEvents
    /\ p.stage \in {"verify", "extract"}
    /\ p.left \subseteq DOMAIN p.event.entries
    /\ top \in p.latest

(* The entries it is done with are signed with a key that Fleet has used.  *)
Verified(p, top) ==
    \A c \in DOMAIN Of(p).entries :
        (p.stage # "verify" \/ c \notin p.left) =>
            \E k \in 1..top : RC!SignedWith(Of(p), c, k)

(* The values collected are those of the entries it is done with, no key   *)
(* of which is in two of them.                                             *)
Collected(p) ==
    /\ p.stage = "extract" /\ ~ p.event.failed
    /\ p.left \subseteq DOMAIN Of(p).entries \cap AgentEntries
    /\ \A c \in Done(p) : Of(p).entries[c] # Malformed
    /\ \A c, d \in Done(p) :
         c # d => DOMAIN Of(p).entries[c] \cap DOMAIN Of(p).entries[d] = {}
    /\ \A c \in Done(p) : \A k \in DOMAIN Of(p).entries[c] :
         k \in DOMAIN p.values /\ p.values[k] = Of(p).entries[c][k]
    /\ \A k \in DOMAIN p.values : \E c \in Done(p) : k \in DOMAIN Of(p).entries[c]

(* What holds of a parse p while Fleet's current key is top.                 *)
ParseInv(p, top) ==
    /\ ParseWellFormed(p, top)
    /\ ~ p.event.failed => Verified(p, top)
    /\ p.stage # "verify" => Collected(p)

(* What holds of the outcome of a parse of agent a.                        *)
OutcomeInv(a, o, top) ==
    IF o.accepted
    THEN /\ RC!Readable(o.message)
         /\ RC!Signed(o.message, 1..top)
         /\ DOMAIN o.values = UNION {DOMAIN o.message.entries[c] : c \in RC!Valued(o.message)}
         /\ \A k \in DOMAIN o.values : RC!HasValue(o.message, k, o.values[k])
    ELSE RC!RejectedRight(a, o)

(* The verifier holds a key that Fleet has used, every event comes from a  *)
(* message, and every parse and outcome is right.                          *)
VerdictInv ==
    /\ latest \in Nat /\ verifier \in 1..latest
    /\ channel \in [RemoteAgents -> Seq(ConfigEvents)]
    /\ DOMAIN parsing = RemoteAgents /\ DOMAIN rcOutcome = RemoteAgents
    /\ \A a \in RemoteAgents :
         /\ parsing[a].busy => ParseInv(parsing[a], latest)
         /\ rcOutcome[a].busy => OutcomeInv(a, rcOutcome[a], latest)

(* The first signature of a supported kind is the one that counts.         *)
LEMMA FirstCounts ==
    ASSUME NEW m \in Messages, m.signatures # NotSigned, RC!SignaturesParse(m),
           NEW c \in DOMAIN m.signatures, NEW k
    PROVE  RC!SignedWith(m, c, k)
             <=> RC!Supported(m)[c].genuine /\ RC!Supported(m)[c].key = k
<1> DEFINE list == m.signatures[c]
           first == RC!FirstValid(list)
           I == {i \in DOMAIN list : list[i].supported}
<1>1. list \in Seq(RC!Signature)
  BY RemoteConfigsAssumption DEF RC!Assumptions
<1>2. first # 0
  BY DEF RC!SignaturesParse
<1>3. first = IF I # {} THEN CHOOSE x \in I : \A y \in I : x =< y ELSE 0
  BY DEF RC!FirstValid
<1>4. I \subseteq Nat /\ I # {}
  BY <1>1, <1>2, <1>3
<1>5. \E x \in I : \A y \in I : x =< y
  BY <1>4, SmallestOf
<1>6. first \in I /\ \A y \in I : first =< y
  BY <1>3, <1>4, <1>5
<1> HIDE DEF first
<1>7. RC!Supported(m)[c] = list[first]
  BY DEF RC!Supported, first
<1>8. /\ first \in 1..Len(list) /\ list[first].supported
      /\ DOMAIN list = 1..Len(list) /\ Len(list) \in Nat
  BY <1>1, <1>6
<1>9. \A i \in 1..Len(list) :
        (list[i].supported /\ \A j \in 1..(i - 1) : ~ list[j].supported) <=> i = first
  BY <1>6, <1>8
<1>10. QED
  BY <1>7, <1>8, <1>9 DEF RC!SignedWith

(* What an event that is not marked as failed says of its message.         *)
LEMMA EventIs ==
    ASSUME NEW e \in ConfigEvents, ~ e.failed
    PROVE  /\ e.message \in Messages
           /\ e.message.hash /\ RC!EntriesDecode(e.message)
           /\ RC!SignaturesParse(e.message)
           /\ e.entries = e.message.entries
           /\ e.signed <=> e.message.signatures # NotSigned
           /\ e.signed => e.signatures = RC!Supported(e.message)
<1>1. PICK m \in Messages : e = RC!ProcessRemoteConfig(m)
  BY DEF ConfigEvents
<1>2. e.message = m
  BY <1>1 DEF RC!ProcessRemoteConfig
<1>3. e.failed = (~ m.hash \/ ~ RC!EntriesDecode(m) \/ ~ RC!SignaturesParse(m))
  BY <1>1, Zenon DEF RC!ProcessRemoteConfig
<1>4. e.entries = IF RC!EntriesDecode(m) THEN m.entries ELSE <<>>
  BY <1>1 DEF RC!ProcessRemoteConfig
<1>5. e.signed = (m.signatures # NotSigned /\ RC!SignaturesParse(m))
  BY <1>1, Zenon DEF RC!ProcessRemoteConfig
<1>6. e.signatures = IF m.signatures # NotSigned /\ RC!SignaturesParse(m)
                     THEN RC!Supported(m) ELSE <<>>
  BY <1>1 DEF RC!ProcessRemoteConfig
<1>7. m.hash /\ RC!EntriesDecode(m) /\ RC!SignaturesParse(m)
  BY <1>3
<1>8. QED
  BY <1>2, <1>4, <1>5, <1>6, <1>7

(* The parse of an event that is marked as failed is rightly rejected.     *)
LEMMA FailedIs ==
    ASSUME NEW e \in ConfigEvents, e.failed
    PROVE  \/ ~ RC!Readable(e.message) \/ ~ RC!SignaturesParse(e.message)
<1>1. PICK m \in Messages : e = RC!ProcessRemoteConfig(m)
  BY DEF ConfigEvents
<1>2. e.message = m
  BY <1>1 DEF RC!ProcessRemoteConfig
<1>3. e.failed = (~ m.hash \/ ~ RC!EntriesDecode(m) \/ ~ RC!SignaturesParse(m))
  BY <1>1, Zenon DEF RC!ProcessRemoteConfig
<1>4. QED
  BY <1>2, <1>3 DEF RC!Readable, RC!EntriesDecode

(* An entry signed with a key that Fleet has used stays so.                *)
LEMMA SignedStays ==
    ASSUME NEW m, NEW c, NEW x \in Nat, NEW y \in Nat, x <= y,
           \E k \in 1..x : RC!SignedWith(m, c, k)
    PROVE  \E k \in 1..y : RC!SignedWith(m, c, k)
<1>1. 1..x \subseteq 1..y
  OBVIOUS
<1>2. QED
  BY <1>1

(* An outcome stays right when Fleet changes its key.                      *)
LEMMA OutcomeStays ==
    ASSUME NEW a, NEW o, NEW x \in Nat, NEW y \in Nat, x <= y, OutcomeInv(a, o, x)
    PROVE  OutcomeInv(a, o, y)
<1>1. RC!Signed(o.message, 1..x) => RC!Signed(o.message, 1..y)
  BY SignedStays DEF RC!Signed
<1>2. QED
  BY <1>1 DEF OutcomeInv

(* A parse with another set of keys, or other entries left.                *)
LEMMA ParsingExcept ==
    ASSUME NEW p, p = RC!Parsing(p.stage, p.event, p.left, p.latest, p.values), NEW x
    PROVE  /\ [p EXCEPT !.latest = x] = RC!Parsing(p.stage, p.event, p.left, x, p.values)
           /\ [p EXCEPT !.left = x] = RC!Parsing(p.stage, p.event, x, p.latest, p.values)
<1>1. p = [busy |-> TRUE, stage |-> p.stage, event |-> p.event, left |-> p.left,
           latest |-> p.latest, values |-> p.values]
  BY Zenon DEF RC!Parsing
<1>2. PICK b, s, e, l, ks, vs :
        b = TRUE /\ s = p.stage /\ e = p.event /\ l = p.left /\ ks = p.latest /\ vs = p.values
  BY Zenon
<1>3. p = [busy |-> b, stage |-> s, event |-> e, left |-> l, latest |-> ks, values |-> vs]
  BY <1>1, <1>2, Zenon
<1>4. [p EXCEPT !.latest = x] =
        [busy |-> b, stage |-> s, event |-> e, left |-> l, latest |-> x, values |-> vs]
  BY <1>3
<1>5. [p EXCEPT !.left = x] =
        [busy |-> b, stage |-> s, event |-> e, left |-> x, latest |-> ks, values |-> vs]
  BY <1>3
<1>6. QED
  BY <1>2, <1>4, <1>5, Zenon DEF RC!Parsing

(* A parse stays right when Fleet changes its key.                         *)
LEMMA ParseStays ==
    ASSUME NEW p, NEW x \in Nat, p.busy, ParseInv(p, x)
    PROVE  ParseInv([p EXCEPT !.latest = @ \cup {x + 1}], x + 1)
<1> DEFINE q == RC!Parsing(p.stage, p.event, p.left, p.latest \cup {x + 1}, p.values)
<1>1. p = RC!Parsing(p.stage, p.event, p.left, p.latest, p.values)
  BY DEF ParseInv, ParseWellFormed
<1>2. [p EXCEPT !.latest = @ \cup {x + 1}] = q
  <2>1. [p EXCEPT !.latest = @ \cup {x + 1}] = [p EXCEPT !.latest = p.latest \cup {x + 1}]
    OBVIOUS
  <2>2. QED
    BY <1>1, <2>1, ParsingExcept, Zenon
<1>3. /\ q.stage = p.stage /\ q.event = p.event /\ q.left = p.left
      /\ q.latest = p.latest \cup {x + 1} /\ q.values = p.values
  BY DEF RC!Parsing
<1>4. ParseWellFormed(q, x + 1)
  BY <1>3 DEF ParseInv, ParseWellFormed
<1> HIDE DEF q
<1>5. Verified(p, x) => Verified(q, x + 1)
  BY <1>3, SignedStays DEF Verified, Of
<1>6. Collected(p) => Collected(q)
  <2>1. Of(q) = Of(p) /\ Done(q) = Done(p)
    BY <1>3 DEF Of, Done
  <2>2. QED
    BY <1>3, <2>1 DEF Collected
<1>7. QED
  BY <1>2, <1>3, <1>4, <1>5, <1>6 DEF ParseInv

(* A parse may be rejected for what its message lacks.                     *)
LEMMA RejectRight ==
    ASSUME NEW a, NEW p, NEW offline, NEW top,
           \/ ~ RC!Readable(Of(p)) \/ offline \/ RC!Denied(a, Of(p).entries)
           \/ Of(p).signatures = NotSigned \/ ~ RC!SignaturesParse(Of(p))
           \/ \E k \in p.latest : ~ RC!Signed(Of(p), {k})
    PROVE  OutcomeInv(a, RC!Result(p, FALSE, <<>>, offline), top)
<1> DEFINE o == RC!Result(p, FALSE, <<>>, offline)
<1>1. /\ ~ o.accepted /\ o.message = Of(p) /\ o.latest = p.latest
      /\ o.offline = offline
  BY DEF RC!Result, Of
<1> HIDE DEF o
<1>2. RC!RejectedRight(a, o)
  BY <1>1 DEF RC!RejectedRight
<1>3. OutcomeInv(a, o, top)
  BY <1>1, <1>2 DEF OutcomeInv
<1>4. QED
  BY <1>3 DEF o

(* An entry whose signature is verified with a key of Fleet is done with.  *)
LEMMA VerifyPasses ==
    ASSUME NEW p, NEW top \in Nat, ParseInv(p, top), p.stage = "verify",
           ~ p.event.failed, NEW c \in p.left, p.event.signed,
           c \in DOMAIN p.event.signatures, p.event.signatures[c].genuine,
           p.event.signatures[c].key \in 1..top
    PROVE  ParseInv([p EXCEPT !.left = @ \ {c}], top)
<1> DEFINE q == RC!Parsing(p.stage, p.event, p.left \ {c}, p.latest, p.values)
<1>1. p = RC!Parsing(p.stage, p.event, p.left, p.latest, p.values)
  BY DEF ParseInv, ParseWellFormed
<1>2. [p EXCEPT !.left = @ \ {c}] = q
  <2>1. [p EXCEPT !.left = @ \ {c}] = [p EXCEPT !.left = p.left \ {c}]
    OBVIOUS
  <2>2. QED
    BY <1>1, <2>1, ParsingExcept, Zenon
<1>3. /\ q.stage = p.stage /\ q.event = p.event /\ q.left = p.left \ {c}
      /\ q.latest = p.latest /\ q.values = p.values
  BY DEF RC!Parsing
<1>4. ParseWellFormed(q, top)
  BY <1>3 DEF ParseInv, ParseWellFormed
<1> HIDE DEF q
<1>5. RC!SignedWith(Of(p), c, p.event.signatures[c].key)
  <2>1. p.event \in ConfigEvents
    BY DEF ParseInv, ParseWellFormed
  <2>2. /\ Of(p) \in Messages /\ Of(p).signatures # NotSigned
        /\ RC!SignaturesParse(Of(p)) /\ p.event.signatures = RC!Supported(Of(p))
    BY <2>1, EventIs DEF Of
  <2>3. c \in DOMAIN Of(p).signatures
    BY <2>2 DEF RC!Supported
  <2>4. QED
    BY <2>2, <2>3, FirstCounts
<1>6. Verified(p, top) => Verified(q, top)
  BY <1>3, <1>5 DEF Verified, Of
<1>7. QED
  BY <1>2, <1>3, <1>4, <1>6 DEF ParseInv

(* An entry that has no signature, one that is not genuine or one of       *)
(* another key than the current one is not signed with the current key.    *)
LEMMA VerifyFails ==
    ASSUME NEW p, NEW top \in Nat, ParseInv(p, top), ~ p.event.failed, NEW c \in p.left,
           (p.event.signed /\ c \in DOMAIN p.event.signatures) =>
               ~ p.event.signatures[c].genuine \/ p.event.signatures[c].key # top
    PROVE  \/ Of(p).signatures = NotSigned
           \/ \E k \in p.latest : ~ RC!Signed(Of(p), {k})
<1>1. p.event \in ConfigEvents /\ top \in p.latest /\ p.left \subseteq DOMAIN p.event.entries
  BY DEF ParseInv, ParseWellFormed
<1>2. /\ Of(p) \in Messages /\ RC!SignaturesParse(Of(p))
      /\ p.event.signed <=> Of(p).signatures # NotSigned
      /\ p.event.signed => p.event.signatures = RC!Supported(Of(p))
      /\ p.event.entries = Of(p).entries
  BY <1>1, EventIs DEF Of
<1>3. SUFFICES ASSUME Of(p).signatures # NotSigned
               PROVE  ~ RC!SignedWith(Of(p), c, top)
  BY <1>1, <1>2 DEF RC!Signed
<1>4. CASE c \in DOMAIN Of(p).signatures
  <2>1. c \in DOMAIN p.event.signatures
    BY <1>2, <1>3, <1>4 DEF RC!Supported
  <2>2. QED
    BY <1>2, <1>3, <1>4, <2>1, FirstCounts
<1>5. CASE c \notin DOMAIN Of(p).signatures
  BY <1>5 DEF RC!SignedWith
<1>6. QED
  BY <1>4, <1>5

(* The extraction starts once every signature is verified.                 *)
LEMMA ExtractStarts ==
    ASSUME NEW p, NEW top, ParseInv(p, top), p.stage = "verify", ~ p.event.failed,
           p.left = {}
    PROVE  ParseInv(RC!Parsing("extract", p.event, DOMAIN p.event.entries \cap AgentEntries,
                               p.latest, <<>>), top)
<1> DEFINE q == RC!Parsing("extract", p.event, DOMAIN p.event.entries \cap AgentEntries,
                           p.latest, <<>>)
<1>1. /\ q.stage = "extract" /\ q.event = p.event /\ q.latest = p.latest
      /\ q.left = DOMAIN p.event.entries \cap AgentEntries /\ q.values = <<>>
  BY DEF RC!Parsing
<1>2. ParseWellFormed(q, top)
  BY <1>1 DEF ParseInv, ParseWellFormed
<1>3. p.event \in ConfigEvents /\ Of(q) = Of(p) /\ p.event.entries = Of(p).entries
  BY <1>1, EventIs DEF ParseInv, ParseWellFormed, Of
<1> HIDE DEF q
<1>4. Verified(q, top)
  BY <1>1, <1>3 DEF ParseInv, Verified
<1>5. Done(q) = {}
  BY <1>1, <1>3 DEF Done
<1>6. DOMAIN q.values = {}
  BY <1>1
<1>7. Collected(q)
  BY <1>1, <1>3, <1>5, <1>6 DEF Collected
<1>8. QED
  BY <1>2, <1>4, <1>7 DEF ParseInv, q

(* An entry that repeats no key is appended.                               *)
LEMMA AppendPasses ==
    ASSUME NEW p, NEW top, ParseInv(p, top), p.stage = "extract", NEW c \in p.left,
           p.event.entries[c] # Malformed,
           DOMAIN p.event.entries[c] \cap DOMAIN p.values = {}
    PROVE  ParseInv(RC!Parsing("extract", p.event, p.left \ {c}, p.latest,
                               RC!MergeOverride(p.values, p.event.entries[c])), top)
<1> DEFINE body == Of(p).entries[c]
           vs == RC!MergeOverride(p.values, body)
           q == RC!Parsing("extract", p.event, p.left \ {c}, p.latest, vs)
<1>1. /\ q.stage = "extract" /\ q.event = p.event /\ q.latest = p.latest
      /\ q.left = p.left \ {c} /\ q.values = vs
  BY DEF RC!Parsing
<1>2. ParseWellFormed(q, top)
  BY <1>1 DEF ParseInv, ParseWellFormed
<1>3. Collected(p) /\ ~ p.event.failed /\ p.event \in ConfigEvents
  BY DEF ParseInv, ParseWellFormed, Collected
<1>4. Of(q) = Of(p) /\ p.event.entries = Of(p).entries
  BY <1>1, <1>3, EventIs DEF Of
<1> HIDE DEF q
<1>5. Verified(q, top)
  BY <1>1, <1>3, <1>4 DEF ParseInv, Verified
<1>6. c \in DOMAIN Of(p).entries \cap AgentEntries /\ Done(q) = Done(p) \cup {c}
      /\ c \notin Done(p)
  BY <1>1, <1>3, <1>4 DEF Done, Collected
<1>7. /\ DOMAIN vs = DOMAIN p.values \cup DOMAIN body
      /\ \A k \in DOMAIN vs : vs[k] = IF k \in DOMAIN body THEN body[k] ELSE p.values[k]
  BY DEF RC!MergeOverride
<1> HIDE DEF vs
<1>8. DOMAIN body \cap DOMAIN p.values = {} /\ body # Malformed
  BY <1>4
<1>9. \A e \in Done(q) : Of(q).entries[e] # Malformed
  BY <1>3, <1>4, <1>6, <1>8 DEF Collected
<1>10. \A e, f \in Done(q) :
         e # f => DOMAIN Of(q).entries[e] \cap DOMAIN Of(q).entries[f] = {}
  <2>1. \A e \in Done(p) : DOMAIN Of(p).entries[e] \subseteq DOMAIN p.values
    BY <1>3 DEF Collected
  <2>2. \A e \in Done(p) : DOMAIN Of(p).entries[e] \cap DOMAIN body = {}
    BY <1>8, <2>1
  <2>3. \A e, f \in Done(p) :
          e # f => DOMAIN Of(p).entries[e] \cap DOMAIN Of(p).entries[f] = {}
    BY <1>3 DEF Collected
  <2>4. QED
    BY <1>4, <1>6, <2>2, <2>3
<1>11. \A e \in Done(q) : \A k \in DOMAIN Of(q).entries[e] :
         k \in DOMAIN q.values /\ q.values[k] = Of(q).entries[e][k]
  <2>1. \A k \in DOMAIN body : k \in DOMAIN vs /\ vs[k] = body[k]
    BY <1>7
  <2>2. \A e \in Done(p) : \A k \in DOMAIN Of(p).entries[e] :
          k \in DOMAIN p.values /\ p.values[k] = Of(p).entries[e][k]
    BY <1>3 DEF Collected
  <2>3. \A e \in Done(p) : \A k \in DOMAIN Of(p).entries[e] :
          k \in DOMAIN vs /\ vs[k] = Of(p).entries[e][k]
    BY <1>7, <1>8, <2>2
  <2>4. QED
    BY <1>1, <1>4, <1>6, <2>1, <2>3
<1>12. \A k \in DOMAIN q.values : \E e \in Done(q) : k \in DOMAIN Of(q).entries[e]
  BY <1>1, <1>3, <1>4, <1>6, <1>7 DEF Collected
<1>13. q.left \subseteq DOMAIN Of(q).entries \cap AgentEntries
  BY <1>1, <1>3, <1>4 DEF Collected
<1>14. Collected(q)
  BY <1>1, <1>3, <1>9, <1>10, <1>11, <1>12, <1>13 DEF Collected
<1>15. QED
  BY <1>2, <1>4, <1>5, <1>14 DEF ParseInv, q, vs

(* One that is no YAML or repeats a key is at fault.                       *)
LEMMA AppendFails ==
    ASSUME NEW p, NEW top, ParseInv(p, top), p.stage = "extract", NEW c \in p.left,
           \/ p.event.entries[c] = Malformed
           \/ DOMAIN p.event.entries[c] \cap DOMAIN p.values # {}
    PROVE  ~ RC!Readable(Of(p))
<1>1. Collected(p) /\ ~ p.event.failed /\ p.event \in ConfigEvents
  BY DEF ParseInv, ParseWellFormed, Collected
<1>2. p.event.entries = Of(p).entries
  BY <1>1, EventIs DEF Of
<1>3. c \in DOMAIN Of(p).entries \cap AgentEntries /\ c \notin Done(p)
  BY <1>1 DEF Collected, Done
<1>4. CASE Of(p).entries[c] = Malformed
  BY <1>3, <1>4 DEF RC!Readable, RC!Valued
<1>5. CASE DOMAIN Of(p).entries[c] \cap DOMAIN p.values # {}
  <2>1. PICK k \in DOMAIN Of(p).entries[c] : k \in DOMAIN p.values
    BY <1>5
  <2>2. PICK e \in Done(p) : k \in DOMAIN Of(p).entries[e]
    BY <1>1, <2>1 DEF Collected
  <2>3. e # c /\ e \in DOMAIN Of(p).entries \cap AgentEntries
    BY <1>3, <2>2 DEF Done
  <2>4. QED
    BY <1>3, <2>1, <2>2, <2>3 DEF RC!Readable
<1>6. QED
  BY <1>2, <1>4, <1>5

(* Once every agent entry is appended, the message is readable unless its  *)
(* override is at fault, and it is signed.                                 *)
LEMMA ExtractReads ==
    ASSUME NEW p, NEW top, ParseInv(p, top), p.stage = "extract", p.left = {},
           \A c, e \in DOMAIN Of(p).entries \cap OverrideEntries : c = e,
           \A c \in DOMAIN Of(p).entries \cap OverrideEntries : Of(p).entries[c] # Malformed
    PROVE  RC!Readable(Of(p)) /\ RC!Signed(Of(p), 1..top)
<1>1. Collected(p) /\ ~ p.event.failed /\ p.event \in ConfigEvents /\ Verified(p, top)
  BY DEF ParseInv, ParseWellFormed, Collected
<1>2. Of(p).hash /\ RC!EntriesDecode(Of(p))
  BY <1>1, EventIs DEF Of
<1>3. Done(p) = DOMAIN Of(p).entries \cap AgentEntries
  BY DEF Done
<1>4. /\ \A c \in Done(p) : Of(p).entries[c] # Malformed
      /\ \A c, e \in Done(p) :
           c # e => DOMAIN Of(p).entries[c] \cap DOMAIN Of(p).entries[e] = {}
  BY <1>1 DEF Collected
<1>5. RC!Readable(Of(p))
  BY <1>2, <1>3, <1>4 DEF RC!Readable, RC!Valued, RC!EntriesDecode
<1>6. RC!Signed(Of(p), 1..top)
  BY <1>1 DEF Verified, RC!Signed
<1>7. QED
  BY <1>5, <1>6

(* A parse may be accepted with the values of its message.                 *)
LEMMA AcceptRight ==
    ASSUME NEW a, NEW p, NEW top, NEW vs,
           RC!Readable(Of(p)), RC!Signed(Of(p), 1..top),
           DOMAIN vs = UNION {DOMAIN Of(p).entries[c] : c \in RC!Valued(Of(p))},
           \A k \in DOMAIN vs : RC!HasValue(Of(p), k, vs[k])
    PROVE  OutcomeInv(a, RC!Result(p, TRUE, vs, FALSE), top)
<1> DEFINE o == RC!Result(p, TRUE, vs, FALSE)
<1>1. o.accepted /\ o.message = Of(p) /\ o.values = vs
  BY DEF RC!Result, Of
<1> HIDE DEF o
<1>2. OutcomeInv(a, o, top)
  BY <1>1 DEF OutcomeInv
<1>3. QED
  BY <1>2 DEF o

(* Without an override the values are those of the agent entries.          *)
LEMMA ExtractPlain ==
    ASSUME NEW a, NEW p, NEW top, ParseInv(p, top), p.stage = "extract", p.left = {},
           DOMAIN Of(p).entries \cap OverrideEntries = {}
    PROVE  OutcomeInv(a, RC!Result(p, TRUE, p.values, FALSE), top)
<1>1. Collected(p)
  BY DEF ParseInv
<1>2. Done(p) = DOMAIN Of(p).entries \cap AgentEntries /\ RC!Valued(Of(p)) = Done(p)
  BY DEF Done, RC!Valued
<1>3. \A c \in Done(p) : \A k \in DOMAIN Of(p).entries[c] :
         k \in DOMAIN p.values /\ p.values[k] = Of(p).entries[c][k]
  BY <1>1 DEF Collected
<1>4. \A k \in DOMAIN p.values : \E c \in Done(p) : k \in DOMAIN Of(p).entries[c]
  BY <1>1 DEF Collected
<1>5. DOMAIN p.values = UNION {DOMAIN Of(p).entries[c] : c \in RC!Valued(Of(p))}
  BY <1>2, <1>3, <1>4
<1>6. ASSUME NEW k \in DOMAIN p.values PROVE RC!HasValue(Of(p), k, p.values[k])
  <2>1. PICK c \in Done(p) : k \in DOMAIN Of(p).entries[c]
    BY <1>4
  <2>2. p.values[k] = Of(p).entries[c][k]
    BY <1>3, <2>1
  <2>3. QED
    BY <1>2, <2>1, <2>2 DEF RC!HasValue
<1>7. RC!Readable(Of(p)) /\ RC!Signed(Of(p), 1..top)
  BY ExtractReads
<1>8. QED
  BY <1>5, <1>6, <1>7, AcceptRight

(* An override replaces the values of its keys and no others.              *)
LEMMA ExtractOverride ==
    ASSUME NEW a, NEW p, NEW top, ParseInv(p, top), p.stage = "extract", p.left = {},
           NEW c, DOMAIN Of(p).entries \cap OverrideEntries = {c},
           Of(p).entries[c] # Malformed
    PROVE  OutcomeInv(a, RC!Result(p, TRUE, RC!MergeOverride(p.values, Of(p).entries[c]),
                                   FALSE), top)
<1> DEFINE body == Of(p).entries[c]
           vs == RC!MergeOverride(p.values, body)
<1>1. Collected(p)
  BY DEF ParseInv
<1>2. /\ Done(p) = DOMAIN Of(p).entries \cap AgentEntries
      /\ RC!Valued(Of(p)) = Done(p) \cup {c}
  BY DEF Done, RC!Valued
<1>3. \A e \in Done(p) : \A k \in DOMAIN Of(p).entries[e] :
         k \in DOMAIN p.values /\ p.values[k] = Of(p).entries[e][k]
  BY <1>1 DEF Collected
<1>4. \A k \in DOMAIN p.values : \E e \in Done(p) : k \in DOMAIN Of(p).entries[e]
  BY <1>1 DEF Collected
<1>5. /\ DOMAIN vs = DOMAIN p.values \cup DOMAIN body
      /\ \A k \in DOMAIN vs : vs[k] = IF k \in DOMAIN body THEN body[k] ELSE p.values[k]
  BY DEF RC!MergeOverride
<1> HIDE DEF vs
<1>6. DOMAIN vs = UNION {DOMAIN Of(p).entries[e] : e \in RC!Valued(Of(p))}
  <2>1. DOMAIN p.values = UNION {DOMAIN Of(p).entries[e] : e \in Done(p)}
    BY <1>3, <1>4
  <2>2. QED
    BY <1>2, <1>5, <2>1
<1>7. ASSUME NEW k \in DOMAIN vs PROVE RC!HasValue(Of(p), k, vs[k])
  <2>1. CASE k \in DOMAIN body
    BY <1>5, <2>1 DEF RC!HasValue
  <2>2. CASE k \notin DOMAIN body
    <3>1. k \in DOMAIN p.values /\ vs[k] = p.values[k]
      BY <1>5, <2>2
    <3>2. PICK e \in Done(p) : k \in DOMAIN Of(p).entries[e]
      BY <1>4, <3>1
    <3>3. vs[k] = Of(p).entries[e][k]
      BY <1>3, <3>1, <3>2
    <3>4. QED
      BY <1>2, <2>2, <3>2, <3>3 DEF RC!HasValue
  <2>3. QED
    BY <2>1, <2>2
<1>8. RC!Readable(Of(p)) /\ RC!Signed(Of(p), 1..top)
  BY ExtractReads
<1>9. QED
  BY <1>6, <1>7, <1>8, AcceptRight DEF vs

-----------------------------------------------------------------------------
(* A step that ends the parse of an agent with a right outcome.            *)
LEMMA FinishStep ==
    ASSUME VerdictInv, NEW a \in RemoteAgents, NEW r, RC!Finish(a, r),
           r.busy => OutcomeInv(a, r, latest),
           latest' = latest, verifier' \in 1..latest, channel' = channel
    PROVE  VerdictInv'
<1>1. /\ DOMAIN parsing' = RemoteAgents /\ DOMAIN rcOutcome' = RemoteAgents
      /\ parsing'[a] = RC!Nothing /\ rcOutcome'[a] = r
      /\ \A b \in RemoteAgents \ {a} :
           parsing'[b] = parsing[b] /\ rcOutcome'[b] = rcOutcome[b]
  BY DEF VerdictInv, RC!Finish
<1>2. ~ RC!Nothing.busy
  BY DEF RC!Nothing
<1>3. ASSUME NEW b \in RemoteAgents
      PROVE  /\ parsing'[b].busy => ParseInv(parsing'[b], latest)
             /\ rcOutcome'[b].busy => OutcomeInv(b, rcOutcome'[b], latest)
  BY <1>1, <1>2 DEF VerdictInv
<1>4. QED
  BY <1>1, <1>3 DEF VerdictInv

(* A step that takes the parse of an agent further.                        *)
LEMMA AdvanceStep ==
    ASSUME VerdictInv, NEW a \in RemoteAgents, NEW q,
           parsing' = [parsing EXCEPT ![a] = q], rcOutcome' = rcOutcome,
           ParseInv(q, latest), latest' = latest, verifier' \in 1..latest,
           channel' \in [RemoteAgents -> Seq(ConfigEvents)]
    PROVE  VerdictInv'
<1>1. /\ DOMAIN parsing' = RemoteAgents /\ parsing'[a] = q
      /\ \A b \in RemoteAgents \ {a} : parsing'[b] = parsing[b]
  BY DEF VerdictInv
<1>2. ASSUME NEW b \in RemoteAgents
      PROVE  parsing'[b].busy => ParseInv(parsing'[b], latest)
  BY <1>1 DEF VerdictInv
<1>3. QED
  BY <1>1, <1>2 DEF VerdictInv

(* A message becomes an event.                                             *)
LEMMA OnMessageStep ==
    ASSUME VerdictInv, NEW a \in RemoteAgents, NEW m \in Messages, RC!OnMessage(a, m)
    PROVE  VerdictInv'
<1>1. RC!ProcessRemoteConfig(m) \in ConfigEvents
  BY DEF ConfigEvents
<1>2. channel' = [channel EXCEPT ![a] = Append(channel[a], RC!ProcessRemoteConfig(m))]
  BY DEF RC!OnMessage
<1>3. channel' \in [RemoteAgents -> Seq(ConfigEvents)]
  BY <1>1, <1>2 DEF VerdictInv
<1>4. UNCHANGED <<latest, verifier, parsing, rcOutcome>>
  BY DEF RC!OnMessage
<1>5. QED
  BY <1>3, <1>4 DEF VerdictInv

(* Fleet changes its key: parses and outcomes stay right.                  *)
LEMMA RotateStep ==
    ASSUME VerdictInv, RC!Rotate
    PROVE  VerdictInv'
<1>1. /\ latest \in Nat /\ latest' = latest + 1 /\ verifier' = verifier
      /\ channel' = channel /\ rcOutcome' = rcOutcome
  BY DEF RC!Rotate, VerdictInv
<1>2. parsing' = [a \in RemoteAgents |->
                    IF ~ parsing[a].busy THEN RC!Nothing
                    ELSE [parsing[a] EXCEPT !.latest = @ \cup {latest + 1}]]
  BY DEF RC!Rotate, RC!Idle
<1>3. DOMAIN parsing' = RemoteAgents
  BY <1>2
<1>4. ASSUME NEW a \in RemoteAgents
      PROVE  /\ parsing'[a].busy => ParseInv(parsing'[a], latest')
             /\ rcOutcome'[a].busy => OutcomeInv(a, rcOutcome'[a], latest')
  <2>1. CASE ~ parsing[a].busy
    <3>1. parsing'[a] = RC!Nothing
      BY <1>2, <2>1
    <3>2. ~ parsing'[a].busy
      BY <3>1 DEF RC!Nothing
    <3>3. rcOutcome[a].busy => OutcomeInv(a, rcOutcome[a], latest + 1)
      BY OutcomeStays, <1>1 DEF VerdictInv
    <3>4. QED
      BY <1>1, <3>2, <3>3
  <2>2. CASE parsing[a].busy
    <3>1. parsing'[a] = [parsing[a] EXCEPT !.latest = @ \cup {latest + 1}]
      BY <1>2, <2>2
    <3>2. ParseInv(parsing[a], latest)
      BY <2>2 DEF VerdictInv
    <3>3. ParseInv(parsing'[a], latest + 1)
      BY <1>1, <2>2, <3>1, <3>2, ParseStays
    <3>4. rcOutcome[a].busy => OutcomeInv(a, rcOutcome[a], latest + 1)
      BY OutcomeStays, <1>1 DEF VerdictInv
    <3>5. QED
      BY <1>1, <3>3, <3>4
  <2>3. QED
    BY <2>1, <2>2
<1>5. latest' \in Nat /\ verifier' \in 1..latest'
  BY <1>1 DEF VerdictInv
<1>6. QED
  BY <1>1, <1>3, <1>4, <1>5 DEF VerdictInv

(* The runtime takes an event: every entry is left to verify.              *)
LEMMA TakeEventStep ==
    ASSUME VerdictInv, NEW a \in RemoteAgents, RC!Take(a)
    PROVE  VerdictInv'
<1> DEFINE e == Head(channel[a])
           q == RC!Parsing("verify", e, DOMAIN e.entries, {latest}, <<>>)
<1>1. channel[a] \in Seq(ConfigEvents) /\ channel[a] # <<>>
  BY DEF VerdictInv, RC!Take
<1>2. e \in ConfigEvents /\ Tail(channel[a]) \in Seq(ConfigEvents)
  BY <1>1
<1>3. /\ parsing' = [parsing EXCEPT ![a] = q]
      /\ channel' = [channel EXCEPT ![a] = Tail(channel[a])]
      /\ UNCHANGED <<latest, verifier, rcOutcome>>
  BY DEF RC!Take
<1>4. channel' \in [RemoteAgents -> Seq(ConfigEvents)]
  BY <1>2, <1>3 DEF VerdictInv
<1> HIDE DEF e
<1>5. /\ q.stage = "verify" /\ q.event = e /\ q.left = DOMAIN e.entries
      /\ q.latest = {latest} /\ q.values = <<>>
  BY DEF RC!Parsing
<1>6. ParseWellFormed(q, latest)
  BY <1>2, <1>5 DEF ParseWellFormed
<1> HIDE DEF q
<1>7. ~ q.event.failed => Verified(q, latest)
  BY <1>2, <1>5, EventIs DEF Verified, Of
<1>8. ParseInv(q, latest)
  BY <1>5, <1>6, <1>7 DEF ParseInv
<1>9. verifier' \in 1..latest
  BY <1>3 DEF VerdictInv
<1>10. QED
  BY <1>3, <1>4, <1>8, <1>9, AdvanceStep

(* A parse at a stage is one of which the invariant holds.                 *)
LEMMA AtParse ==
    ASSUME VerdictInv, NEW a \in RemoteAgents, NEW stage, RC!At(a, stage)
    PROVE  ParseInv(parsing[a], latest) /\ parsing[a].stage = stage
  BY DEF VerdictInv, RC!At, RC!Idle

(* A parse that is rejected for what its message lacks.                    *)
LEMMA RejectStep ==
    ASSUME VerdictInv, NEW a \in RemoteAgents, NEW offline, RC!Reject(a, offline),
           \/ ~ RC!Readable(Of(parsing[a])) \/ offline
           \/ RC!Denied(a, Of(parsing[a]).entries)
           \/ Of(parsing[a]).signatures = NotSigned
           \/ ~ RC!SignaturesParse(Of(parsing[a]))
           \/ \E k \in parsing[a].latest : ~ RC!Signed(Of(parsing[a]), {k}),
           latest' = latest, verifier' \in 1..latest, channel' = channel
    PROVE  VerdictInv'
<1> DEFINE r == RC!Result(parsing[a], FALSE, <<>>, offline)
<1>1. OutcomeInv(a, r, latest)
  BY RejectRight
<1>2. RC!Finish(a, r)
  BY DEF RC!Reject
<1> HIDE DEF r
<1>3. QED
  BY <1>1, <1>2, FinishStep

(* An event that is marked as failed is rejected.                          *)
LEMMA FailedStep ==
    ASSUME VerdictInv, NEW a \in RemoteAgents, RC!Failed(a)
    PROVE  VerdictInv'
<1>1. ParseInv(parsing[a], latest)
  BY AtParse DEF RC!Failed
<1>2. parsing[a].event \in ConfigEvents /\ parsing[a].event.failed
  BY <1>1 DEF ParseInv, ParseWellFormed, RC!Failed
<1>3. ~ RC!Readable(Of(parsing[a])) \/ ~ RC!SignaturesParse(Of(parsing[a]))
  BY <1>2, FailedIs DEF Of
<1>4. /\ RC!Reject(a, FALSE) /\ latest' = latest /\ channel' = channel
      /\ verifier' \in 1..latest
  BY DEF RC!Failed, VerdictInv
<1>5. QED
  BY <1>3, <1>4, RejectStep

(* A signature is verified, with the cached key or one that is fetched.    *)
LEMMA VerifyStep ==
    ASSUME VerdictInv, NEW a \in RemoteAgents, NEW c, RC!Verify(a, c)
    PROVE  VerdictInv'
<1> DEFINE p == parsing[a]
           bears == p.event.signed /\ c \in DOMAIN p.event.signatures
           s == p.event.signatures[c]
<1>1. /\ ParseInv(p, latest) /\ p.stage = "verify" /\ ~ p.event.failed /\ c \in p.left
  BY AtParse DEF RC!Verify
<1>2. latest' = latest /\ channel' = channel /\ latest \in Nat /\ verifier \in 1..latest
  BY DEF RC!Verify, VerdictInv
<1>3. \/ ~ bears /\ verifier' = verifier /\ RC!Reject(a, FALSE)
      \/ /\ bears /\ ((verifier' = verifier /\ s.key = verifier) \/ verifier' = latest)
         /\ s.key = verifier' /\ s.genuine
         /\ parsing' = [parsing EXCEPT ![a].left = @ \ {c}] /\ rcOutcome' = rcOutcome
      \/ /\ bears /\ ((verifier' = verifier /\ s.key = verifier) \/ verifier' = latest)
         /\ ~ (s.key = verifier' /\ s.genuine) /\ RC!Reject(a, FALSE)
      \/ bears /\ verifier' = verifier /\ RC!Reject(a, TRUE)
  BY DEF RC!Verify, RC!Fetches
<1>4. verifier' \in 1..latest
  <2>1. verifier' = verifier \/ verifier' = latest
    BY <1>3, Zenon
  <2>2. QED
    BY <1>2, <2>1
<1>5. CASE ~ bears /\ RC!Reject(a, FALSE)
  <2>1. \/ Of(p).signatures = NotSigned
        \/ \E k \in p.latest : ~ RC!Signed(Of(p), {k})
    BY <1>1, <1>2, <1>5, VerifyFails
  <2>2. QED
    BY <1>2, <1>4, <1>5, <2>1, RejectStep
<1>6. CASE /\ bears /\ s.key = verifier' /\ s.genuine
           /\ parsing' = [parsing EXCEPT ![a].left = @ \ {c}] /\ rcOutcome' = rcOutcome
  <2>1. parsing' = [parsing EXCEPT ![a] = [p EXCEPT !.left = @ \ {c}]]
    BY <1>6
  <2>2. ParseInv([p EXCEPT !.left = @ \ {c}], latest)
    BY <1>1, <1>2, <1>4, <1>6, VerifyPasses
  <2>3. channel' \in [RemoteAgents -> Seq(ConfigEvents)]
    BY <1>2 DEF VerdictInv
  <2>4. QED
    BY <1>2, <1>4, <1>6, <2>1, <2>2, <2>3, AdvanceStep
<1>7. CASE /\ bears /\ ((verifier' = verifier /\ s.key = verifier) \/ verifier' = latest)
           /\ ~ (s.key = verifier' /\ s.genuine) /\ RC!Reject(a, FALSE)
  <2>1. ~ s.genuine \/ s.key # latest
    BY <1>7
  <2>2. \/ Of(p).signatures = NotSigned
        \/ \E k \in p.latest : ~ RC!Signed(Of(p), {k})
    BY <1>1, <1>2, <2>1, VerifyFails
  <2>3. QED
    BY <1>2, <1>4, <1>7, <2>2, RejectStep
<1>8. CASE RC!Reject(a, TRUE)
  BY <1>2, <1>4, <1>8, RejectStep
<1>9. QED
  BY <1>3, <1>5, <1>6, <1>7, <1>8

(* The content is denied, or the extraction starts.                        *)
LEMMA ValidateStep ==
    ASSUME VerdictInv, NEW a \in RemoteAgents, RC!Validate(a)
    PROVE  VerdictInv'
<1> DEFINE p == parsing[a]
           q == RC!Parsing("extract", p.event, DOMAIN p.event.entries \cap AgentEntries,
                           p.latest, <<>>)
<1>1. ParseInv(p, latest) /\ p.stage = "verify" /\ ~ p.event.failed /\ p.left = {}
  BY AtParse DEF RC!Validate
<1>2. /\ latest' = latest /\ channel' = channel /\ verifier' \in 1..latest
      /\ channel' \in [RemoteAgents -> Seq(ConfigEvents)]
  BY DEF RC!Validate, VerdictInv
<1>3. p.event.entries = Of(p).entries
  BY <1>1, EventIs DEF ParseInv, ParseWellFormed, Of
<1>4. CASE RC!Denied(a, p.event.entries)
  BY <1>2, <1>3, <1>4, RejectStep DEF RC!Validate
<1>5. CASE ~ RC!Denied(a, p.event.entries)
  <2>1. parsing' = [parsing EXCEPT ![a] = q] /\ rcOutcome' = rcOutcome
    BY <1>5 DEF RC!Validate
  <2>2. ParseInv(q, latest)
    BY <1>1, ExtractStarts
  <2> HIDE DEF q
  <2>3. QED
    BY <1>2, <2>1, <2>2, AdvanceStep
<1>6. QED
  BY <1>4, <1>5

(* An entry is appended or at fault.                                       *)
LEMMA TryAppendStep ==
    ASSUME VerdictInv, NEW a \in RemoteAgents, NEW c, RC!TryAppend(a, c)
    PROVE  VerdictInv'
<1> DEFINE p == parsing[a]
           body == p.event.entries[c]
           q == RC!Parsing("extract", p.event, p.left \ {c}, p.latest,
                           RC!MergeOverride(p.values, body))
<1>1. ParseInv(p, latest) /\ p.stage = "extract" /\ c \in p.left
  BY AtParse DEF RC!TryAppend
<1>2. /\ latest' = latest /\ channel' = channel /\ verifier' \in 1..latest
      /\ channel' \in [RemoteAgents -> Seq(ConfigEvents)]
  BY DEF RC!TryAppend, VerdictInv
<1>3. CASE body = Malformed \/ DOMAIN body \cap DOMAIN p.values # {}
  <2>1. RC!Reject(a, FALSE)
    BY <1>3 DEF RC!TryAppend
  <2>2. ~ RC!Readable(Of(p))
    BY <1>1, <1>3, AppendFails
  <2>3. QED
    BY <1>2, <2>1, <2>2, RejectStep
<1>4. CASE body # Malformed /\ DOMAIN body \cap DOMAIN p.values = {}
  <2>1. parsing' = [parsing EXCEPT ![a] = q] /\ rcOutcome' = rcOutcome
    BY <1>4 DEF RC!TryAppend
  <2>2. ParseInv(q, latest)
    BY <1>1, <1>4, AppendPasses
  <2> HIDE DEF q
  <2>3. QED
    BY <1>2, <2>1, <2>2, AdvanceStep
<1>5. QED
  BY <1>3, <1>4

(* The override, if any, is merged or at fault.                            *)
LEMMA ExtractStep ==
    ASSUME VerdictInv, NEW a \in RemoteAgents, RC!Extract(a)
    PROVE  VerdictInv'
<1> DEFINE p == parsing[a]
           entries == p.event.entries
           overrides == DOMAIN entries \cap OverrideEntries
           Plain == RC!Result(p, TRUE, p.values, FALSE)
           Merged(c) == RC!Result(p, TRUE, RC!MergeOverride(p.values, entries[c]), FALSE)
<1>1. ParseInv(p, latest) /\ p.stage = "extract" /\ p.left = {}
  BY AtParse DEF RC!Extract
<1>2. latest' = latest /\ channel' = channel /\ verifier' \in 1..latest
  BY DEF RC!Extract, VerdictInv
<1>3. entries = Of(p).entries
  BY <1>1, EventIs DEF ParseInv, ParseWellFormed, Collected, Of
<1>4. CASE overrides = {}
  <2>1. RC!Finish(a, Plain)
    BY <1>4 DEF RC!Extract
  <2>2. OutcomeInv(a, Plain, latest)
    BY <1>1, <1>3, <1>4, ExtractPlain
  <2> HIDE DEF Plain
  <2>3. QED
    BY <1>2, <2>1, <2>2, FinishStep
<1>5. ASSUME NEW c \in overrides, overrides # {c} \/ entries[c] = Malformed,
             RC!Reject(a, FALSE)
      PROVE  VerdictInv'
  <2>1. ~ RC!Readable(Of(p))
    BY <1>3, <1>5 DEF RC!Readable, RC!Valued
  <2>2. QED
    BY <1>2, <1>5, <2>1, RejectStep
<1>6. ASSUME NEW c \in overrides, overrides = {c}, entries[c] # Malformed,
             RC!Finish(a, Merged(c))
      PROVE  VerdictInv'
  <2>1. OutcomeInv(a, Merged(c), latest)
    BY <1>1, <1>3, <1>6, ExtractOverride
  <2> HIDE DEF Merged
  <2>2. QED
    BY <1>2, <1>6, <2>1, FinishStep
<1>7. QED
  BY <1>4, <1>5, <1>6 DEF RC!Extract

(* Nothing is parsed at first.                                             *)
LEMMA VerdictInit == RC!Init => VerdictInv
<1> SUFFICES ASSUME RC!Init PROVE VerdictInv
  OBVIOUS
<1>1. \A a \in RemoteAgents : ~ parsing[a].busy /\ ~ rcOutcome[a].busy
  BY DEF RC!Init, RC!Nothing
<1>2. channel \in [RemoteAgents -> Seq(ConfigEvents)]
  BY DEF RC!Init
<1>3. /\ latest \in Nat /\ verifier \in 1..latest
      /\ DOMAIN parsing = RemoteAgents /\ DOMAIN rcOutcome = RemoteAgents
  BY DEF RC!Init
<1>4. QED
  BY <1>1, <1>2, <1>3 DEF VerdictInv

(* Every step keeps the invariant.                                         *)
LEMMA VerdictStep == VerdictInv /\ [RC!Next]_RC!vars => VerdictInv'
<1> SUFFICES ASSUME VerdictInv, [RC!Next]_RC!vars PROVE VerdictInv'
  OBVIOUS
<1>1. CASE UNCHANGED RC!vars
  BY <1>1 DEF RC!vars, VerdictInv
<1>2. ASSUME NEW a \in RemoteAgents, NEW m \in Messages, RC!OnMessage(a, m)
      PROVE  VerdictInv'
  BY <1>2, OnMessageStep
<1>3. ASSUME NEW a \in RemoteAgents,
             \/ RC!Take(a) \/ RC!Failed(a) \/ RC!Validate(a) \/ RC!Extract(a)
             \/ \E c \in RC!Left(a) : RC!Verify(a, c) \/ RC!TryAppend(a, c)
      PROVE  VerdictInv'
  BY <1>3, TakeEventStep, FailedStep, ValidateStep, ExtractStep, VerifyStep, TryAppendStep
<1>4. QED
  BY <1>1, <1>2, <1>3, RotateStep DEF RC!Next

(* No parse gets to its extraction, and none is accepted, with an agent    *)
(* entry whose content is denied.                                          *)
AllowedInv ==
    \A a \in RemoteAgents :
        /\ parsing[a].busy /\ parsing[a].stage = "extract"
              => ~ RC!Denied(a, Of(parsing[a]).entries)
        /\ rcOutcome[a].busy /\ rcOutcome[a].accepted
              => ~ RC!Denied(a, rcOutcome[a].message.entries)

(* A parse that ends rejected, or with its message allowed, leaves what    *)
(* the others are at.                                                      *)
LEMMA FinishAllowed ==
    ASSUME VerdictInv, AllowedInv, NEW a \in RemoteAgents, NEW r, RC!Finish(a, r),
           r.accepted => ~ RC!Denied(a, r.message.entries)
    PROVE  AllowedInv'
<1>1. /\ parsing'[a] = RC!Nothing /\ rcOutcome'[a] = r
      /\ \A b \in RemoteAgents \ {a} :
           parsing'[b] = parsing[b] /\ rcOutcome'[b] = rcOutcome[b]
  BY DEF VerdictInv, RC!Finish
<1>2. ~ RC!Nothing.busy
  BY DEF RC!Nothing
<1>3. ASSUME NEW b \in RemoteAgents
      PROVE  /\ parsing'[b].busy /\ parsing'[b].stage = "extract"
                   => ~ RC!Denied(b, Of(parsing'[b]).entries)
             /\ rcOutcome'[b].busy /\ rcOutcome'[b].accepted
                   => ~ RC!Denied(b, rcOutcome'[b].message.entries)
  BY <1>1, <1>2 DEF AllowedInv
<1>4. QED
  BY <1>3 DEF AllowedInv

(* A rejection.                                                            *)
LEMMA RejectAllowed ==
    ASSUME VerdictInv, AllowedInv, NEW a \in RemoteAgents, NEW offline, RC!Reject(a, offline)
    PROVE  AllowedInv'
<1> DEFINE r == RC!Result(parsing[a], FALSE, <<>>, offline)
<1>1. ~ r.accepted
  BY DEF RC!Result
<1>2. RC!Finish(a, r)
  BY DEF RC!Reject
<1> HIDE DEF r
<1>3. QED
  BY <1>1, <1>2, FinishAllowed

(* A parse that goes on, its message allowed if it is at its extraction.   *)
LEMMA AdvanceAllowed ==
    ASSUME VerdictInv, AllowedInv, NEW a \in RemoteAgents, NEW q,
           parsing' = [parsing EXCEPT ![a] = q], rcOutcome' = rcOutcome,
           q.stage = "extract" => ~ RC!Denied(a, Of(q).entries)
    PROVE  AllowedInv'
<1>1. /\ parsing'[a] = q
      /\ \A b \in RemoteAgents \ {a} : parsing'[b] = parsing[b]
  BY DEF VerdictInv
<1>2. ASSUME NEW b \in RemoteAgents
      PROVE  /\ parsing'[b].busy /\ parsing'[b].stage = "extract"
                   => ~ RC!Denied(b, Of(parsing'[b]).entries)
             /\ rcOutcome'[b].busy /\ rcOutcome'[b].accepted
                   => ~ RC!Denied(b, rcOutcome'[b].message.entries)
  BY <1>1 DEF AllowedInv
<1>3. QED
  BY <1>2 DEF AllowedInv

(* Verify starts no extraction.                                            *)
LEMMA VerifyAllowed ==
    ASSUME VerdictInv, AllowedInv, NEW a \in RemoteAgents, NEW c, RC!Verify(a, c)
    PROVE  AllowedInv'
<1> DEFINE p == parsing[a]
           q == [p EXCEPT !.left = @ \ {c}]
<1>1. ParseInv(p, latest) /\ p.stage = "verify"
  BY AtParse DEF RC!Verify
<1>2. \/ RC!Reject(a, FALSE) \/ RC!Reject(a, TRUE)
      \/ parsing' = [parsing EXCEPT ![a].left = @ \ {c}] /\ rcOutcome' = rcOutcome
  BY DEF RC!Verify
<1>3. CASE parsing' = [parsing EXCEPT ![a].left = @ \ {c}] /\ rcOutcome' = rcOutcome
  <2>1. parsing' = [parsing EXCEPT ![a] = q]
    BY <1>3
  <2>2. q = RC!Parsing(p.stage, p.event, p.left \ {c}, p.latest, p.values)
    BY <1>1, ParsingExcept DEF ParseInv, ParseWellFormed
  <2>3. q.stage = "verify"
    BY <1>1, <2>2 DEF RC!Parsing
  <2> HIDE DEF q
  <2>4. QED
    BY <1>3, <2>1, <2>3, AdvanceAllowed
<1>4. QED
  BY <1>2, <1>3, RejectAllowed

(* The extraction starts once no agent entry is found denied.              *)
LEMMA ValidateAllowed ==
    ASSUME VerdictInv, AllowedInv, NEW a \in RemoteAgents, RC!Validate(a)
    PROVE  AllowedInv'
<1> DEFINE p == parsing[a]
           q == RC!Parsing("extract", p.event, DOMAIN p.event.entries \cap AgentEntries,
                           p.latest, <<>>)
<1>1. ParseInv(p, latest) /\ p.stage = "verify" /\ ~ p.event.failed
  BY AtParse DEF RC!Validate
<1>2. p.event.entries = Of(p).entries
  BY <1>1, EventIs DEF ParseInv, ParseWellFormed, Of
<1>3. CASE RC!Denied(a, p.event.entries)
  <2>1. RC!Reject(a, FALSE)
    BY <1>3 DEF RC!Validate
  <2>2. QED
    BY <2>1, RejectAllowed
<1>4. CASE ~ RC!Denied(a, p.event.entries)
  <2>1. parsing' = [parsing EXCEPT ![a] = q] /\ rcOutcome' = rcOutcome
    BY <1>4 DEF RC!Validate
  <2>2. Of(q) = Of(p)
    BY DEF RC!Parsing, Of
  <2>3. ~ RC!Denied(a, Of(p).entries)
    BY <1>2, <1>4
  <2> HIDE DEF q
  <2>4. QED
    BY <2>1, <2>2, <2>3, AdvanceAllowed
<1>5. QED
  BY <1>3, <1>4

(* An extraction goes on with the same message.                            *)
LEMMA TryAppendAllowed ==
    ASSUME VerdictInv, AllowedInv, NEW a \in RemoteAgents, NEW c, RC!TryAppend(a, c)
    PROVE  AllowedInv'
<1> DEFINE p == parsing[a]
           q == RC!Parsing("extract", p.event, p.left \ {c}, p.latest,
                           RC!MergeOverride(p.values, p.event.entries[c]))
<1>1. ~ RC!Denied(a, Of(p).entries)
  BY DEF RC!TryAppend, RC!At, RC!Idle, AllowedInv
<1>2. RC!Reject(a, FALSE) \/ (parsing' = [parsing EXCEPT ![a] = q] /\ rcOutcome' = rcOutcome)
  BY DEF RC!TryAppend
<1>3. Of(q) = Of(p)
  BY DEF RC!Parsing, Of
<1> HIDE DEF q
<1>4. QED
  BY <1>1, <1>2, <1>3, RejectAllowed, AdvanceAllowed

(* ... and what it accepts is that message.                                *)
LEMMA ExtractAllowed ==
    ASSUME VerdictInv, AllowedInv, NEW a \in RemoteAgents, RC!Extract(a)
    PROVE  AllowedInv'
<1> DEFINE p == parsing[a]
           Accept(vs) == RC!Result(p, TRUE, vs, FALSE)
<1>1. ~ RC!Denied(a, Of(p).entries)
  BY DEF RC!Extract, RC!At, RC!Idle, AllowedInv
<1>2. RC!Reject(a, FALSE) \/ \E vs : RC!Finish(a, Accept(vs))
  BY DEF RC!Extract
<1>3. \A vs : Accept(vs).message = Of(p)
  BY DEF RC!Result, Of
<1> HIDE DEF Accept
<1>4. QED
  BY <1>1, <1>2, <1>3, RejectAllowed, FinishAllowed

(* A message or another key changes no stage.                              *)
LEMMA RotateAllowed ==
    ASSUME VerdictInv, AllowedInv, RC!Rotate
    PROVE  AllowedInv'
<1>1. rcOutcome' = rcOutcome
  BY DEF RC!Rotate
<1>2. ASSUME NEW a \in RemoteAgents, parsing'[a].busy, parsing'[a].stage = "extract"
      PROVE  ~ RC!Denied(a, Of(parsing'[a]).entries)
  <2> DEFINE p == parsing[a]
             q == [p EXCEPT !.latest = p.latest \cup {latest + 1}]
  <2>1. parsing'[a] = IF ~ p.busy THEN RC!Nothing ELSE q
    BY DEF RC!Rotate, RC!Idle
  <2>2. p.busy
    BY <1>2, <2>1 DEF RC!Nothing
  <2>3. ParseInv(p, latest)
    BY <2>2 DEF VerdictInv
  <2>4. q = RC!Parsing(p.stage, p.event, p.left, p.latest \cup {latest + 1}, p.values)
    BY <2>3, ParsingExcept DEF ParseInv, ParseWellFormed
  <2>5. q.stage = p.stage /\ Of(q) = Of(p)
    BY <2>4 DEF RC!Parsing, Of
  <2> HIDE DEF q
  <2>6. parsing'[a] = q
    BY <2>1, <2>2
  <2>7. QED
    BY <1>2, <2>2, <2>5, <2>6 DEF AllowedInv
<1>3. QED
  BY <1>1, <1>2 DEF AllowedInv

(* The runtime takes an event to verify it.                                *)
LEMMA TakeAllowed ==
    ASSUME VerdictInv, AllowedInv, NEW a \in RemoteAgents, RC!Take(a)
    PROVE  AllowedInv'
<1> DEFINE q == RC!Parsing("verify", Head(channel[a]), DOMAIN Head(channel[a]).entries,
                           {latest}, <<>>)
<1>1. parsing' = [parsing EXCEPT ![a] = q] /\ rcOutcome' = rcOutcome
  BY DEF RC!Take
<1>2. q.stage = "verify"
  BY DEF RC!Parsing
<1> HIDE DEF q
<1>3. QED
  BY <1>1, <1>2, AdvanceAllowed

(* Every step keeps it.                                                    *)
LEMMA AllowedStep == VerdictInv /\ AllowedInv /\ [RC!Next]_RC!vars => AllowedInv'
<1> SUFFICES ASSUME VerdictInv, AllowedInv, [RC!Next]_RC!vars PROVE AllowedInv'
  OBVIOUS
<1>1. CASE UNCHANGED RC!vars
  BY <1>1 DEF RC!vars, AllowedInv
<1>2. ASSUME NEW a \in RemoteAgents, NEW m \in Messages, RC!OnMessage(a, m)
      PROVE  AllowedInv'
  BY <1>2 DEF RC!OnMessage, AllowedInv
<1>3. ASSUME NEW a \in RemoteAgents, RC!Failed(a)
      PROVE  AllowedInv'
  BY <1>3, RejectAllowed DEF RC!Failed
<1>4. ASSUME NEW a \in RemoteAgents,
             \/ RC!Take(a) \/ RC!Failed(a) \/ RC!Validate(a) \/ RC!Extract(a)
             \/ \E c \in RC!Left(a) : RC!Verify(a, c) \/ RC!TryAppend(a, c)
      PROVE  AllowedInv'
  BY <1>3, <1>4, TakeAllowed, ValidateAllowed, ExtractAllowed, VerifyAllowed, TryAppendAllowed
<1>5. QED
  BY <1>1, <1>2, <1>4, RotateAllowed DEF RC!Next

(* Whatever messages Fleet sends, however often it changes its key, and    *)
(* however the parses of the agents interleave on the verifier they share: *)
(* a configuration that is accepted is signed by Fleet, has no agent entry *)
(* with denied content, and has the values of its entries, the override's  *)
(* first; and one that is signed with the current key is rejected only for *)
(* its content or for want of the key server.                              *)
THEOREM VerdictRightCorrect ==
    RC!Spec => []VerdictRight
<1>1. RC!Init => AllowedInv
  BY DEF RC!Init, RC!Nothing, AllowedInv
<1>2. ASSUME NEW a, NEW m, RC!Readable(m), ~ RC!Denied(a, m.entries)
      PROVE  RC!Allowed(a, m)
  BY <1>2 DEF RC!Readable, RC!Valued, RC!Denied, RC!Allowed
<1>3. VerdictInv /\ AllowedInv => VerdictRight
  BY <1>2
  DEF VerdictInv, AllowedInv, OutcomeInv, VerdictRight, RC!VerdictRight, RC!AcceptedRight
<1>4. QED
  BY <1>1, <1>3, VerdictInit, VerdictStep, AllowedStep, PTL DEF RC!Spec

-----------------------------------------------------------------------------
(* Agent types: AgentTypes.                                                *)

(* The values of a recursive definition, each computed from the one before *)
(* it, up to the k-th.                                                     *)
Computes(g, a, F, k) ==
    g[0] = a /\ \A i \in DOMAIN F : i <= k => g[i] = F[i][g[i - 1]]

(* Such a definition over 0..m is one of a function.                       *)
LEMMA RecursionExists ==
    ASSUME NEW m \in Nat, NEW Y, NEW a \in Y, NEW F \in [1..m -> [Y -> Y]]
    PROVE  \E g \in [0..m -> Y] : Computes(g, a, F, m)
<1> DEFINE S == {k \in Nat : \E g \in [0..m -> Y] : Computes(g, a, F, k)}
<1>1. 0 \in S
  <2> DEFINE z == [i \in 0..m |-> a]
  <2>1. z \in [0..m -> Y] /\ Computes(z, a, F, 0)
    BY DEF Computes
  <2> HIDE DEF z
  <2>2. QED
    BY <2>1
<1>2. ASSUME NEW k \in S PROVE k + 1 \in S
  <2>1. PICK g \in [0..m -> Y] : Computes(g, a, F, k)
    BY <1>2
  <2>2. k \in Nat
    BY <1>2
  <2>3. \E h \in [0..m -> Y] : Computes(h, a, F, k + 1)
    <3>1. CASE k + 1 > m
      <4>1. Computes(g, a, F, k + 1)
        BY <2>1, <2>2, <3>1 DEF Computes
      <4>2. QED
        BY <4>1
    <3>2. CASE k + 1 <= m
      <4> DEFINE h == [g EXCEPT ![k + 1] = F[k + 1][g[k]]]
      <4>1. k + 1 \in 1..m /\ k \in 0..m /\ k + 1 \in 0..m
        BY <2>2, <3>2
      <4>2. F[k + 1][g[k]] \in Y
        BY <4>1
      <4>3. h \in [0..m -> Y]
        BY <4>1, <4>2
      <4>4. h[0] = a
        BY <4>1, <2>1 DEF Computes
      <4>5. ASSUME NEW i \in 1..m, i <= k + 1 PROVE h[i] = F[i][h[i - 1]]
        <5>1. i - 1 \in 0..m /\ i \in 0..m /\ i - 1 # k + 1
          BY <4>5, <4>1, <2>2
        <5>2. h[i - 1] = g[i - 1]
          BY <5>1, <4>1
        <5>3. CASE i = k + 1
          BY <5>1, <5>2, <5>3, <4>1, <2>2
        <5>4. CASE i # k + 1
          BY <5>1, <5>2, <5>4, <4>1, <4>5, <2>1, <2>2 DEF Computes
        <5>5. QED
          BY <5>3, <5>4
      <4> HIDE DEF h
      <4>6. Computes(h, a, F, k + 1)
        BY <4>4, <4>5 DEF Computes
      <4>7. QED
        BY <4>3, <4>6
    <3>3. QED
      BY <3>1, <3>2, <2>2
  <2>4. QED
    BY <2>2, <2>3
<1>3. S = Nat
  BY <1>1, <1>2, SetInduction
<1>4. m \in S
  BY <1>3
<1>5. QED
  BY <1>4

(* The texts of a sequence, one after the other.                           *)
LEMMA JoinedIs ==
    ASSUME NEW X, NEW texts \in Seq(Seq(X))
    PROVE  /\ AT!JoinedUpTo(texts) \in [0..Len(texts) -> Seq(X)]
           /\ AT!JoinedUpTo(texts)[0] = <<>>
           /\ \A i \in 1..Len(texts) :
                 AT!JoinedUpTo(texts)[i] = AT!JoinedUpTo(texts)[i - 1] \o texts[i]
<1> DEFINE Y == Seq(X)
           m == Len(texts)
           F == [i \in 1..m |-> [t \in Y |-> t \o texts[i]]]
<1>1. m \in Nat /\ \A i \in 1..m : texts[i] \in Seq(X)
  BY LenProperties, ElementOfSeq
<1>2. <<>> \in Y
  BY EmptySeq
<1>3. F \in [1..m -> [Y -> Y]]
  BY <1>1, ConcatProperties
<1>4. PICK g \in [0..m -> Y] : Computes(g, <<>>, F, m)
  <2> HIDE DEF F, m, Y
  <2> QED BY <1>1, <1>2, <1>3, RecursionExists
<1>5. ASSUME NEW i \in 1..m PROVE g[i - 1] \in Y /\ g[i] = g[i - 1] \o texts[i]
  <2>1. i - 1 \in 0..m /\ i <= m
    BY <1>1
  <2>2. g[i - 1] \in Y
    BY <2>1
  <2>3. g[i] = F[i][g[i - 1]]
    BY <2>1, <1>4 DEF Computes
  <2> HIDE DEF Y, m
  <2>4. QED
    BY <2>2, <2>3
<1>a. g[0] = <<>>
  BY <1>4 DEF Computes
<1>6. g = [i \in 0..m |-> IF i = 0 THEN <<>> ELSE g[i - 1] \o texts[i]]
  <2> DEFINE e == [i \in 0..m |-> IF i = 0 THEN <<>> ELSE g[i - 1] \o texts[i]]
  <2>1. ASSUME NEW i \in 0..m PROVE g[i] = e[i]
    <3>1. CASE i = 0
      BY <3>1, <1>a
    <3>2. CASE i # 0
      <4>1. i \in 1..m
        BY <3>2, <1>1
      <4> HIDE DEF m
      <4>2. QED
        BY <4>1, <3>2, <1>5
    <3>3. QED
      BY <3>1, <3>2
  <2>2. DOMAIN e = 0..m
    OBVIOUS
  <2>3. e = [i \in 0..m |-> e[i]] /\ g = [i \in 0..m |-> g[i]]
    OBVIOUS
  <2> HIDE DEF e, m, Y, F
  <2>4. g = e
    BY <2>1, <2>3
  <2>5. QED
    BY <2>4 DEF e
<1> DEFINE J == AT!JoinedUpTo(texts)
<1>7. J = [i \in 0..m |-> IF i = 0 THEN <<>> ELSE J[i - 1] \o texts[i]]
  BY <1>6 DEF AT!JoinedUpTo
<1> HIDE DEF J
<1>8. J[0] = <<>> /\ \A i \in 1..m : J[i] = J[i - 1] \o texts[i]
  <2> DEFINE e(i) == IF i = 0 THEN <<>> ELSE J[i - 1] \o texts[i]
  <2>1. \A i \in 0..m : J[i] = e(i)
    <3> HIDE DEF e, m
    <3> QED BY <1>7, Zenon DEF e
  <2>2. \A i \in 1..m : i \in 0..m /\ i # 0
    BY <1>1
  <2>3. 0 \in 0..m
    BY <1>1
  <2> HIDE DEF m
  <2>4. QED
    BY <2>1, <2>2, <2>3
<1> DEFINE S == {k \in Nat : k \in 0..m => J[k] = g[k]}
<1>9. S = Nat
  <2>1. 0 \in S
    BY <1>8, <1>a
  <2>2. ASSUME NEW k \in S PROVE k + 1 \in S
    <3>1. SUFFICES ASSUME k + 1 \in 0..m PROVE J[k + 1] = g[k + 1]
      BY <2>2
    <3>2. k \in 0..m /\ k + 1 \in 1..m /\ (k + 1) - 1 = k
      BY <3>1, <1>1, <2>2
    <3>3. J[k] = g[k]
      BY <3>2, <2>2
    <3>4. QED
      BY <3>2, <3>3, <1>8, <1>5
  <2>3. QED
    BY <2>1, <2>2, SetInduction
<1>10. \A k \in 0..m : J[k] = g[k]
  BY <1>9, <1>1
<1>11. J \in [0..m -> Seq(X)]
  <2> HIDE DEF S
  <2>1. J = [k \in 0..m |-> J[k]]
    BY <1>7
  <2>2. \A k \in 0..m : J[k] \in Seq(X)
    BY <1>10
  <2> QED BY <2>1, <2>2
<1>12. QED
  BY <1>8, <1>11 DEF J
(* What is joined up to a text depends on the texts up to it.              *)
LEMMA JoinedAgree ==
    ASSUME NEW X, NEW a \in Seq(Seq(X)), NEW b \in Seq(Seq(X)), NEW m \in Nat,
           m <= Len(a), m <= Len(b), \A i \in 1..m : a[i] = b[i]
    PROVE  \A k \in 0..m : AT!JoinedUpTo(a)[k] = AT!JoinedUpTo(b)[k]
<1> DEFINE J(t) == AT!JoinedUpTo(t)
           S == {k \in Nat : k <= m => J(a)[k] = J(b)[k]}
<1>0. Len(a) \in Nat /\ Len(b) \in Nat
  BY LenProperties
<1>1. 0 \in S
  BY JoinedIs
<1>2. ASSUME NEW k \in S, k + 1 <= m PROVE J(a)[k + 1] = J(b)[k + 1]
  <2>1. k \in Nat /\ k + 1 \in 1..Len(a) /\ k + 1 \in 1..Len(b) /\ k + 1 \in 1..m
    BY <1>2, <1>0
  <2>2. J(a)[k + 1] = J(a)[(k + 1) - 1] \o a[k + 1]
    BY <2>1, JoinedIs
  <2>3. J(b)[k + 1] = J(b)[(k + 1) - 1] \o b[k + 1]
    BY <2>1, JoinedIs
  <2>4. (k + 1) - 1 = k /\ J(a)[k] = J(b)[k]
    BY <1>2, <2>1
  <2> HIDE DEF J
  <2>5. QED
    BY <2>1, <2>2, <2>3, <2>4
<1>3. \A k \in S : k + 1 \in S
  BY <1>2
<1>4. S = Nat
  BY <1>1, <1>3, SetInduction
<1>5. QED
  BY <1>4

(* The concatenation of texts over X is a text over X.                     *)
LEMMA ConcatIn ==
    ASSUME NEW X, NEW texts \in Seq(Seq(X)) PROVE AT!Concat(texts) \in Seq(X)
<1>1. Len(texts) \in 0..Len(texts)
  BY LenProperties
<1>2. QED
  BY <1>1, JoinedIs DEF AT!Concat

(* A sequence of texts after another one.                                  *)
LEMMA ConcatConcat ==
    ASSUME NEW X, NEW a \in Seq(Seq(X)), NEW b \in Seq(Seq(X))
    PROVE  AT!Concat(a \o b) = AT!Concat(a) \o AT!Concat(b)
<1> DEFINE J(t) == AT!JoinedUpTo(t)
           c == a \o b
           la == Len(a)
           lb == Len(b)
           P(k) == k <= lb => J(c)[la + k] = J(a)[la] \o J(b)[k]
<1>0. la \in Nat /\ lb \in Nat
  BY LenProperties
<1>c. /\ c \in Seq(Seq(X)) /\ Len(c) = la + lb
      /\ \A i \in 1..la + lb : c[i] = IF i <= la THEN a[i] ELSE b[i - la]
  BY ConcatProperties
<1>J. /\ J(a) \in [0..la -> Seq(X)] /\ J(b) \in [0..lb -> Seq(X)]
      /\ J(c) \in [0..la + lb -> Seq(X)] /\ J(b)[0] = <<>>
  <2> HIDE DEF c
  <2> QED BY <1>c, JoinedIs
<1>s. /\ \A i \in 1..lb : J(b)[i] = J(b)[i - 1] \o b[i] /\ b[i] \in Seq(X)
      /\ \A i \in 1..la + lb : J(c)[i] = J(c)[i - 1] \o c[i]
  <2> HIDE DEF c
  <2> QED BY <1>c, JoinedIs, ElementOfSeq
<1>assoc. \A u, v, w \in Seq(X) : (u \o v) \o w = u \o (v \o w)
  BY ConcatAssociative
<1>a. J(c)[la] = J(a)[la] /\ J(a)[la] \in Seq(X)
  <2>1. \A i \in 1..la : a[i] = c[i]
    <3> HIDE DEF c, la, lb
    <3> QED BY <1>0, <1>c
  <2>2. la <= Len(c) /\ la <= Len(a)
    BY <1>0, <1>c
  <2> HIDE DEF c, la
  <2>3. \A k \in 0..la : AT!JoinedUpTo(a)[k] = AT!JoinedUpTo(c)[k]
    BY <1>0, <1>c, <2>1, <2>2, JoinedAgree
  <2>4. la \in 0..la
    BY <1>0
  <2>5. QED
    BY <2>3, <2>4, <1>J
<1> HIDE DEF J, c, la, lb
<1>1. P(0)
  <2>1. J(a)[la] \o <<>> = J(a)[la] /\ la + 0 = la
    BY <1>a, <1>0, ConcatEmptySeq
  <2>2. QED
    BY <1>a, <1>J, <2>1
<1>2. ASSUME NEW k \in Nat, P(k), k + 1 <= lb
      PROVE J(c)[la + (k + 1)] = J(a)[la] \o J(b)[k + 1]
  <2>1. /\ k + 1 \in 1..lb /\ la + (k + 1) \in 1..la + lb
        /\ (k + 1) - 1 = k /\ (la + (k + 1)) - 1 = la + k /\ k \in 0..lb /\ k <= lb
        /\ (la + (k + 1)) - la = k + 1 /\ ~(la + (k + 1) <= la)
    BY <1>2, <1>0
  <2>2. J(c)[la + (k + 1)] = J(c)[(la + (k + 1)) - 1] \o c[la + (k + 1)]
    BY <2>1, <1>s
  <2>3. c[la + (k + 1)] = b[k + 1]
    BY <2>1, <1>c
  <2>4. J(b)[k + 1] = J(b)[(k + 1) - 1] \o b[k + 1]
    BY <2>1, <1>s
  <2>5. J(c)[la + k] = J(a)[la] \o J(b)[k]
    BY <1>2, <2>1
  <2>6. b[k + 1] \in Seq(X) /\ J(b)[k] \in Seq(X)
    BY <2>1, <1>J, <1>s
  <2>7. (J(a)[la] \o J(b)[k]) \o b[k + 1] = J(a)[la] \o (J(b)[k] \o b[k + 1])
    BY <2>6, <1>a, <1>assoc
  <2>8. QED
    BY <2>1, <2>2, <2>3, <2>4, <2>5, <2>7
<1>3. \A k \in Nat : P(k) => P(k + 1)
  BY <1>2
<1> HIDE DEF P
<1>4. \A k \in Nat : P(k)
  <2> DEFINE S == {k \in Nat : P(k)}
  <2>1. S \subseteq Nat /\ 0 \in S /\ \A k \in S : k + 1 \in S
    BY <1>1, <1>3
  <2> HIDE DEF S
  <2>2. S = Nat
    BY <2>1, SetInduction
  <2>3. QED
    BY <2>2 DEF S
<1>5. P(lb)
  BY <1>4, <1>0
<1>6. J(c)[la + lb] = J(a)[la] \o J(b)[lb]
  <2>1. lb <= lb
    BY <1>0
  <2>2. QED
    BY <1>5, <2>1, Zenon DEF P
<1>7. QED
  BY <1>6, <1>c DEF AT!Concat, J, c, la, lb

(* One text alone, and none.                                               *)
LEMMA ConcatOne ==
    ASSUME NEW X, NEW t \in Seq(X)
    PROVE  AT!Concat(<<t>>) = t /\ AT!Concat(<<>>) = <<>>
<1> DEFINE u == <<t>>
<1>1. u \in Seq(Seq(X)) /\ Len(u) = 1 /\ u[1] = t /\ 1 \in 1..1 /\ 1 - 1 = 0
  OBVIOUS
<1>2. <<>> \o t = t
  BY ConcatEmptySeq
<1> HIDE DEF u
<1>3. AT!JoinedUpTo(u)[0] = <<>> /\ AT!JoinedUpTo(u)[1] = AT!JoinedUpTo(u)[1 - 1] \o u[1]
  BY <1>1, JoinedIs
<1>4. AT!Concat(u) = t
  BY <1>1, <1>2, <1>3 DEF AT!Concat
<1>5. <<>> \in Seq(Seq(X)) /\ Len(<<>>) = 0
  OBVIOUS
<1>6. AT!Concat(<<>>) = <<>>
  BY <1>5, JoinedIs DEF AT!Concat
<1>7. QED
  BY <1>4, <1>6 DEF u

(* The pieces of a text one by one.                                        *)
LEMMA ConcatPieces ==
    ASSUME NEW X, NEW t \in Seq(X), NEW f, f = [i \in 1..Len(t) |-> <<t[i]>>]
    PROVE  AT!Concat(f) = t
<1> DEFINE J == AT!JoinedUpTo(f)
           P(k) == k <= Len(t) => J[k] = SubSeq(t, 1, k)
<1>0. /\ Len(t) \in Nat /\ f \in Seq(Seq(X)) /\ Len(f) = Len(t)
      /\ \A i \in 1..Len(t) : t[i] \in X /\ f[i] = <<t[i]>>
  <2>1. Len(t) \in Nat /\ \A i \in 1..Len(t) : t[i] \in X
    BY LenProperties, ElementOfSeq
  <2>2. \A i \in 1..Len(t) : <<t[i]>> \in Seq(X)
    BY <2>1
  <2>3. f \in [1..Len(t) -> Seq(X)]
    BY <2>2
  <2>4. f \in Seq(Seq(X)) /\ Len(f) = Len(t)
    BY <2>1, <2>3
  <2>5. QED
    BY <2>1, <2>4
<1>1. P(0)
  <2>1. SubSeq(t, 1, 0) = <<>>
    BY SubSeqEmpty
  <2>2. QED
    BY <1>0, <2>1, JoinedIs
<1>2. ASSUME NEW k \in Nat, P(k), k + 1 <= Len(t) PROVE J[k + 1] = SubSeq(t, 1, k + 1)
  <2>1. k \in Nat /\ k + 1 \in 1..Len(t) /\ (k + 1) - 1 = k
    BY <1>2, <1>0
  <2>2. J[k + 1] = J[k] \o <<t[k + 1]>>
    <3>1. J[k + 1] = J[(k + 1) - 1] \o f[k + 1]
      BY <2>1, <1>0, JoinedIs
    <3> HIDE DEF J
    <3>2. QED
      BY <3>1, <2>1, <1>0
  <2>3. J[k] = SubSeq(t, 1, k)
    BY <1>2, <2>1, <1>0
  <2>4. SubSeq(t, 1, k + 1) = SubSeq(t, 1, k) \o <<t[k + 1]>>
    <3>1. 1 \in 1..Len(t) /\ k + 1 \in 1..Len(t)
      BY <2>1, <1>0
    <3>2. SubSeq(t, 1, k + 1) = SubSeq(t, 1, (k + 1) - 1) \o <<t[k + 1]>>
      BY <3>1, SubSeqRecursiveSecond
    <3>3. QED
      BY <3>2, <2>1
  <2> HIDE DEF J
  <2>5. QED
    BY <2>2, <2>3, <2>4
<1> HIDE DEF J
<1>3. \A k \in Nat : P(k) => P(k + 1)
  BY <1>2
<1> HIDE DEF P
<1>4. \A k \in Nat : P(k)
  <2> DEFINE S == {k \in Nat : P(k)}
  <2>1. S \subseteq Nat /\ 0 \in S /\ \A k \in S : k + 1 \in S
    BY <1>1, <1>3
  <2> HIDE DEF S
  <2>2. S = Nat
    BY <2>1, SetInduction
  <2>3. QED
    BY <2>2 DEF S
<1>5. P(Len(t))
  BY <1>4, <1>0
<1>6. J[Len(t)] = SubSeq(t, 1, Len(t)) /\ SubSeq(t, 1, Len(t)) = t
  BY <1>5, <1>0, SubSeqFull DEF P
<1>7. QED
  BY <1>0, <1>6 DEF AT!Concat, J

(* The texts that take the place of the pieces when one is replaced.       *)
Places(t, piece, by) ==
    [i \in 1..Len(t) |-> IF t[i] = piece THEN by ELSE <<t[i]>>]

(* A replacement is the concatenation of what stands at each place.        *)
LEMMA PlacesAre ==
    ASSUME NEW X, NEW t \in Seq(X), NEW piece, NEW by \in Seq(X)
    PROVE  /\ Places(t, piece, by) \in Seq(Seq(X))
           /\ Len(Places(t, piece, by)) = Len(t)
           /\ AT!Replace(t, piece, by) = AT!Concat(Places(t, piece, by))
<1> DEFINE f == Places(t, piece, by)
<1>1. Len(t) \in Nat /\ DOMAIN t = 1..Len(t) /\ \A i \in 1..Len(t) : t[i] \in X
  BY LenProperties, ElementOfSeq
<1>2. \A i \in 1..Len(t) : <<t[i]>> \in Seq(X)
  BY <1>1
<1>3. f \in [1..Len(t) -> Seq(X)]
  BY <1>2 DEF Places
<1>4. f \in Seq(Seq(X)) /\ Len(f) = Len(t)
  BY <1>1, <1>3
<1>5. AT!Replace(t, piece, by) = AT!Concat(f)
  BY <1>1 DEF AT!Replace, Places
<1>6. QED
  BY <1>4, <1>5

(* A replacement in a text over X is a text over X.                        *)
LEMMA ReplaceIn ==
    ASSUME NEW X, NEW t \in Seq(X), NEW piece, NEW by \in Seq(X)
    PROVE  AT!Replace(t, piece, by) \in Seq(X)
BY PlacesAre, ConcatIn

(* A piece is replaced in a text by replacing it in its parts.             *)
LEMMA ReplaceParts ==
    ASSUME NEW X, NEW a \in Seq(X), NEW b \in Seq(X), NEW piece, NEW by \in Seq(X)
    PROVE  AT!Replace(a \o b, piece, by) =
             AT!Replace(a, piece, by) \o AT!Replace(b, piece, by)
<1> DEFINE c == a \o b
           P(t) == Places(t, piece, by)
<1>0. /\ Len(a) \in Nat /\ Len(b) \in Nat /\ c \in Seq(X) /\ Len(c) = Len(a) + Len(b)
      /\ \A i \in 1..Len(a) + Len(b) : c[i] = IF i <= Len(a) THEN a[i] ELSE b[i - Len(a)]
  BY LenProperties, ConcatProperties
<1>1. /\ P(a) \in Seq(Seq(X)) /\ P(b) \in Seq(Seq(X)) /\ P(c) \in Seq(Seq(X))
      /\ Len(P(a)) = Len(a) /\ Len(P(b)) = Len(b) /\ Len(P(c)) = Len(c)
  <2> HIDE DEF c
  <2>1. \A t \in Seq(X) : P(t) \in Seq(Seq(X)) /\ Len(P(t)) = Len(t)
    BY PlacesAre
  <2> HIDE DEF P
  <2>2. QED
    BY <1>0, <2>1
<1>2. /\ P(a) \o P(b) \in Seq(Seq(X))
      /\ Len(P(a) \o P(b)) = Len(a) + Len(b)
      /\ \A i \in 1..Len(a) + Len(b) : (P(a) \o P(b))[i] =
            IF i <= Len(a) THEN P(a)[i] ELSE P(b)[i - Len(a)]
  <2> DEFINE u == P(a)
             w == P(b)
  <2>1. u \in Seq(Seq(X)) /\ w \in Seq(Seq(X)) /\ Len(u) = Len(a) /\ Len(w) = Len(b)
    BY <1>1
  <2> HIDE DEF u, w
  <2>2. /\ u \o w \in Seq(Seq(X)) /\ Len(u \o w) = Len(a) + Len(b)
        /\ \A i \in 1..Len(a) + Len(b) : (u \o w)[i] =
              IF i <= Len(a) THEN u[i] ELSE w[i - Len(a)]
    <3>1. /\ u \o w \in Seq(Seq(X)) /\ Len(u \o w) = Len(u) + Len(w)
          /\ \A i \in 1..Len(u) + Len(w) : (u \o w)[i] =
                IF i <= Len(u) THEN u[i] ELSE w[i - Len(u)]
      BY <2>1, ConcatProperties, Zenon
    <3>2. QED
      BY <2>1, <3>1
  <2>3. QED
    BY <2>2 DEF u, w
<1>3. ASSUME NEW i \in 1..Len(a) + Len(b) PROVE (P(a) \o P(b))[i] = P(c)[i]
  <2>1. CASE i <= Len(a)
    <3>1. i \in 1..Len(a)
      BY <2>1, <1>0
    <3>2. P(c)[i] = P(a)[i]
      BY <3>1, <1>0, <2>1 DEF Places
    <3> HIDE DEF P
    <3>3. QED
      BY <3>2, <1>2, <2>1
  <2>2. CASE ~(i <= Len(a))
    <3>1. i - Len(a) \in 1..Len(b)
      BY <2>2, <1>0
    <3>2. P(c)[i] = P(b)[i - Len(a)]
      BY <3>1, <1>0, <2>2 DEF Places
    <3> HIDE DEF P
    <3>3. QED
      BY <3>2, <1>2, <2>2
  <2>3. QED
    BY <2>1, <2>2
<1>4. P(a) \o P(b) = P(c)
  <2> HIDE DEF P, c
  <2> QED BY <1>0, <1>1, <1>2, <1>3, SeqEqual
<1>5. AT!Concat(P(a) \o P(b)) = AT!Concat(P(a)) \o AT!Concat(P(b))
  <2> HIDE DEF P
  <2> QED BY <1>1, ConcatConcat
<1>6. /\ AT!Replace(a, piece, by) = AT!Concat(P(a))
      /\ AT!Replace(b, piece, by) = AT!Concat(P(b))
      /\ AT!Replace(c, piece, by) = AT!Concat(P(c))
  <2> HIDE DEF c
  <2> QED BY <1>0, PlacesAre
<1> HIDE DEF P
<1>7. QED
  BY <1>4, <1>5, <1>6

(* A text without the piece stays, and one that is the piece is replaced.  *)
LEMMA ReplaceAbsent ==
    ASSUME NEW X, NEW t \in Seq(X), NEW piece, NEW by \in Seq(X),
           \A i \in 1..Len(t) : t[i] # piece
    PROVE  AT!Replace(t, piece, by) = t
<1>1. Places(t, piece, by) = [i \in 1..Len(t) |-> <<t[i]>>]
  BY DEF Places
<1>2. AT!Concat(Places(t, piece, by)) = t
  BY <1>1, ConcatPieces
<1>3. QED
  BY <1>2, PlacesAre

(* A replacement in a text of one piece.                                   *)
LEMMA ReplaceOne ==
    ASSUME NEW X, NEW x \in X, NEW piece, NEW by \in Seq(X)
    PROVE  AT!Replace(<<x>>, piece, by) = IF x = piece THEN by ELSE <<x>>
<1> DEFINE t == IF x = piece THEN by ELSE <<x>>
           u == <<x>>
           p == Places(u, piece, by)
           w == <<t>>
<1>1. u \in Seq(X) /\ Len(u) = 1 /\ u[1] = x /\ t \in Seq(X) /\ 1 \in 1..1
  OBVIOUS
<1>2. w \in Seq(Seq(X)) /\ Len(w) = 1 /\ w[1] = t
  <2> HIDE DEF t
  <2> QED BY <1>1
<1> HIDE DEF u, w
<1>3. p \in Seq(Seq(X)) /\ Len(p) = 1 /\ AT!Replace(u, piece, by) = AT!Concat(p)
  BY <1>1, PlacesAre
<1>4. p[1] = t
  BY <1>1 DEF Places, u
<1> HIDE DEF t, p
<1>5. \A i \in 1..Len(p) : p[i] = w[i]
  BY <1>2, <1>3, <1>4
<1>6. p = w
  BY <1>2, <1>3, <1>5, SeqEqual
<1>7. AT!Concat(<<t>>) = t
  BY <1>1, ConcatOne
<1>8. QED
  BY <1>3, <1>6, <1>7 DEF t, u, w

(* A piece is replaced in the texts of a sequence one by one.              *)
LEMMA ReplaceEach ==
    ASSUME NEW X, NEW texts \in Seq(Seq(X)), NEW piece, NEW by \in Seq(X),
           NEW after \in Seq(Seq(X)), Len(after) = Len(texts),
           \A i \in 1..Len(texts) : after[i] = AT!Replace(texts[i], piece, by)
    PROVE  AT!Replace(AT!Concat(texts), piece, by) = AT!Concat(after)
<1> DEFINE J(t) == AT!JoinedUpTo(t)
           R(t) == AT!Replace(t, piece, by)
           P(k) == k <= Len(texts) => R(J(texts)[k]) = J(after)[k]
<1>0. /\ Len(texts) \in Nat
      /\ J(texts) \in [0..Len(texts) -> Seq(X)] /\ J(texts)[0] = <<>>
      /\ J(after)[0] = <<>>
      /\ \A i \in 1..Len(texts) : /\ J(texts)[i] = J(texts)[i - 1] \o texts[i]
                                  /\ J(after)[i] = J(after)[i - 1] \o after[i]
                                  /\ texts[i] \in Seq(X)
  BY LenProperties, JoinedIs, ElementOfSeq
<1>parts. \A u, w \in Seq(X) : R(u \o w) = R(u) \o R(w)
  BY ReplaceParts
<1>1. P(0)
  <2> DEFINE e == <<>>
  <2>1. e \in Seq(X) /\ \A i \in 1..Len(e) : FALSE
    BY EmptySeq
  <2> HIDE DEF e
  <2>2. R(e) = e
    BY <2>1, ReplaceAbsent
  <2> HIDE DEF R, J
  <2>3. QED
    BY <2>2, <1>0 DEF e
<1>2. ASSUME NEW k \in Nat, P(k), k + 1 <= Len(texts) PROVE R(J(texts)[k + 1]) = J(after)[k + 1]
  <2>1. k \in Nat /\ k + 1 \in 1..Len(texts) /\ (k + 1) - 1 = k /\ k \in 0..Len(texts)
    BY <1>2, <1>0
  <2> HIDE DEF J
  <2>2. J(texts)[k + 1] = J(texts)[k] \o texts[k + 1]
    BY <2>1, <1>0
  <2>3. J(after)[k + 1] = J(after)[k] \o R(texts[k + 1])
    BY <2>1, <1>0
  <2>4. R(J(texts)[k]) = J(after)[k]
    <3> HIDE DEF R
    <3> QED BY <1>2, <2>1
  <2>5. J(texts)[k] \in Seq(X) /\ texts[k + 1] \in Seq(X)
    BY <2>1, <1>0
  <2>6. R(J(texts)[k] \o texts[k + 1]) = R(J(texts)[k]) \o R(texts[k + 1])
    BY <2>5, <1>parts
  <2> HIDE DEF R
  <2>7. QED
    BY <2>2, <2>3, <2>4, <2>6
<1> HIDE DEF J, R
<1>3. \A k \in Nat : P(k) => P(k + 1)
  BY <1>2
<1> HIDE DEF P
<1>4. \A k \in Nat : P(k)
  <2> DEFINE S == {k \in Nat : P(k)}
  <2>1. S \subseteq Nat /\ 0 \in S /\ \A k \in S : k + 1 \in S
    BY <1>1, <1>3
  <2> HIDE DEF S
  <2>2. S = Nat
    BY <2>1, SetInduction
  <2>3. QED
    BY <2>2 DEF S
<1>5. P(Len(texts))
  BY <1>4, <1>0
<1>6. R(J(texts)[Len(texts)]) = J(after)[Len(texts)]
  BY <1>5, <1>0 DEF P
<1>7. QED
  BY <1>6 DEF AT!Concat, J, R

(* The values of the placeholders of a text are texts over X, without      *)
(* placeholders.                                                           *)
PlainValues(X, s, variables) ==
    \A i \in 1..Len(s) : AT!IsRef(s[i]) =>
        /\ AT!Value(s[i], variables) \in Seq(X)
        /\ \A k \in 1..Len(AT!Value(s[i], variables)) :
              ~ AT!IsRef(AT!Value(s[i], variables)[k])

(* The recursive definition of the replacement is one of a function.       *)
LEMMA ReplacedIs ==
    ASSUME NEW X, NEW s \in Seq(X), NEW variables, PlainValues(X, s, variables)
    PROVE  /\ AT!Replaced(s, variables)[0] = s
           /\ \A i \in 1..Len(s) :
                 AT!Replaced(s, variables)[i] =
                    IF AT!IsRef(s[i])
                    THEN AT!Replace(AT!Replaced(s, variables)[i - 1], s[i],
                                    AT!Value(s[i], variables))
                    ELSE AT!Replaced(s, variables)[i - 1]
<1> DEFINE Y == Seq(X)
           m == Len(s)
           V(i) == AT!Value(s[i], variables)
           G(i, t) == IF AT!IsRef(s[i]) THEN AT!Replace(t, s[i], V(i)) ELSE t
           F == [i \in 1..m |-> [t \in Y |-> G(i, t)]]
<1>1. m \in Nat /\ \A i \in 1..m : AT!IsRef(s[i]) => V(i) \in Seq(X)
  BY LenProperties DEF PlainValues
<1>2. ASSUME NEW i \in 1..m, NEW t \in Y PROVE G(i, t) \in Y
  BY <1>1, ReplaceIn
<1> HIDE DEF G, Y, m
<1>3. F \in [1..m -> [Y -> Y]]
  BY <1>2
<1>4. PICK g \in [0..m -> Y] : Computes(g, s, F, m)
  <2> HIDE DEF F
  <2>1. s \in Y
    BY DEF Y
  <2>2. QED
    BY <1>1, <1>3, <2>1, RecursionExists
<1>5. ASSUME NEW i \in 1..m PROVE g[i] = G(i, g[i - 1])
  <2>1. i - 1 \in 0..m /\ i <= m
    BY <1>1
  <2>2. g[i - 1] \in Y
    BY <2>1
  <2>3. g[i] = F[i][g[i - 1]]
    BY <2>1, <1>4 DEF Computes
  <2>4. QED
    BY <2>2, <2>3
<1>6. g[0] = s
  BY <1>4 DEF Computes
<1>7. g = [i \in 0..m |-> IF i = 0 THEN s ELSE G(i, g[i - 1])]
  <2> DEFINE e == [i \in 0..m |-> IF i = 0 THEN s ELSE G(i, g[i - 1])]
  <2>1. ASSUME NEW i \in 0..m PROVE g[i] = e[i]
    <3>1. CASE i = 0
      BY <3>1, <1>6
    <3>2. CASE i # 0
      <4>1. i \in 1..m
        BY <3>2, <1>1
      <4>2. QED
        BY <4>1, <3>2, <1>5
    <3>3. QED
      BY <3>1, <3>2
  <2>2. e = [i \in 0..m |-> e[i]] /\ g = [i \in 0..m |-> g[i]]
    OBVIOUS
  <2> HIDE DEF e
  <2>3. g = e
    BY <2>1, <2>2
  <2>4. QED
    BY <2>3 DEF e
<1> DEFINE R == AT!Replaced(s, variables)
<1>8. R = [i \in 0..m |-> IF i = 0 THEN s ELSE G(i, R[i - 1])]
  <2>1. g = [i \in 0..m |-> IF i = 0 THEN s
                            ELSE IF AT!IsRef(s[i])
                            THEN AT!Replace(g[i - 1], s[i], AT!Value(s[i], variables))
                            ELSE g[i - 1]]
    BY <1>7 DEF G
  <2>2. R = [i \in 0..m |-> IF i = 0 THEN s
                            ELSE IF AT!IsRef(s[i])
                            THEN AT!Replace(R[i - 1], s[i], AT!Value(s[i], variables))
                            ELSE R[i - 1]]
    BY <2>1 DEF AT!Replaced, m
  <2>3. QED
    BY <2>2 DEF G
<1> HIDE DEF R
<1>9. R[0] = s /\ \A i \in 1..m : R[i] = G(i, R[i - 1])
  <2>1. \A i \in 1..m : i \in 0..m /\ i # 0
    BY <1>1
  <2>2. 0 \in 0..m
    BY <1>1
  <2>3. QED
    BY <1>8, <2>1, <2>2
<1>10. QED
  BY <1>9 DEF R, G, m

(* The text at each place once the first k placeholders were replaced.     *)
After(s, variables, k) ==
    [j \in 1..Len(s) |->
        IF AT!IsRef(s[j]) /\ (\E i \in 1..k : s[i] = s[j])
        THEN AT!Value(s[j], variables) ELSE <<s[j]>>]

(* What stands at each place after k replacements is a text.               *)
LEMMA AfterIs ==
    ASSUME NEW X, NEW s \in Seq(X), NEW variables, PlainValues(X, s, variables),
           NEW k
    PROVE  /\ After(s, variables, k) \in Seq(Seq(X))
           /\ Len(After(s, variables, k)) = Len(s)
<1> DEFINE f == After(s, variables, k)
<1>1. Len(s) \in Nat /\ \A i \in 1..Len(s) : s[i] \in X
  BY LenProperties, ElementOfSeq
<1>2. \A i \in 1..Len(s) : <<s[i]>> \in Seq(X)
  BY <1>1
<1>3. f \in [1..Len(s) -> Seq(X)]
  BY <1>2 DEF After, PlainValues
<1> HIDE DEF f
<1>4. f \in Seq(Seq(X)) /\ Len(f) = Len(s)
  BY <1>1, <1>3
<1>5. QED
  BY <1>4 DEF f

(* One more placeholder replaced.                                          *)
LEMMA AfterNext ==
    ASSUME NEW X, NEW s \in Seq(X), NEW variables, PlainValues(X, s, variables),
           NEW k \in Nat, k + 1 \in 1..Len(s)
    PROVE  AT!Concat(After(s, variables, k + 1)) =
             IF AT!IsRef(s[k + 1])
             THEN AT!Replace(AT!Concat(After(s, variables, k)), s[k + 1],
                             AT!Value(s[k + 1], variables))
             ELSE AT!Concat(After(s, variables, k))
<1> DEFINE V(i) == AT!Value(s[i], variables)
           A == After(s, variables, k)
           B == After(s, variables, k + 1)
           piece == s[k + 1]
           by == V(k + 1)
<1>0. /\ A \in Seq(Seq(X)) /\ B \in Seq(Seq(X)) /\ Len(A) = Len(s) /\ Len(B) = Len(s)
      /\ Len(s) \in Nat /\ \A i \in 1..Len(s) : s[i] \in X
  BY AfterIs, LenProperties, ElementOfSeq
<1>a. \A j \in 1..Len(s) :
         (\E i \in 1..(k + 1) : s[i] = s[j]) <=> (\E i \in 1..k : s[i] = s[j]) \/ s[j] = piece
  <2>1. \A i : i \in 1..(k + 1) <=> i \in 1..k \/ i = k + 1
    OBVIOUS
  <2>2. QED
    BY <2>1
<1>1. CASE ~ AT!IsRef(piece)
  <2>1. \A j \in 1..Len(s) : B[j] = A[j]
    BY <1>a, <1>1 DEF After
  <2> HIDE DEF A, B
  <2>2. A = B
    BY <2>1, <1>0, SeqEqual
  <2>3. QED
    BY <2>2, <1>1 DEF A, B
<1>2. CASE AT!IsRef(piece)
  <2>0. by \in Seq(X)
    BY <1>2 DEF PlainValues
  <2>1. ASSUME NEW j \in 1..Len(s) PROVE B[j] = AT!Replace(A[j], piece, by)
    <3>1. CASE AT!IsRef(s[j]) /\ \E i \in 1..k : s[i] = s[j]
      <4>1. A[j] = V(j) /\ B[j] = V(j)
        BY <3>1, <1>a DEF After
      <4>2. V(j) \in Seq(X) /\ \A i \in 1..Len(V(j)) : ~ AT!IsRef(V(j)[i])
        BY <3>1 DEF PlainValues
      <4>3. \A i \in 1..Len(V(j)) : V(j)[i] # piece
        BY <4>2, <1>2
      <4> HIDE DEF V, by, piece
      <4>4. AT!Replace(V(j), piece, by) = V(j)
        BY <4>2, <4>3, <2>0, ReplaceAbsent
      <4>5. QED
        BY <4>1, <4>4
    <3>2. CASE ~(AT!IsRef(s[j]) /\ \E i \in 1..k : s[i] = s[j])
      <4>1. A[j] = <<s[j]>>
        BY <3>2 DEF After
      <4>2. B[j] = IF s[j] = piece THEN by ELSE <<s[j]>>
        BY <3>2, <1>a, <1>2 DEF After
      <4>3. AT!Replace(<<s[j]>>, piece, by) = IF s[j] = piece THEN by ELSE <<s[j]>>
        <5>1. s[j] \in X
          BY <1>0
        <5> HIDE DEF V, by, piece
        <5>2. QED
          BY <5>1, <2>0, ReplaceOne
      <4> HIDE DEF A, B, by, piece
      <4>4. QED
        BY <4>1, <4>2, <4>3
    <3>3. QED
      BY <3>1, <3>2
  <2>2. AT!Replace(AT!Concat(A), piece, by) = AT!Concat(B)
    <3> HIDE DEF A, B, by, piece
    <3> QED BY <2>0, <2>1, <1>0, ReplaceEach
  <2>3. QED
    BY <2>2, <1>2
<1>3. QED
  BY <1>1, <1>2

(* The placeholders of a text, replaced one after the other wherever they  *)
(* stand, are replaced all at once if no value has placeholders itself.    *)
LEMMA ReplacedAtOnce ==
    ASSUME NEW X, NEW s \in Seq(X), NEW variables, PlainValues(X, s, variables)
    PROVE  AT!Replaced(s, variables)[Len(s)] = AT!Concat(After(s, variables, Len(s)))
<1> DEFINE R == AT!Replaced(s, variables)
           C(k) == AT!Concat(After(s, variables, k))
           S == {k \in Nat : k <= Len(s) => R[k] = C(k)}
<1>0. Len(s) \in Nat
  BY LenProperties
<1>1. 0 \in S
  <2>1. After(s, variables, 0) = [i \in 1..Len(s) |-> <<s[i]>>]
    <3>1. \A i : i \notin 1..0
      OBVIOUS
    <3>2. QED
      BY <3>1 DEF After
  <2>2. C(0) = s
    BY <2>1, ConcatPieces
  <2>3. R[0] = s
    BY ReplacedIs
  <2> HIDE DEF R, C
  <2>4. QED
    BY <2>2, <2>3
<1>2. ASSUME NEW k \in S, k + 1 <= Len(s) PROVE R[k + 1] = C(k + 1)
  <2>1. k \in Nat /\ k + 1 \in 1..Len(s) /\ (k + 1) - 1 = k
    BY <1>2, <1>0
  <2>2. R[k + 1] = IF AT!IsRef(s[k + 1])
                   THEN AT!Replace(R[(k + 1) - 1], s[k + 1], AT!Value(s[k + 1], variables))
                   ELSE R[(k + 1) - 1]
    BY <2>1, ReplacedIs
  <2>3. C(k + 1) = IF AT!IsRef(s[k + 1])
                   THEN AT!Replace(C(k), s[k + 1], AT!Value(s[k + 1], variables))
                   ELSE C(k)
    BY <2>1, AfterNext
  <2> HIDE DEF R, C
  <2>4. R[k] = C(k)
    BY <1>2, <2>1
  <2>5. QED
    BY <2>1, <2>2, <2>3, <2>4
<1> HIDE DEF R, C
<1>3. \A k \in S : k + 1 \in S
  BY <1>2
<1>4. S = Nat
  BY <1>1, <1>3, SetInduction
<1>5. R[Len(s)] = C(Len(s))
  BY <1>4, <1>0
<1>6. QED
  BY <1>5 DEF R, C

(* A text is a sequence over any set that has its pieces, and only they    *)
(* are texts.                                                              *)
LEMMA TextOver ==
    ASSUME NEW s, AT!IsText(s), NEW X, \A i \in DOMAIN s : s[i] \in X
    PROVE  s \in Seq(X)
<1>1. s \in Seq(AT!Range(s)) /\ AT!Range(s) \subseteq X
  BY DEF AT!IsText, AT!Range
<1>2. QED
  BY <1>1, SeqMonotonic

(* A sequence is a text.                                                   *)
LEMMA TextIs ==
    ASSUME NEW X, NEW s \in Seq(X) PROVE AT!IsText(s)
<1>1. Len(s) \in Nat /\ DOMAIN s = 1..Len(s) /\ s \in [1..Len(s) -> X]
  BY LenProperties
<1>2. s \in [1..Len(s) -> AT!Range(s)]
  BY <1>1 DEF AT!Range
<1>3. QED
  BY <1>1, <1>2 DEF AT!IsText

(* A text without placeholders.                                            *)
PlainText(t) == AT!IsText(t) /\ \A i \in DOMAIN t : ~ AT!IsRef(t[i])

(* A text without references is plain.                                     *)
LEMMA PlainTextIs ==
    ASSUME NEW t, AT!IsText(t), AT!RefsOf(t) = {} PROVE PlainText(t)
<1>1. \A i \in DOMAIN t : AT!IsRef(t[i]) => t[i].ref \in AT!RefsOf(t)
  BY DEF AT!RefsOf
<1>2. QED
  BY <1>1 DEF PlainText

(* A plain text has no references.                                         *)
LEMMA PlainTextHas ==
    ASSUME NEW t, PlainText(t) PROVE AT!IsText(t) /\ AT!RefsOf(t) = {}
BY DEF PlainText, AT!RefsOf

(* Functions bring no placeholders.                                        *)
LEMMA ApplyPlain ==
    ASSUME NEW t, PlainText(t), NEW fns PROVE PlainText(AT!ApplyFunctions(t, fns))
<1>1. CASE fns = <<>>
  BY <1>1 DEF AT!ApplyFunctions
<1>2. CASE fns # <<>>
  <2> DEFINE a == AT!ApplyFunctions(t, fns)
             Z == {AT!Indent(t[i], fns) : i \in DOMAIN t}
  <2>1. t \in Seq(AT!Range(t))
    BY DEF PlainText, AT!IsText
  <2>2. Len(t) \in Nat /\ DOMAIN t = 1..Len(t)
    BY <2>1, LenProperties
  <2>3. a = [i \in DOMAIN t |-> AT!Indent(t[i], fns)]
    BY <1>2 DEF AT!ApplyFunctions
  <2>4. a \in [1..Len(t) -> Z]
    BY <2>2, <2>3
  <2>5. ASSUME NEW i \in DOMAIN t PROVE ~ AT!IsRef(a[i])
    <3>1. a[i] = [indented |-> t[i], by |-> fns]
      BY <2>3 DEF AT!Indent, PlainText
    <3> HIDE DEF a
    <3>2. DOMAIN a[i] = {"indented", "by"}
      BY <3>1
    <3>3. QED
      BY <3>2 DEF AT!IsRef, AT!Is
  <2> HIDE DEF a, Z
  <2>6. a \in Seq(Z) /\ DOMAIN a = DOMAIN t
    BY <2>2, <2>4
  <2>7. AT!IsText(a)
    BY <2>6, TextIs
  <2>8. PlainText(a)
    BY <2>5, <2>6, <2>7 DEF PlainText
  <2>9. QED
    BY <2>8 DEF a
<1>3. QED
  BY <1>1, <1>2

(* The variables that a text names are plain.                              *)
PlainAt(s, variables) ==
    \A ref \in AT!RefsOf(s) :
        ref \in DOMAIN variables => PlainText(AT!TextOf(variables[ref].value))

(* A template with the variables it names: all the placeholders replaced   *)
(* at once, and none left.                                                 *)
LEMMA TemplateStringIs ==
    ASSUME NEW s, AT!IsText(s), NEW variables, PlainAt(s, variables),
           AT!Ok(AT!TemplateString(s, variables)),
           NEW meaning, DOMAIN meaning = AT!RefsOf(s),
           \A ref \in AT!RefsOf(s) : ref \in DOMAIN variables =>
                meaning[ref] = AT!TextOf(variables[ref].value)
    PROVE  /\ AT!RefsOf(s) \subseteq DOMAIN variables
           /\ AT!TemplateString(s, variables).ok = AT!Substituted(s, meaning)
           /\ PlainText(AT!Substituted(s, meaning))
<1> DEFINE V(i) == AT!Value(s[i], variables)
           Good == \A i \in DOMAIN s : AT!IsRef(s[i]) => AT!Renders(s[i], variables)
           W == UNION {AT!Range(V(i)) : i \in {j \in DOMAIN s : AT!IsRef(s[j])}}
           X == AT!Range(s) \cup W
           Z == {x \in X : ~ AT!IsRef(x)}
<1>0. s \in Seq(AT!Range(s)) /\ Len(s) \in Nat /\ DOMAIN s = 1..Len(s)
  <2>1. s \in Seq(AT!Range(s))
    BY DEF AT!IsText
  <2>2. QED
    BY <2>1, LenProperties
<1>1. Good
  <2>1. SUFFICES ASSUME ~ Good PROVE FALSE
    OBVIOUS
  <2>2. AT!TemplateString(s, variables) = [err |-> TRUE]
    BY <2>1 DEF AT!TemplateString, AT!Fail
  <2> HIDE DEF Good
  <2>3. DOMAIN AT!TemplateString(s, variables) = {"err"}
    BY <2>2
  <2>4. QED
    BY <2>3 DEF AT!Ok
<1>2. AT!TemplateString(s, variables).ok = AT!Replaced(s, variables)[Len(s)]
  BY <1>1 DEF AT!TemplateString
<1>3. ASSUME NEW i \in DOMAIN s, AT!IsRef(s[i])
      PROVE  /\ s[i].ref \in AT!RefsOf(s) /\ s[i].ref \in DOMAIN variables
             /\ PlainText(V(i))
             /\ V(i) = AT!ApplyFunctions(meaning[s[i].ref], s[i].fns)
  <2>1. s[i].ref \in AT!RefsOf(s)
    BY <1>3 DEF AT!RefsOf
  <2>2. s[i].ref \in DOMAIN variables
    BY <1>1, <1>3 DEF AT!Renders
  <2>3. PlainText(AT!TextOf(variables[s[i].ref].value))
    BY <2>1, <2>2 DEF PlainAt
  <2>4. PlainText(V(i))
    BY <2>3, ApplyPlain DEF AT!Value
  <2>5. V(i) = AT!ApplyFunctions(meaning[s[i].ref], s[i].fns)
    BY <2>1, <2>2 DEF AT!Value
  <2>6. QED
    BY <2>1, <2>2, <2>4, <2>5
<1>4. AT!RefsOf(s) \subseteq DOMAIN variables
  BY <1>3 DEF AT!RefsOf
<1> HIDE DEF V
<1>5. ASSUME NEW i \in DOMAIN s, AT!IsRef(s[i]) PROVE V(i) \in Seq(Z)
  <2>1. AT!IsText(V(i)) /\ \A k \in DOMAIN V(i) : ~ AT!IsRef(V(i)[k])
    BY <1>3, <1>5 DEF PlainText
  <2>2. \A k \in DOMAIN V(i) : V(i)[k] \in W
    BY <1>5 DEF AT!Range
  <2> HIDE DEF W
  <2>3. \A k \in DOMAIN V(i) : V(i)[k] \in Z
    BY <2>1, <2>2
  <2> HIDE DEF Z
  <2>4. QED
    BY <2>1, <2>3, TextOver
<1>6. s \in Seq(X)
  <2>1. AT!Range(s) \subseteq X
    OBVIOUS
  <2> HIDE DEF X
  <2>2. QED
    BY <1>0, <2>1, SeqMonotonic
<1>7. Z \subseteq X /\ \A z \in Z : ~ AT!IsRef(z)
  OBVIOUS
<1> HIDE DEF X, W
<1>8. PlainValues(X, s, variables)
  <2>1. SUFFICES ASSUME NEW i \in 1..Len(s), AT!IsRef(s[i])
                 PROVE V(i) \in Seq(X) /\ \A k \in 1..Len(V(i)) : ~ AT!IsRef(V(i)[k])
    BY DEF PlainValues, V
  <2>2. V(i) \in Seq(Z)
    BY <1>0, <1>5, <2>1
  <2> HIDE DEF Z
  <2>3. V(i) \in Seq(X) /\ \A k \in 1..Len(V(i)) : V(i)[k] \in Z
    BY <2>2, <1>7, SeqMonotonic, ElementOfSeq
  <2>4. QED
    BY <2>3, <1>7
<1> DEFINE A == After(s, variables, Len(s))
<1>9. AT!Replaced(s, variables)[Len(s)] = AT!Concat(A)
  BY <1>6, <1>8, ReplacedAtOnce
<1>10. A = [i \in DOMAIN s |-> IF AT!IsRef(s[i]) THEN V(i) ELSE <<s[i]>>]
  BY <1>0 DEF After, V
<1>11. AT!Concat(A) = AT!Substituted(s, meaning)
  <2>1. A = [i \in DOMAIN s |->
               IF AT!IsRef(s[i]) THEN AT!ApplyFunctions(meaning[s[i].ref], s[i].fns)
               ELSE <<s[i]>>]
    BY <1>10, <1>3
  <2> HIDE DEF A
  <2>2. QED
    BY <2>1 DEF AT!Substituted
<1>12. A \in Seq(Seq(Z))
  <2>1. ASSUME NEW i \in 1..Len(s) PROVE A[i] \in Seq(Z)
    <3>1. CASE AT!IsRef(s[i])
      BY <3>1, <1>5, <1>10, <1>0
    <3>2. CASE ~ AT!IsRef(s[i])
      <4>1. s[i] \in X
        BY <1>6, ElementOfSeq
      <4>2. s[i] \in Z
        BY <4>1, <3>2
      <4> HIDE DEF Z
      <4>3. A[i] = <<s[i]>>
        BY <3>2, <1>10, <1>0
      <4>4. QED
        BY <4>2, <4>3
    <3>3. QED
      BY <3>1, <3>2
  <2>2. A = [i \in 1..Len(s) |-> A[i]]
    BY <1>10, <1>0
  <2> HIDE DEF A, Z
  <2>3. A \in [1..Len(s) -> Seq(Z)]
    BY <2>1, <2>2
  <2>4. QED
    BY <1>0, <2>3
<1> HIDE DEF A, Z
<1>13. AT!Concat(A) \in Seq(Z)
  BY <1>12, ConcatIn
<1>14. PlainText(AT!Concat(A))
  <2>1. AT!IsText(AT!Concat(A))
    BY <1>13, TextIs
  <2>2. \A i \in DOMAIN AT!Concat(A) : AT!Concat(A)[i] \in Z
    BY <1>13, LenProperties, ElementOfSeq
  <2>3. QED
    BY <2>1, <2>2, <1>7 DEF PlainText
<1>15. QED
  BY <1>2, <1>4, <1>9, <1>11, <1>14

(* Results.                                                                *)
LEMMA OkIs == ~ AT!Ok(AT!Fail) /\ \A x : AT!Ok([ok |-> x])
<1>1. DOMAIN AT!Fail = {"err"}
  BY DEF AT!Fail
<1>2. \A x : DOMAIN [ok |-> x] = {"ok"}
  OBVIOUS
<1>3. QED
  BY <1>1, <1>2 DEF AT!Ok

(* A collection that succeeds has the results of its members.              *)
LEMMA CollectIs ==
    ASSUME NEW f, AT!Ok(AT!Collect(f))
    PROVE  /\ \A k \in DOMAIN f : AT!Ok(f[k])
           /\ AT!Collect(f).ok = [k \in DOMAIN f |-> f[k].ok]
<1>1. \A k \in DOMAIN f : AT!Ok(f[k])
  BY OkIs DEF AT!Collect
<1>2. AT!Collect(f) = [ok |-> [k \in DOMAIN f |-> f[k].ok]]
  BY <1>1 DEF AT!Collect
<1>3. QED
  BY <1>1, <1>2

(* A tree of one node.                                                     *)
LEMMA ScalarIs ==
    ASSUME NEW x
    PROVE  /\ DOMAIN AT!Scalar(x) = {<<>>} /\ AT!Scalar(x)[<<>>] = x
BY DEF AT!Scalar

(* The printed form of a string is its text.                               *)
LEMMA StringIs ==
    ASSUME NEW t
    PROVE  /\ AT!Is("str", [str |-> t])
           /\ AT!TextOf(AT!Scalar([str |-> t])) = t
           /\ AT!TextOf(AT!StringVariable(t).value) = t
           /\ AT!StringVariable(t).type = "string"
<1>1. AT!Is("str", [str |-> t])
  BY DEF AT!Is
<1>2. AT!IsKind("str", AT!Scalar([str |-> t]))
  BY <1>1, ScalarIs DEF AT!IsKind
<1>3. AT!TextOf(AT!Scalar([str |-> t])) = t
  BY <1>2, ScalarIs DEF AT!TextOf
<1>4. QED
  BY <1>1, <1>3 DEF AT!StringVariable

(* A tree of scalars is the tree of their nodes.                           *)
LEMMA GraftScalars ==
    ASSUME NEW D, D \subseteq Seq(STRING), NEW w, w = [p \in D |-> w[p]],
           NEW t, t = [p \in D |-> AT!Scalar(w[p])]
    PROVE  AT!Graft(t) = w
<1> DEFINE Splits(r) == {p \in DOMAIN t : \E q \in DOMAIN t[p] : r = p \o q}
           R == UNION {{p \o q : q \in DOMAIN t[p]} : p \in DOMAIN t}
           P(r) == CHOOSE p \in Splits(r) : TRUE
           Q(r) == CHOOSE q \in DOMAIN t[P(r)] : r = P(r) \o q
<1>1. DOMAIN t = D /\ DOMAIN w = D
  OBVIOUS
<1>2. \A p \in D : DOMAIN t[p] = {<<>>} /\ t[p][<<>>] = w[p] /\ p \o <<>> = p
  BY ScalarIs, ConcatEmptySeq
<1>s. \A p \in DOMAIN t : \A q \in DOMAIN t[p] : p \o q = p
  BY <1>1, <1>2
<1>e. \A p \in D : <<>> \in DOMAIN t[p]
  BY <1>2
<1>3. R = D
  <2>1. ASSUME NEW r \in D PROVE r \in R
    <3>1. r \in DOMAIN t /\ <<>> \in DOMAIN t[r] /\ r = r \o <<>>
      BY <1>1, <1>2
    <3>2. r \in {r \o q : q \in DOMAIN t[r]}
      BY <3>1
    <3>3. QED
      BY <3>1, <3>2
  <2>2. ASSUME NEW r \in R PROVE r \in D
    <3>1. PICK p \in DOMAIN t : r \in {p \o q : q \in DOMAIN t[p]}
      BY <2>2
    <3>2. PICK q \in DOMAIN t[p] : r = p \o q
      BY <3>1
    <3>3. r = p
      BY <3>2, <1>s
    <3>4. QED
      BY <3>3, <1>1
  <2> HIDE DEF R
  <2>3. QED
    BY <2>1, <2>2
<1>4. ASSUME NEW r \in D PROVE Splits(r) = {r}
  <2>1. r \in Splits(r)
    BY <1>1, <1>s, <1>e
  <2>2. \A p \in Splits(r) : p = r
    BY <1>s
  <2>3. QED
    BY <2>1, <2>2
<1>5. \A r \in D : P(r) = r
  <2> HIDE DEF Splits
  <2> QED BY <1>4
<1> HIDE DEF P
<1>6. \A r \in D : Q(r) = <<>>
  <2>1. SUFFICES ASSUME NEW r \in D PROVE Q(r) = <<>>
    OBVIOUS
  <2>2. P(r) = r /\ DOMAIN t[r] = {<<>>} /\ r \o <<>> = r
    BY <1>2, <1>5
  <2>3. <<>> \in DOMAIN t[P(r)] /\ r = P(r) \o <<>>
    BY <2>2
  <2>4. \E q \in DOMAIN t[P(r)] : r = P(r) \o q
    BY <2>3
  <2>5. Q(r) \in DOMAIN t[P(r)]
    BY <2>4
  <2>6. QED
    BY <2>2, <2>5
<1> HIDE DEF Q
<1>7. AT!Graft(t) = [r \in R |-> t[P(r)][Q(r)]]
  BY DEF AT!Graft, P, Q
<1> HIDE DEF R
<1>8. \A r \in D : t[P(r)][Q(r)] = w[r]
  BY <1>2, <1>5, <1>6
<1>9. AT!Graft(t) = [r \in D |-> w[r]]
  BY <1>3, <1>7, <1>8
<1>10. QED
  BY <1>9

(* A tree of trees without placeholders has none.                          *)
LEMMA GraftPlain ==
    ASSUME NEW t, \A p \in DOMAIN t : AT!RefsIn(t[p]) = {}
    PROVE  AT!RefsIn(AT!Graft(t)) = {}
<1> DEFINE Splits(r) == {p \in DOMAIN t : \E q \in DOMAIN t[p] : r = p \o q}
           R == UNION {{p \o q : q \in DOMAIN t[p]} : p \in DOMAIN t}
           P(r) == CHOOSE p \in Splits(r) : TRUE
           Q(r) == CHOOSE q \in DOMAIN t[P(r)] : r = P(r) \o q
           g == AT!Graft(t)
<1>1. g = [r \in R |-> t[P(r)][Q(r)]]
  BY DEF AT!Graft
<1>2. ASSUME NEW r \in R, AT!Is("str", g[r]) PROVE AT!RefsOf(g[r].str) = {}
  <2>1. P(r) \in Splits(r)
    <3>1. \E p \in DOMAIN t : p \in Splits(r)
      BY <1>2
    <3> HIDE DEF Splits
    <3>2. QED
      BY <3>1
  <2>2. P(r) \in DOMAIN t /\ \E q \in DOMAIN t[P(r)] : r = P(r) \o q
    BY <2>1
  <2> HIDE DEF P
  <2>3. Q(r) \in DOMAIN t[P(r)]
    BY <2>2
  <2> HIDE DEF Q, R
  <2>4. g[r] = t[P(r)][Q(r)]
    BY <1>1, <1>2
  <2> HIDE DEF g
  <2>5. AT!RefsOf(g[r].str) \subseteq AT!RefsIn(t[P(r)])
    BY <1>2, <2>3, <2>4 DEF AT!RefsIn
  <2>6. QED
    BY <2>2, <2>5
<1>3. DOMAIN g = R
  BY <1>1
<1> HIDE DEF g, R
<1>4. AT!RefsIn(g) = {}
  BY <1>2, <1>3 DEF AT!RefsIn
<1>5. QED
  BY <1>4 DEF g

(* A secret is a string variable with the text that the provider holds.    *)
SecretsLoaded(secrets) ==
    /\ DOMAIN secrets \subseteq DOMAIN Secrets
    /\ \A r \in DOMAIN secrets : secrets[r] = AT!StringVariable(Secrets[r])

(* The secrets that are loaded, as LoadSecrets returns them.               *)
LEMMA LoadSecretsIs ==
    ASSUME NEW values, AT!Ok(AT!LoadSecrets(values))
    PROVE  /\ SecretsLoaded(AT!LoadSecrets(values).ok)
           /\ DOMAIN AT!LoadSecrets(values).ok \subseteq AT!RefsIn(values)
<1> DEFINE asked == {r \in AT!RefsIn(values) : r[1] \in AT!SecretNamespaces \cap Providers}
           l == AT!LoadSecrets(values)
<1>1. asked \subseteq DOMAIN Secrets
  BY OkIs DEF AT!LoadSecrets
<1>2. l = [ok |-> [r \in asked |-> AT!StringVariable(Secrets[r])]]
  BY <1>1 DEF AT!LoadSecrets
<1>3. asked \subseteq AT!RefsIn(values)
  OBVIOUS
<1> HIDE DEF asked
<1>4. l.ok = [r \in asked |-> AT!StringVariable(Secrets[r])]
  BY <1>2
<1> HIDE DEF l
<1>5. DOMAIN l.ok = asked /\ \A r \in asked : l.ok[r] = AT!StringVariable(Secrets[r])
  BY <1>4
<1>6. QED
  BY <1>1, <1>3, <1>5 DEF l, SecretsLoaded

(* The secrets of these references have no placeholders.                   *)
PlainSecrets(refs) ==
    \A r \in refs : r \in DOMAIN Secrets => PlainText(Secrets[r])

(* A string of the values with its secrets.                                *)
LEMMA YamlStringRevealed ==
    ASSUME NEW s, AT!IsText(s), NEW secrets, SecretsLoaded(secrets),
           PlainSecrets(AT!RefsOf(s)), AT!Ok(AT!TemplateYamlString(s, secrets)),
           NEW meaning, meaning = [r \in AT!RefsOf(s) |-> Secrets[r]]
    PROVE  /\ AT!TemplateYamlString(s, secrets).ok =
                 AT!Scalar([str |-> AT!Substituted(s, meaning)])
           /\ PlainText(AT!Substituted(s, meaning))
<1> DEFINE y == AT!TemplateYamlString(s, secrets)
<1>0. s \in Seq(AT!Range(s)) /\ Len(s) \in Nat /\ DOMAIN s = 1..Len(s)
  <2>1. s \in Seq(AT!Range(s))
    BY DEF AT!IsText
  <2>2. QED
    BY <2>1, LenProperties
<1>1. \A r \in DOMAIN secrets : /\ AT!TextOf(secrets[r].value) = Secrets[r]
                                /\ secrets[r].type = "string"
  BY StringIs DEF SecretsLoaded
<1>2. CASE ~(Len(s) = 1 /\ AT!IsRef(s[1]))
  <2> DEFINE r == AT!TemplateString(s, secrets)
  <2>1. y = IF AT!Ok(r) THEN [ok |-> AT!Scalar([str |-> r.ok])] ELSE AT!Fail
    BY <1>2 DEF AT!TemplateYamlString
  <2>2. AT!Ok(r) /\ y = [ok |-> AT!Scalar([str |-> r.ok])]
    BY <2>1, OkIs
  <2>3. PlainAt(s, secrets)
    BY <1>1 DEF PlainAt, PlainSecrets, SecretsLoaded
  <2>4. /\ DOMAIN meaning = AT!RefsOf(s)
        /\ \A ref \in AT!RefsOf(s) : ref \in DOMAIN secrets =>
                meaning[ref] = AT!TextOf(secrets[ref].value)
    BY <1>1
  <2>5. r.ok = AT!Substituted(s, meaning) /\ PlainText(AT!Substituted(s, meaning))
    BY <2>2, <2>3, <2>4, TemplateStringIs
  <2> HIDE DEF r, y
  <2>6. y.ok = AT!Scalar([str |-> r.ok])
    BY <2>2
  <2>7. QED
    BY <2>5, <2>6 DEF y
<1>3. CASE Len(s) = 1 /\ AT!IsRef(s[1])
  <2> DEFINE ref == s[1].ref
  <2>1. s[1].fns = <<>> /\ ref \in DOMAIN secrets
    BY <1>3, OkIs DEF AT!TemplateYamlString
  <2>2. y = [ok |-> AT!Scalar([str |-> Secrets[ref]])]
    <3>1. secrets[ref].type \notin {"yaml", "bool", "number"}
      BY <2>1, <1>1
    <3>2. AT!TextOf(secrets[ref].value) = Secrets[ref]
      BY <2>1, <1>1
    <3>3. QED
      BY <1>3, <2>1, <3>1, <3>2 DEF AT!TemplateYamlString
  <2>3. ref \in AT!RefsOf(s)
    BY <1>0, <1>3 DEF AT!RefsOf
  <2>4. ref \in DOMAIN Secrets /\ PlainText(Secrets[ref])
    BY <2>1, <2>3 DEF PlainSecrets, SecretsLoaded
  <2>5. AT!Substituted(s, meaning) = Secrets[ref]
    <3> DEFINE f == [i \in DOMAIN s |->
                       IF AT!IsRef(s[i])
                       THEN AT!ApplyFunctions(meaning[s[i].ref], s[i].fns)
                       ELSE <<s[i]>>]
               t == Secrets[ref]
    <3>1. DOMAIN s = {1}
      BY <1>0, <1>3
    <3>2. meaning[ref] = t
      BY <2>3
    <3>3. AT!ApplyFunctions(meaning[ref], s[1].fns) = t
      BY <2>1, <3>2 DEF AT!ApplyFunctions
    <3>4. f = [i \in {1} |-> t]
      <4>1. f[1] = t
        BY <1>3, <3>1, <3>3
      <4>2. QED
        BY <3>1, <4>1
    <3> HIDE DEF f, t
    <3>5. f = <<t>>
      BY <3>4
    <3>6. t \in Seq(AT!Range(t))
      BY <2>4 DEF t, PlainText, AT!IsText
    <3>7. AT!Concat(<<t>>) = t
      BY <3>6, ConcatOne
    <3>8. QED
      BY <3>5, <3>7 DEF AT!Substituted, f, t
  <2> HIDE DEF y, ref
  <2>6. y.ok = AT!Scalar([str |-> Secrets[ref]])
    BY <2>2
  <2>7. QED
    BY <2>4, <2>5, <2>6 DEF y
<1>4. QED
  BY <1>2, <1>3

(* What a value means: its secrets are in it, as texts.                    *)
LEMMA RevealedIs ==
    ASSUME NEW v
    PROVE  /\ DOMAIN AT!Revealed(v) = DOMAIN v
           /\ AT!Revealed(v) = [p \in DOMAIN v |-> AT!Revealed(v)[p]]
           /\ \A p \in DOMAIN v : ~ AT!Is("str", v[p]) => AT!Revealed(v)[p] = v[p]
           /\ \A p \in DOMAIN v : AT!Is("str", v[p]) =>
                 AT!Revealed(v)[p] =
                    [str |-> AT!Substituted(v[p].str,
                                [r \in AT!RefsOf(v[p].str) |-> Secrets[r]])]
BY DEF AT!Revealed

(* The values after the expansion of their secrets.                        *)
LEMMA ExpandedIs ==
    ASSUME NEW v, AT!IsValue(v), NEW secrets, SecretsLoaded(secrets),
           PlainSecrets(AT!RefsIn(v)), AT!Ok(AT!TemplateYaml(v, secrets))
    PROVE  /\ AT!TemplateYaml(v, secrets).ok = AT!Revealed(v)
           /\ \A p \in DOMAIN v : AT!Is("str", v[p]) => PlainText(AT!Revealed(v)[p].str)
<1> DEFINE y(p) == AT!TemplateYamlString(v[p].str, secrets)
           f == [p \in DOMAIN v |-> IF AT!Is("str", v[p]) THEN y(p)
                                    ELSE [ok |-> AT!Scalar(v[p])]]
           c == AT!Collect(f)
           w == AT!Revealed(v)
           x == AT!TemplateYaml(v, secrets)
<1>1. x = IF AT!Ok(c) THEN [ok |-> AT!Graft(c.ok)] ELSE AT!Fail
  BY DEF AT!TemplateYaml
<1> HIDE DEF c, x
<1>2. AT!Ok(c) /\ x = [ok |-> AT!Graft(c.ok)]
  BY <1>1, OkIs DEF x
<1>3. /\ \A p \in DOMAIN f : AT!Ok(f[p])
      /\ c.ok = [p \in DOMAIN f |-> f[p].ok]
  <2> HIDE DEF f
  <2> QED BY <1>2, CollectIs DEF c
<1>4. DOMAIN f = DOMAIN v
  OBVIOUS
<1>5. ASSUME NEW p \in DOMAIN v, AT!Is("str", v[p])
      PROVE  f[p].ok = AT!Scalar(w[p]) /\ PlainText(w[p].str)
  <2> DEFINE s == v[p].str
             mm == [r \in AT!RefsOf(s) |-> Secrets[r]]
  <2>1. AT!IsText(s)
    BY <1>5 DEF AT!IsValue
  <2>2. AT!RefsOf(s) \subseteq AT!RefsIn(v)
    BY <1>5 DEF AT!RefsIn
  <2>3. PlainSecrets(AT!RefsOf(s))
    BY <2>2 DEF PlainSecrets
  <2>4. f[p] = y(p) /\ AT!Ok(y(p))
    BY <1>3, <1>4, <1>5
  <2>5. w[p] = [str |-> AT!Substituted(s, mm)]
    BY <1>5, RevealedIs
  <2>6. mm = [r \in AT!RefsOf(s) |-> Secrets[r]]
    OBVIOUS
  <2> HIDE DEF s, mm
  <2>7. AT!Ok(AT!TemplateYamlString(s, secrets))
    BY <2>4 DEF s
  <2>8. /\ AT!TemplateYamlString(s, secrets).ok = AT!Scalar([str |-> AT!Substituted(s, mm)])
        /\ PlainText(AT!Substituted(s, mm))
    BY <2>1, <2>3, <2>6, <2>7, YamlStringRevealed
  <2>9. y(p).ok = AT!Scalar(w[p])
    BY <2>5, <2>8 DEF s
  <2>10. w[p].str = AT!Substituted(s, mm)
    BY <2>5
  <2> HIDE DEF f, y, w
  <2>11. QED
    BY <2>4, <2>8, <2>9, <2>10
<1>6. ASSUME NEW p \in DOMAIN v, ~ AT!Is("str", v[p]) PROVE f[p].ok = AT!Scalar(w[p])
  <2>1. f[p] = [ok |-> AT!Scalar(v[p])]
    BY <1>6
  <2>2. w[p] = v[p]
    BY <1>6, RevealedIs
  <2> HIDE DEF f, w
  <2>3. QED
    BY <2>1, <2>2
<1> HIDE DEF f, y
<1>7. c.ok = [p \in DOMAIN v |-> AT!Scalar(w[p])]
  BY <1>3, <1>4, <1>5, <1>6
<1>8. w = [p \in DOMAIN v |-> w[p]] /\ DOMAIN v \subseteq Seq(STRING)
  BY RevealedIs DEF AT!IsValue, AT!IsTree
<1> HIDE DEF w
<1>9. AT!Graft(c.ok) = w
  BY <1>7, <1>8, GraftScalars
<1>10. x.ok = w
  BY <1>2, <1>9
<1>11. QED
  BY <1>5, <1>10 DEF w, x

(* The tree below a path.                                                  *)
LEMMA BelowIs ==
    ASSUME NEW v, DOMAIN v \subseteq Seq(STRING), NEW path \in Seq(STRING)
    PROVE  /\ AT!Below(v, path) = [q \in DOMAIN AT!Below(v, path) |-> v[path \o q]]
           /\ \A q \in DOMAIN AT!Below(v, path) : path \o q \in DOMAIN v
           /\ \A q \in DOMAIN AT!Below(v, path) : \E p \in DOMAIN v :
                 Len(path) <= Len(p) /\ path = SubSeq(p, 1, Len(path))
           /\ path \in DOMAIN v => <<>> \in DOMAIN AT!Below(v, path)
           /\ path \o <<>> = path
<1> DEFINE b == AT!Below(v, path)
           k == Len(path)
           ps == {p \in DOMAIN v : Len(path) <= Len(p) /\ SubSeq(p, 1, Len(path)) = path}
           D == {SubSeq(p, k + 1, Len(p)) : p \in ps}
<1>0. k \in Nat /\ SubSeq(path, 1, k) = path
  BY LenProperties, SubSeqFull
<1>1. b = [q \in D |-> v[path \o q]] /\ DOMAIN b = D
  BY DEF AT!Below
<1>2. ASSUME NEW p \in ps
      PROVE  /\ k <= Len(p) /\ path = SubSeq(p, 1, k) /\ p \in DOMAIN v
             /\ path \o SubSeq(p, k + 1, Len(p)) = p
  <2>1. k <= Len(p) /\ path = SubSeq(p, 1, k) /\ p \in DOMAIN v
    BY <1>2
  <2>2. p \in Seq(STRING) /\ Len(p) \in Nat /\ SubSeq(p, 1, Len(p)) = p
    BY <2>1, LenProperties, SubSeqFull
  <2>3. 1 \in 1..Len(p) + 1 /\ k \in 1 - 1..Len(p) /\ Len(p) \in k..Len(p)
    BY <2>1, <2>2, <1>0
  <2>4. SubSeq(p, 1, k) \o SubSeq(p, k + 1, Len(p)) = SubSeq(p, 1, Len(p))
    <3> HIDE DEF k
    <3> QED BY <2>2, <2>3, ConcatAdjacentSubSeq
  <2> HIDE DEF k
  <2>5. QED
    BY <2>1, <2>2, <2>4, <1>0
<1> HIDE DEF ps, b
<1>3. ASSUME NEW q \in D
      PROVE  path \o q \in DOMAIN v /\ \E p \in DOMAIN v : k <= Len(p) /\ path = SubSeq(p, 1, k)
  <2>1. PICK p \in ps : q = SubSeq(p, k + 1, Len(p))
    BY <1>3
  <2> HIDE DEF k
  <2>2. QED
    BY <2>1, <1>2
<1>4. ASSUME path \in DOMAIN v PROVE <<>> \in D
  <2>1. path \in ps
    BY <1>4, <1>0 DEF ps
  <2>2. SubSeq(path, k + 1, Len(path)) = <<>>
    <3>1. k + 1 \in Int /\ Len(path) \in Int /\ Len(path) < k + 1
      BY <1>0
    <3>2. QED
      BY <3>1, SubSeqEmpty
  <2>3. QED
    BY <2>1, <2>2
<1>5. path \o <<>> = path
  BY ConcatEmptySeq
<1> HIDE DEF D
<1>6. QED
  BY <1>1, <1>3, <1>4, <1>5 DEF b, k

(* There is a tree below the paths of a tree, and only there.              *)
LEMMA BelowSome ==
    ASSUME NEW v, AT!IsTree(v), NEW path \in Seq(STRING)
    PROVE  AT!Below(v, path) # AT!NoValue <=> path \in DOMAIN v
<1> DEFINE b == AT!Below(v, path)
<1>1. DOMAIN v \subseteq Seq(STRING)
  BY DEF AT!IsTree
<1>2. DOMAIN AT!NoValue = {}
  BY DEF AT!NoValue
<1>3. ASSUME path \in DOMAIN v PROVE b # AT!NoValue
  BY <1>1, <1>2, <1>3, BelowIs
<1>4. ASSUME b # AT!NoValue PROVE path \in DOMAIN v
  <2>1. b = [q \in DOMAIN b |-> v[path \o q]]
    BY <1>1, BelowIs
  <2>2. DOMAIN b # {}
    <3> HIDE DEF b
    <3>1. SUFFICES ASSUME DOMAIN b = {} PROVE FALSE
      OBVIOUS
    <3>2. b = [q \in {} |-> q]
      BY <2>1, <3>1
    <3>3. QED
      BY <1>4, <3>2 DEF AT!NoValue
  <2>3. PICK p \in DOMAIN v : Len(path) <= Len(p) /\ path = SubSeq(p, 1, Len(path))
    BY <1>1, <2>2, BelowIs
  <2>4. Len(path) \in 0..Len(p)
    BY <1>1, <2>3, LenProperties
  <2>5. QED
    BY <2>3, <2>4 DEF AT!IsTree
<1>5. QED
  BY <1>3, <1>4

(* The tree of meanings below a path is the meaning of the tree below it.  *)
LEMMA BelowRevealed ==
    ASSUME NEW v, DOMAIN v \subseteq Seq(STRING), NEW path \in Seq(STRING)
    PROVE  AT!Below(AT!Revealed(v), path) = AT!Revealed(AT!Below(v, path))
<1> DEFINE w == AT!Revealed(v)
           b == AT!Below(v, path)
           c == AT!Below(w, path)
<1>1. DOMAIN w = DOMAIN v
  BY RevealedIs
<1>2. DOMAIN b = DOMAIN c
  BY <1>1 DEF AT!Below
<1>3. /\ b = [q \in DOMAIN b |-> v[path \o q]]
      /\ \A q \in DOMAIN b : path \o q \in DOMAIN v
  BY BelowIs
<1>4. c = [q \in DOMAIN c |-> w[path \o q]]
  <2> HIDE DEF w
  <2> QED BY <1>1, BelowIs
<1> HIDE DEF b, c
<1>5. ASSUME NEW q \in DOMAIN b PROVE c[q] = AT!Revealed(b)[q]
  <2> DEFINE p == path \o q
  <2>1. p \in DOMAIN v /\ c[q] = w[p] /\ b[q] = v[p]
    BY <1>2, <1>3, <1>4
  <2> HIDE DEF p
  <2>2. CASE AT!Is("str", v[p])
    <3>1. w[p] = [str |-> AT!Substituted(v[p].str, [r \in AT!RefsOf(v[p].str) |-> Secrets[r]])]
      BY <2>1, <2>2, RevealedIs
    <3>2. AT!Revealed(b)[q] =
            [str |-> AT!Substituted(b[q].str, [r \in AT!RefsOf(b[q].str) |-> Secrets[r]])]
      BY <2>1, <2>2, RevealedIs
    <3> HIDE DEF w
    <3>3. QED
      BY <2>1, <3>1, <3>2
  <2>3. CASE ~ AT!Is("str", v[p])
    BY <2>1, <2>3, RevealedIs
  <2>4. QED
    BY <2>2, <2>3
<1>6. AT!Revealed(b) = [q \in DOMAIN b |-> AT!Revealed(b)[q]]
  BY RevealedIs
<1> HIDE DEF w
<1>7. c = [q \in DOMAIN b |-> c[q]]
  BY <1>2, <1>4
<1>8. c = AT!Revealed(b)
  BY <1>5, <1>6, <1>7
<1>9. QED
  BY <1>8 DEF b, c, w

(* Nothing means nothing, and only it.                                     *)
LEMMA RevealedNone ==
    ASSUME NEW v, v = [p \in DOMAIN v |-> v[p]]
    PROVE  AT!Revealed(v) = AT!NoValue <=> v = AT!NoValue
<1>1. DOMAIN AT!NoValue = {} /\ \A x : x = [p \in {} |-> x[p]] => x = AT!NoValue
  BY DEF AT!NoValue
<1>2. DOMAIN AT!Revealed(v) = DOMAIN v /\ AT!Revealed(v) = [p \in DOMAIN v |-> AT!Revealed(v)[p]]
  BY RevealedIs
<1> DEFINE w == AT!Revealed(v)
<1> HIDE DEF w
<1>3. w = AT!NoValue => v = AT!NoValue
  BY <1>1, <1>2 DEF w
<1>4. v = AT!NoValue => w = AT!NoValue
  BY <1>1, <1>2 DEF w
<1>5. QED
  BY <1>3, <1>4 DEF w

(* The strings in a tree are texts.                                        *)
TextsIn(v) == \A p \in DOMAIN v : AT!Is("str", v[p]) => AT!IsText(v[p].str)

(* The printed form of a value without placeholders has none.              *)
LEMMA TextOfPlain ==
    ASSUME NEW v, TextsIn(v), AT!RefsIn(v) = {} PROVE PlainText(AT!TextOf(v))
<1>1. CASE AT!IsKind("str", v)
  <2>1. <<>> \in DOMAIN v /\ AT!Is("str", v[<<>>]) /\ AT!TextOf(v) = v[<<>>].str
    BY <1>1 DEF AT!IsKind, AT!TextOf
  <2>2. AT!RefsOf(v[<<>>].str) \subseteq AT!RefsIn(v)
    BY <2>1 DEF AT!RefsIn
  <2>3. AT!IsText(v[<<>>].str) /\ AT!RefsOf(v[<<>>].str) = {}
    BY <2>1, <2>2 DEF TextsIn
  <2>4. QED
    BY <2>1, <2>3, PlainTextIs
<1>2. CASE ~ AT!IsKind("str", v)
  <2> DEFINE x == [shown |-> v]
             t == <<x>>
  <2>1. AT!TextOf(v) = t
    BY <1>2 DEF AT!TextOf
  <2>2. DOMAIN x = {"shown"}
    OBVIOUS
  <2> HIDE DEF x
  <2>3. ~ AT!IsRef(x)
    BY <2>2 DEF AT!IsRef, AT!Is
  <2>4. t \in Seq({x}) /\ DOMAIN t = {1} /\ t[1] = x
    OBVIOUS
  <2> HIDE DEF t
  <2>5. AT!IsText(t)
    BY <2>4, TextIs
  <2>6. PlainText(t)
    BY <2>3, <2>4, <2>5 DEF PlainText
  <2>7. QED
    BY <2>1, <2>6
<1>3. QED
  BY <1>1, <1>2

(* A variable of a definition: no value yet, a required one no default.    *)
LeafTyped(leaf) ==
    /\ leaf = AT!Variable(leaf, leaf.default, AT!NoValue)
    /\ leaf.required => leaf.default = AT!NoValue
    /\ TextsIn(leaf.default)

(* A definition that was parsed.                                           *)
DefTyped(def) ==
    /\ DOMAIN def.variables \subseteq Seq(STRING)
    /\ def.variables = [p \in DOMAIN def.variables |-> def.variables[p]]
    /\ \A p \in AT!Leaves(def.variables) : LeafTyped(def.variables[p].end)
    /\ def.environment = "k8s" => AT!K8sTyped(def.deployment)
    /\ def.environment # "k8s" => AT!HostTyped(def.deployment)

(* The fields of a variable.                                               *)
LEMMA VariableIs ==
    ASSUME NEW leaf, NEW d, NEW f
    PROVE  /\ AT!Variable(leaf, d, f).type = leaf.type
           /\ AT!Variable(leaf, d, f).required = leaf.required
           /\ AT!Variable(leaf, d, f).acField = leaf.acField
           /\ AT!Variable(leaf, d, f).variants = leaf.variants
           /\ AT!Variable(leaf, d, f).default = d
           /\ AT!Variable(leaf, d, f).final = f
           /\ AT!Variable(AT!Variable(leaf, d, f), d, f) = AT!Variable(leaf, d, f)
BY DEF AT!Variable

(* A valid variable of a definition is typed once it is parsed.            *)
LEMMA WithDefaultIs ==
    ASSUME NEW leaf, AT!LeafValid(leaf), TextsIn(leaf.default)
    PROVE  LeafTyped(AT!WithDefault(leaf))
<1> DEFINE null == AT!Scalar([null |-> TRUE])
<1>1. TextsIn(null)
  <2> DEFINE x == [null |-> TRUE]
  <2>1. DOMAIN x = {"null"}
    OBVIOUS
  <2> HIDE DEF x
  <2>2. TextsIn(AT!Scalar(x))
    BY <2>1, ScalarIs DEF TextsIn, AT!Is
  <2>3. QED
    BY <2>2 DEF x
<1> HIDE DEF null
<1>2. CASE ~ leaf.required /\ leaf.default = AT!NoValue
  <2> DEFINE l == AT!Variable(leaf, null, AT!NoValue)
  <2>1. AT!WithDefault(leaf) = l
    BY <1>2 DEF AT!WithDefault, null
  <2>2. l.default = null /\ l.required = leaf.required /\ l = AT!Variable(l, null, AT!NoValue)
    BY VariableIs
  <2> HIDE DEF l
  <2>3. LeafTyped(l)
    BY <1>1, <1>2, <2>2 DEF LeafTyped
  <2>4. QED
    BY <2>1, <2>3
<1>3. CASE ~(~ leaf.required /\ leaf.default = AT!NoValue)
  <2> DEFINE l == AT!Variable(leaf, leaf.default, AT!NoValue)
  <2>1. AT!WithDefault(leaf) = l
    BY <1>3 DEF AT!WithDefault
  <2>2. /\ l.default = leaf.default /\ l.required = leaf.required
        /\ l = AT!Variable(l, leaf.default, AT!NoValue)
    BY VariableIs
  <2>3. leaf.required => leaf.default = AT!NoValue
    BY DEF AT!LeafValid
  <2> HIDE DEF l
  <2>4. LeafTyped(l)
    BY <2>2, <2>3 DEF LeafTyped
  <2>5. QED
    BY <2>1, <2>4
<1>4. QED
  BY <1>2, <1>3

(* What is parsed from a document.                                         *)
LEMMA FromSliceIs ==
    ASSUME NEW doc, doc # NotYaml => AT!DocTyped(doc), AT!Ok(AT!FromSlice(doc))
    PROVE  /\ DefTyped(AT!FromSlice(doc).ok)
           /\ AT!FromSlice(doc).ok.id = doc.id
           /\ AT!FromSlice(doc).ok.environment = AT!EnvironmentOf(doc)
<1> DEFINE def == [id |-> doc.id, environment |-> AT!EnvironmentOf(doc),
                   variables |-> AT!Parsed(doc.variables),
                   deployment |-> doc.deployment]
           parsed == AT!FromSlice(doc)
<1>1. /\ doc # NotYaml
      /\ \A p \in AT!Leaves(doc.variables) : AT!LeafValid(doc.variables[p].end)
      /\ AT!EnvironmentOf(doc) # NoResult
      /\ parsed = [ok |-> def]
  BY OkIs DEF AT!FromSlice
<1> HIDE DEF parsed
<1>2. parsed.ok = def
  BY <1>1
<1>3. AT!DocTyped(doc)
  BY <1>1
<1> DEFINE tree0 == doc.variables
           tree1 == AT!Parsed(doc.variables)
<1>4. /\ tree1 = [p \in DOMAIN tree0 |-> tree1[p]] /\ DOMAIN tree1 = DOMAIN tree0
      /\ \A p \in DOMAIN tree0 : AT!Is("end", tree0[p]) =>
            tree1[p] = [end |-> AT!WithDefault(tree0[p].end)]
      /\ \A p \in DOMAIN tree0 : ~ AT!Is("end", tree0[p]) => tree1[p] = tree0[p]
  BY DEF AT!Parsed
<1> HIDE DEF tree1
<1>5. ASSUME NEW p \in AT!Leaves(tree1) PROVE LeafTyped(tree1[p].end)
  <2>1. p \in DOMAIN tree0 /\ AT!Is("end", tree0[p])
    BY <1>4, <1>5 DEF AT!Leaves
  <2>2. p \in AT!Leaves(doc.variables)
    BY <2>1 DEF AT!Leaves
  <2>3. AT!LeafValid(tree0[p].end) /\ TextsIn(tree0[p].end.default)
    BY <1>1, <1>3, <2>2 DEF AT!DocTyped, AT!IsValue, TextsIn
  <2>4. tree1[p].end = AT!WithDefault(tree0[p].end)
    <3> HIDE DEF tree0
    <3>1. tree1[p] = [end |-> AT!WithDefault(tree0[p].end)]
      BY <1>4, <2>1
    <3>2. QED
      BY <3>1
  <2>5. QED
    BY <2>3, <2>4, WithDefaultIs
<1>6. DOMAIN tree0 \subseteq Seq(STRING)
  BY <1>3 DEF AT!DocTyped, AT!IsTree
<1>7. /\ AT!EnvironmentOf(doc) = "k8s" => AT!K8sTyped(doc.deployment)
      /\ AT!EnvironmentOf(doc) # "k8s" => AT!HostTyped(doc.deployment)
  BY <1>1, <1>3 DEF AT!DocTyped, AT!EnvironmentOf
<1>8. /\ def.id = doc.id /\ def.environment = AT!EnvironmentOf(doc)
      /\ def.variables = tree1 /\ def.deployment = doc.deployment
  BY DEF tree1
<1> HIDE DEF def, tree0
<1>9. DefTyped(def)
  BY <1>4, <1>5, <1>6, <1>7, <1>8 DEF DefTyped
<1>10. QED
  BY <1>2, <1>8, <1>9 DEF parsed

(* The value of a variable: the one given, with its secrets, or else the   *)
(* default.                                                                *)
ValueOf(def, values, p) ==
    IF AT!Below(values, p) # AT!NoValue THEN AT!Revealed(AT!Below(values, p))
    ELSE def.variables[p].end.default

(* The variables of a definition filled with values.                       *)
LEMMA FilledIs ==
    ASSUME NEW def, DefTyped(def), NEW values, AT!IsValue(values),
           AT!Ok(AT!UpdateSpecs(def.variables, AT!Revealed(values))),
           NEW filled, filled = AT!UpdateSpecs(def.variables, AT!Revealed(values)).ok,
           AT!AllPopulated(filled)
    PROVE  /\ AT!Leaves(filled) = AT!Leaves(def.variables)
           /\ \A p \in AT!Leaves(def.variables) :
                 /\ AT!GetFinalValue(filled[p].end) = ValueOf(def, values, p)
                 /\ AT!ValueAccepted(def.variables[p].end,
                                     AT!Revealed(AT!Below(values, p)))
<1> DEFINE tree1 == def.variables
           w == AT!Revealed(values)
           B(p) == AT!Below(w, p)
           G(p) == IF p \notin DOMAIN w THEN [ok |-> tree1[p]]
                   ELSE IF AT!Is("end", tree1[p]) THEN AT!Merge(tree1[p].end, B(p))
                   ELSE IF AT!Is("obj", w[p]) THEN [ok |-> tree1[p]] ELSE AT!Fail
           f == [p \in DOMAIN tree1 |-> G(p)]
<1>1. AT!UpdateSpecs(tree1, w) = AT!Collect(f)
  BY DEF AT!UpdateSpecs
<1>2. DOMAIN w = DOMAIN values /\ DOMAIN values \subseteq Seq(STRING) /\ AT!IsTree(values)
  BY RevealedIs DEF AT!IsValue, AT!IsTree
<1> HIDE DEF w, G
<1>3. DOMAIN f = DOMAIN tree1 /\ \A p \in DOMAIN tree1 : f[p] = G(p)
  OBVIOUS
<1>4. /\ \A p \in DOMAIN tree1 : AT!Ok(G(p))
      /\ DOMAIN filled = DOMAIN tree1
      /\ \A p \in DOMAIN tree1 : filled[p] = G(p).ok
  <2> HIDE DEF f
  <2>1. AT!Ok(AT!Collect(f)) /\ filled = AT!Collect(f).ok
    BY <1>1 DEF w
  <2>2. (\A p \in DOMAIN f : AT!Ok(f[p])) /\ filled = [p \in DOMAIN f |-> f[p].ok]
    BY <2>1, CollectIs
  <2>3. QED
    BY <1>3, <2>2
<1> HIDE DEF f
<1>5. ASSUME NEW p \in DOMAIN tree1, ~ AT!Is("end", tree1[p]) PROVE filled[p] = tree1[p]
  <2>1. G(p) = [ok |-> tree1[p]]
    BY <1>4, <1>5, OkIs DEF G
  <2>2. G(p).ok = tree1[p]
    BY <2>1
  <2>3. QED
    BY <1>4, <2>2
<1>6. ASSUME NEW p \in DOMAIN tree1, AT!Is("end", tree1[p]), p \notin DOMAIN w
      PROVE filled[p] = tree1[p]
  <2>1. G(p) = [ok |-> tree1[p]]
    BY <1>6 DEF G
  <2>2. G(p).ok = tree1[p]
    BY <2>1
  <2>3. QED
    BY <1>4, <2>2
<1>7. ASSUME NEW p \in DOMAIN tree1, AT!Is("end", tree1[p]), p \in DOMAIN w
      PROVE  /\ filled[p] = [end |-> AT!Variable(tree1[p].end, tree1[p].end.default, B(p))]
             /\ AT!Fits(tree1[p].end.type, B(p))
             /\ tree1[p].end.type = "string" =>
                  \/ AT!BuildVariants(tree1[p].end) = {}
                  \/ AT!TextOf(B(p)) \in AT!BuildVariants(tree1[p].end)
  <2> DEFINE l == tree1[p].end
             x == [end |-> AT!Variable(l, l.default, B(p))]
  <2>1. G(p) = AT!Merge(l, B(p)) /\ AT!Ok(G(p))
    BY <1>4, <1>7 DEF G
  <2> HIDE DEF l, B
  <2>2. /\ AT!Fits(l.type, B(p))
        /\ l.type = "string" => \/ AT!BuildVariants(l) = {}
                                \/ AT!TextOf(B(p)) \in AT!BuildVariants(l)
    BY <2>1, OkIs DEF AT!Merge
  <2>3. AT!Merge(l, B(p)) = [ok |-> x]
    BY <2>2 DEF AT!Merge
  <2> HIDE DEF x
  <2>4. G(p).ok = x
    BY <2>1, <2>3
  <2>5. filled[p] = x
    BY <1>4, <2>4
  <2>6. QED
    BY <2>2, <2>5 DEF x, l
<1>8. AT!Leaves(filled) = AT!Leaves(tree1)
  <2>1. ASSUME NEW p \in DOMAIN tree1, AT!Is("end", tree1[p]), p \in DOMAIN w
        PROVE AT!Is("end", filled[p])
    <3> DEFINE y == AT!Variable(tree1[p].end, tree1[p].end.default, B(p))
    <3>1. filled[p] = [end |-> y]
      BY <1>7, <2>1
    <3> HIDE DEF y
    <3>2. DOMAIN filled[p] = {"end"}
      BY <3>1
    <3>3. QED
      BY <3>2 DEF AT!Is
  <2>2. \A p \in DOMAIN tree1 : AT!Is("end", tree1[p]) <=> AT!Is("end", filled[p])
    BY <1>5, <1>6, <2>1
  <2>3. QED
    BY <1>4, <2>2 DEF AT!Leaves
<1>9. ASSUME NEW p \in AT!Leaves(tree1)
      PROVE  /\ AT!GetFinalValue(filled[p].end) = ValueOf(def, values, p)
             /\ AT!ValueAccepted(tree1[p].end, AT!Revealed(AT!Below(values, p)))
  <2> DEFINE l == tree1[p].end
             b == AT!Below(values, p)
             rb == AT!Revealed(b)
  <2>0. p \in DOMAIN tree1 /\ AT!Is("end", tree1[p]) /\ p \in Seq(STRING) /\ LeafTyped(l)
    BY <1>9 DEF AT!Leaves, DefTyped
  <2>1. b # AT!NoValue <=> p \in DOMAIN values
    BY <1>2, <2>0, BelowSome
  <2>2. B(p) = rb
    BY <1>2, <2>0, BelowRevealed DEF w
  <2>3. b = [q \in DOMAIN b |-> b[q]]
    BY DEF AT!Below
  <2>4. rb = AT!NoValue <=> b = AT!NoValue
    <3> HIDE DEF b
    <3> QED BY <2>3, RevealedNone
  <2>5. AT!GetFinalValue(filled[p].end) # AT!NoValue
    BY <1>8, <1>9 DEF AT!AllPopulated
  <2>6. l.final = AT!NoValue
    <3>1. l = AT!Variable(l, l.default, AT!NoValue)
      BY <2>0 DEF LeafTyped
    <3> HIDE DEF l
    <3>2. QED
      BY <3>1, VariableIs
  <2> HIDE DEF b, rb, l, B
  <2>7. CASE p \in DOMAIN values
    <3> DEFINE y == AT!Variable(l, l.default, rb)
    <3>1. /\ filled[p] = [end |-> y]
          /\ AT!Fits(l.type, rb)
          /\ l.type = "string" => \/ AT!BuildVariants(l) = {}
                                  \/ AT!TextOf(rb) \in AT!BuildVariants(l)
      BY <1>2, <1>7, <2>0, <2>2, <2>7 DEF l
    <3>2. y.final = rb
      BY VariableIs
    <3> HIDE DEF y
    <3>3. filled[p].end = y
      BY <3>1
    <3>4. AT!GetFinalValue(filled[p].end) = rb
      BY <2>1, <2>4, <2>7, <3>2, <3>3 DEF AT!GetFinalValue
    <3>5. AT!ValueAccepted(l, rb)
      BY <2>1, <2>4, <2>7, <3>1 DEF AT!ValueAccepted
    <3>6. QED
      BY <2>1, <2>7, <3>4, <3>5 DEF ValueOf, b, rb, l
  <2>8. CASE p \notin DOMAIN values
    <3>1. filled[p].end = l
      BY <1>2, <1>6, <2>0, <2>8 DEF l
    <3>2. AT!GetFinalValue(l) = l.default
      BY <2>6 DEF AT!GetFinalValue
    <3>3. l.default # AT!NoValue
      BY <2>5, <3>1, <3>2
    <3>4. ~ l.required
      BY <2>0, <3>3 DEF LeafTyped
    <3>5. AT!ValueAccepted(l, rb)
      BY <2>1, <2>4, <2>8, <3>4 DEF AT!ValueAccepted
    <3>6. QED
      BY <2>1, <2>8, <3>1, <3>2, <3>5 DEF ValueOf, b, rb, l
  <2>9. QED
    BY <2>7, <2>8
<1>10. QED
  BY <1>8, <1>9

(* The entries of one function over those of another.                      *)
LEMMA OverIs ==
    ASSUME NEW f, NEW g
    PROVE  /\ DOMAIN AT!Over(f, g) = DOMAIN f \cup DOMAIN g
           /\ \A x \in DOMAIN f : AT!Over(f, g)[x] = f[x]
           /\ \A x \in DOMAIN g : x \notin DOMAIN f => AT!Over(f, g)[x] = g[x]
BY DEF AT!Over

(* A string of one piece that is no placeholder.                           *)
LEMMA OnePiece ==
    ASSUME NEW x PROVE TextsIn(AT!Scalar([str |-> <<x>>]))
<1> DEFINE t == <<x>>
<1>1. t \in Seq({x})
  OBVIOUS
<1> HIDE DEF t
<1>2. AT!IsText(t)
  BY <1>1, TextIs
<1> DEFINE nd == [str |-> t]
<1>3. nd.str = t
  OBVIOUS
<1> HIDE DEF nd
<1>4. TextsIn(AT!Scalar(nd))
  BY <1>2, <1>3, ScalarIs DEF TextsIn
<1>5. QED
  BY <1>4 DEF nd, t

(* Every variable has the value that its reference stands for.             *)
Means(variables, def, r, packages) ==
    \A ref \in DOMAIN variables :
        /\ variables[ref].value = AT!Meaning(def, r, packages, ref)
        /\ TextsIn(variables[ref].value)

(* Two maps of variables that mean what they should, one over the other.   *)
LEMMA OverMeans ==
    ASSUME NEW f, NEW g, NEW def, NEW r, NEW packages,
           Means(f, def, r, packages), Means(g, def, r, packages)
    PROVE  Means(AT!Over(f, g), def, r, packages)
<1> DEFINE h == AT!Over(f, g)
<1>1. /\ DOMAIN h = DOMAIN f \cup DOMAIN g
      /\ \A x \in DOMAIN f : h[x] = f[x]
      /\ \A x \in DOMAIN g : x \notin DOMAIN f => h[x] = g[x]
  BY OverIs
<1> HIDE DEF h
<1>2. ASSUME NEW ref \in DOMAIN h
      PROVE  /\ h[ref].value = AT!Meaning(def, r, packages, ref)
             /\ TextsIn(h[ref].value)
  <2>1. CASE ref \in DOMAIN f
    <3>1. h[ref] = f[ref]
      BY <1>1, <2>1
    <3>2. QED
      BY <2>1, <3>1 DEF Means
  <2>2. CASE ref \notin DOMAIN f
    <3>1. ref \in DOMAIN g /\ h[ref] = g[ref]
      BY <1>1, <1>2, <2>2
    <3>2. QED
      BY <3>1 DEF Means
  <2>3. QED
    BY <2>1, <2>2
<1>3. QED
  BY <1>2 DEF Means, h

(* What the references of each namespace stand for.                        *)
LEMMA VarMeaning ==
    ASSUME NEW def, NEW r, NEW packages, NEW ref, ref[1] = "var"
    PROVE  AT!Meaning(def, r, packages, ref) = ValueOf(def, r.values, ref[2])
BY DEF AT!Meaning, ValueOf

(* What a variable of the environment stands for.                          *)
LEMMA EnvMeaning ==
    ASSUME NEW def, NEW r, NEW packages, NEW ref, ref[1] = "env"
    PROVE  AT!Meaning(def, r, packages, ref) = EnvVars[ref].value
BY DEF AT!Meaning

(* What a variable of Agent Control stands for.                            *)
LEMMA AcMeaning ==
    ASSUME NEW def, NEW r, NEW packages, NEW ref, ref[1] = "ac"
    PROVE  AT!Meaning(def, r, packages, ref) = AcVars[ref].value
BY DEF AT!Meaning

(* What a variable of the sub-agent stands for.                            *)
LEMMA SubMeaning ==
    ASSUME NEW def, NEW r, NEW packages, NEW ref, ref[1] = "sub",
           Len(ref[2]) = 1
    PROVE  AT!Meaning(def, r, packages, ref) =
             AT!Scalar([str |-> <<[text |-> ref[2][1], of |-> r.agent]>>])
BY DEF AT!Meaning

(* What the directory of a package stands for.                             *)
LEMMA PackageMeaning ==
    ASSUME NEW def, NEW r, NEW packages, NEW ref, ref[1] = "sub",
           Len(ref[2]) # 1
    PROVE  AT!Meaning(def, r, packages, ref) =
             AT!Scalar([str |-> <<[dir |-> <<r.agent, ref[2][2],
                                             packages[ref[2][2]]>>]>>])
BY DEF AT!Meaning

(* The values of an agent have their secrets, which are plain.             *)
LEMMA ValueTexts ==
    ASSUME NEW def, DefTyped(def), NEW values, AT!IsValue(values),
           PlainSecrets(AT!RefsIn(values)),
           \A q \in DOMAIN values : AT!Is("str", values[q]) =>
                PlainText(AT!Revealed(values)[q].str),
           NEW p \in AT!Leaves(def.variables)
    PROVE  TextsIn(ValueOf(def, values, p))
<1>0. p \in Seq(STRING) /\ DOMAIN values \subseteq Seq(STRING)
  BY DEF AT!Leaves, DefTyped, AT!IsValue, AT!IsTree
<1>1. CASE AT!Below(values, p) # AT!NoValue
  <2> DEFINE w == AT!Revealed(values)
             c == AT!Below(w, p)
  <2>1. ValueOf(def, values, p) = c
    BY <1>0, <1>1, BelowRevealed DEF ValueOf
  <2>2. DOMAIN w = DOMAIN values
    BY RevealedIs
  <2>3. ASSUME NEW q \in DOMAIN values, AT!Is("str", w[q]) PROVE AT!IsText(w[q].str)
    <3>1. CASE AT!Is("str", values[q])
      BY <3>1 DEF PlainText
    <3>2. CASE ~ AT!Is("str", values[q])
      <4>1. w[q] = values[q]
        BY <3>2, RevealedIs
      <4>2. QED
        BY <2>3, <3>2, <4>1
    <3>3. QED
      BY <3>1, <3>2
  <2> HIDE DEF w
  <2>4. /\ c = [q \in DOMAIN c |-> w[p \o q]]
        /\ \A q \in DOMAIN c : p \o q \in DOMAIN w
    BY <1>0, <2>2, BelowIs
  <2> HIDE DEF c
  <2>5. TextsIn(c)
    BY <2>2, <2>3, <2>4 DEF TextsIn
  <2>6. QED
    BY <2>1, <2>5
<1>2. CASE AT!Below(values, p) = AT!NoValue
  BY <1>2 DEF ValueOf, DefTyped, LeafTyped
<1>3. QED
  BY <1>1, <1>2

(* The variables for the deployment.                                       *)
LEMMA VariablesMean ==
    ASSUME NEW def, DefTyped(def), NEW r, NEW packages, NEW filled,
           AT!Leaves(filled) = AT!Leaves(def.variables),
           \A p \in AT!Leaves(def.variables) :
                /\ AT!GetFinalValue(filled[p].end) = ValueOf(def, r.values, p)
                /\ TextsIn(ValueOf(def, r.values, p))
    PROVE  Means(AT!NamespacedVariables(filled, r.agent), def, r, packages)
<1> DEFINE F == AT!Flatten(filled)
           S == AT!SubAgentVariables(r.agent)
           SF == AT!Over(S, F)
           E == AT!Over(EnvVars, SF)
           variables == AT!Over(AcVars, E)
           M(ref) == AT!Meaning(def, r, packages, ref)
<1>1. variables = AT!NamespacedVariables(filled, r.agent)
  BY DEF AT!NamespacedVariables
<1>2. ASSUME NEW ref \in DOMAIN F PROVE F[ref].value = M(ref) /\ TextsIn(M(ref))
  <2>1. PICK p \in AT!Leaves(filled) : ref = <<"var", p>>
    BY <1>2 DEF AT!Flatten
  <2>2. ref[1] = "var" /\ ref[2] = p
    BY <2>1
  <2>3. F[ref].value = AT!GetFinalValue(filled[ref[2]].end)
    BY <1>2 DEF AT!Flatten
  <2>4. M(ref) = ValueOf(def, r.values, p)
    BY <2>2, VarMeaning
  <2> HIDE DEF F, M
  <2>5. QED
    BY <2>1, <2>2, <2>3, <2>4
<1>3. ASSUME NEW ref \in DOMAIN S PROVE S[ref].value = M(ref) /\ TextsIn(M(ref))
  <2> DEFINE names == {"agent_id", "filesystem_agent_dir", "shared_filesystem_dir",
                       "remote_dir"}
             x == [text |-> ref[2][1], of |-> r.agent]
  <2>1. PICK a \in names : ref = <<"sub", <<a>>>>
    BY <1>3 DEF AT!SubAgentVariables
  <2>2. ref[1] = "sub" /\ Len(ref[2]) = 1
    BY <2>1
  <2>3. S[ref] = AT!StringVariable(<<x>>)
    BY <1>3 DEF AT!SubAgentVariables
  <2>4. M(ref) = AT!Scalar([str |-> <<x>>])
    BY <2>2, SubMeaning
  <2> HIDE DEF S, M, x
  <2>5. S[ref].value = AT!Scalar([str |-> <<x>>])
    BY <2>3 DEF AT!StringVariable
  <2>6. QED
    BY <2>4, <2>5, OnePiece
<1>4. Means(EnvVars, def, r, packages)
  <2>1. SUFFICES ASSUME NEW ref \in DOMAIN EnvVars
                 PROVE EnvVars[ref].value = M(ref) /\ TextsIn(EnvVars[ref].value)
    BY DEF Means
  <2>2. ref[1] = "env" /\ AT!IsValue(EnvVars[ref].value)
    BY <2>1, AgentTypesAssumption DEF AT!Assumptions
  <2>3. EnvVars[ref].value = M(ref)
    BY <2>2, EnvMeaning
  <2>4. QED
    BY <2>2, <2>3 DEF AT!IsValue, TextsIn
<1>5. Means(AcVars, def, r, packages)
  <2>1. SUFFICES ASSUME NEW ref \in DOMAIN AcVars
                 PROVE AcVars[ref].value = M(ref) /\ TextsIn(AcVars[ref].value)
    BY DEF Means
  <2>2. ref[1] = "ac" /\ AT!IsValue(AcVars[ref].value)
    BY <2>1, AgentTypesAssumption DEF AT!Assumptions
  <2>3. AcVars[ref].value = M(ref)
    BY <2>2, AcMeaning
  <2>4. QED
    BY <2>2, <2>3 DEF AT!IsValue, TextsIn
<1> HIDE DEF F, S, M
<1>6. Means(F, def, r, packages) /\ Means(S, def, r, packages)
  BY <1>2, <1>3 DEF Means, M
<1>7. Means(SF, def, r, packages)
  BY <1>6, OverMeans
<1> HIDE DEF SF
<1>8. Means(E, def, r, packages)
  BY <1>4, <1>7, OverMeans
<1> HIDE DEF E
<1>9. Means(variables, def, r, packages)
  BY <1>5, <1>8, OverMeans
<1>10. QED
  BY <1>1, <1>9

(* The same with the directories of the packages.                          *)
LEMMA PackagesMean ==
    ASSUME NEW def, NEW r, NEW packages, NEW variables,
           Means(variables, def, r, packages)
    PROVE  Means(AT!IncludePackagesVariables(variables, packages, r.agent),
                 def, r, packages)
<1> DEFINE D == {<<"sub", <<"packages", p, "dir">>>> : p \in DOMAIN packages}
           x(ref) == [dir |-> <<r.agent, ref[2][2], packages[ref[2][2]]>>]
           f == [ref \in D |-> AT!StringVariable(<<x(ref)>>)]
           all == AT!Over(f, variables)
           M(ref) == AT!Meaning(def, r, packages, ref)
<1>1. all = AT!IncludePackagesVariables(variables, packages, r.agent)
  BY DEF AT!IncludePackagesVariables
<1>2. ASSUME NEW ref \in DOMAIN f PROVE f[ref].value = M(ref) /\ TextsIn(M(ref))
  <2>1. PICK p \in DOMAIN packages : ref = <<"sub", <<"packages", p, "dir">>>>
    BY <1>2
  <2>2. ref[1] = "sub" /\ Len(ref[2]) # 1
    BY <2>1
  <2>3. f[ref] = AT!StringVariable(<<x(ref)>>)
    BY <1>2
  <2>4. M(ref) = AT!Scalar([str |-> <<x(ref)>>])
    BY <2>2, PackageMeaning
  <2> HIDE DEF f, M, x
  <2>5. f[ref].value = AT!Scalar([str |-> <<x(ref)>>])
    BY <2>3 DEF AT!StringVariable
  <2>6. QED
    BY <2>4, <2>5, OnePiece
<1> HIDE DEF f, M
<1>3. Means(f, def, r, packages)
  BY <1>2 DEF Means, M
<1>4. Means(all, def, r, packages)
  BY <1>3, OverMeans
<1>5. QED
  BY <1>1, <1>4

(* A text of the deployment is rendered as its template says.              *)
LEMMA TextRendered ==
    ASSUME NEW template, AT!IsText(template), NEW variables, NEW def, NEW r,
           NEW packages, Means(variables, def, r, packages),
           AT!Ok(AT!TemplateString(template, variables))
    PROVE  AT!RenderedAs(AT!TemplateString(template, variables).ok, template,
                         def, r, packages)
<1> DEFINE refs == AT!RefsOf(template)
           M(ref) == AT!Meaning(def, r, packages, ref)
           meaning == [ref \in refs |-> AT!TextOf(M(ref))]
<1>1. SUFFICES ASSUME AT!Plain(refs, def, r, packages)
               PROVE AT!TemplateString(template, variables).ok =
                        AT!Substituted(template, meaning)
  BY DEF AT!RenderedAs
<1>2. \A ref \in refs : ref \in DOMAIN variables =>
         /\ variables[ref].value = M(ref) /\ TextsIn(M(ref)) /\ AT!RefsIn(M(ref)) = {}
  BY <1>1 DEF AT!Plain, Means
<1> HIDE DEF M
<1>3. PlainAt(template, variables)
  BY <1>2, TextOfPlain DEF PlainAt
<1>4. /\ DOMAIN meaning = AT!RefsOf(template)
      /\ \A ref \in AT!RefsOf(template) : ref \in DOMAIN variables =>
            meaning[ref] = AT!TextOf(variables[ref].value)
  BY <1>2
<1> HIDE DEF meaning
<1>5. QED
  BY <1>3, <1>4, TemplateStringIs

(* The placeholders of a value that is one node.                           *)
LEMMA RefsInScalar ==
    ASSUME NEW x
    PROVE  /\ ~ AT!Is("str", x) => AT!RefsIn(AT!Scalar(x)) = {}
           /\ AT!RefsOf(x.str) = {} => AT!RefsIn(AT!Scalar(x)) = {}
BY ScalarIs DEF AT!RefsIn

(* A plain text as a value has no placeholders.                            *)
LEMMA PlainString ==
    ASSUME NEW t, PlainText(t) PROVE AT!RefsIn(AT!Scalar([str |-> t])) = {}
<1> DEFINE x == [str |-> t]
<1>1. x.str = t
  OBVIOUS
<1> HIDE DEF x
<1>2. AT!RefsOf(x.str) = {}
  BY <1>1, PlainTextHas
<1>3. AT!RefsIn(AT!Scalar(x)) = {}
  BY <1>2, RefsInScalar
<1>4. QED
  BY <1>3 DEF x

(* No placeholder is left in a string of a YAML document.                  *)
LEMMA YamlStringPlain ==
    ASSUME NEW s, AT!IsText(s), NEW variables, NEW def, NEW r, NEW packages,
           Means(variables, def, r, packages),
           AT!Plain(AT!RefsOf(s), def, r, packages),
           AT!Ok(AT!TemplateYamlString(s, variables))
    PROVE  AT!RefsIn(AT!TemplateYamlString(s, variables).ok) = {}
<1> DEFINE y == AT!TemplateYamlString(s, variables)
<1>1. \A ref \in AT!RefsOf(s) : ref \in DOMAIN variables =>
         /\ TextsIn(variables[ref].value) /\ AT!RefsIn(variables[ref].value) = {}
  BY DEF AT!Plain, Means
<1>2. PlainAt(s, variables)
  BY <1>1, TextOfPlain DEF PlainAt
<1>3. CASE ~(Len(s) = 1 /\ AT!IsRef(s[1]))
  <2> DEFINE t == AT!TemplateString(s, variables)
             refs == AT!RefsOf(s)
             V == {ref \in refs : ref \in DOMAIN variables}
             meaning == [ref \in refs |-> AT!TextOf(variables[ref].value)]
  <2>1. y = IF AT!Ok(t) THEN [ok |-> AT!Scalar([str |-> t.ok])] ELSE AT!Fail
    BY <1>3 DEF AT!TemplateYamlString
  <2>2. AT!Ok(t) /\ y = [ok |-> AT!Scalar([str |-> t.ok])]
    BY <2>1, OkIs
  <2>3. /\ DOMAIN meaning = AT!RefsOf(s)
        /\ \A ref \in AT!RefsOf(s) : ref \in DOMAIN variables =>
              meaning[ref] = AT!TextOf(variables[ref].value)
    OBVIOUS
  <2> HIDE DEF meaning
  <2>4. PlainText(t.ok)
    BY <1>2, <2>2, <2>3, TemplateStringIs
  <2> HIDE DEF t, y
  <2>5. y.ok = AT!Scalar([str |-> t.ok])
    BY <2>2
  <2>6. QED
    BY <2>4, <2>5, PlainString DEF y
<1>4. CASE Len(s) = 1 /\ AT!IsRef(s[1])
  <2> DEFINE ref == s[1].ref
             v == variables[ref]
  <2>1. ref \in DOMAIN variables
    BY <1>4, OkIs DEF AT!TemplateYamlString
  <2>2. y = [ok |-> IF v.type \in {"yaml", "bool", "number"} THEN v.value
                    ELSE AT!Scalar([str |-> AT!TextOf(v.value)])]
    BY <1>4, OkIs DEF AT!TemplateYamlString
  <2>3. ref \in AT!RefsOf(s)
    <3>1. s \in Seq(AT!Range(s))
      BY DEF AT!IsText
    <3>2. 1 \in DOMAIN s
      BY <1>4, <3>1, LenProperties
    <3>3. QED
      BY <1>4, <3>2 DEF AT!RefsOf
  <2>4. AT!RefsIn(v.value) = {} /\ PlainText(AT!TextOf(v.value))
    BY <1>1, <2>1, <2>3, TextOfPlain
  <2>5. AT!RefsIn(AT!Scalar([str |-> AT!TextOf(v.value)])) = {}
    BY <2>4, PlainString
  <2> DEFINE x == IF v.type \in {"yaml", "bool", "number"} THEN v.value
                  ELSE AT!Scalar([str |-> AT!TextOf(v.value)])
  <2>6. AT!RefsIn(x) = {}
    BY <2>4, <2>5
  <2>7. y = [ok |-> x]
    BY <2>2
  <2> HIDE DEF x, y
  <2>8. y.ok = x
    BY <2>7
  <2>9. QED
    BY <2>6, <2>8 DEF y
<1>5. QED
  BY <1>3, <1>4

(* Nor in the document.                                                    *)
LEMMA YamlPlain ==
    ASSUME NEW v, AT!IsValue(v), NEW variables, NEW def, NEW r, NEW packages,
           Means(variables, def, r, packages),
           AT!Plain(AT!RefsIn(v), def, r, packages),
           AT!Ok(AT!TemplateYaml(v, variables))
    PROVE  AT!RefsIn(AT!TemplateYaml(v, variables).ok) = {}
<1> DEFINE y(p) == AT!TemplateYamlString(v[p].str, variables)
           f == [p \in DOMAIN v |-> IF AT!Is("str", v[p]) THEN y(p)
                                    ELSE [ok |-> AT!Scalar(v[p])]]
           c == AT!Collect(f)
           x == AT!TemplateYaml(v, variables)
<1>1. x = IF AT!Ok(c) THEN [ok |-> AT!Graft(c.ok)] ELSE AT!Fail
  BY DEF AT!TemplateYaml
<1> HIDE DEF c, x
<1>2. AT!Ok(c) /\ x = [ok |-> AT!Graft(c.ok)]
  BY <1>1, OkIs DEF x
<1>3. /\ \A p \in DOMAIN f : AT!Ok(f[p])
      /\ c.ok = [p \in DOMAIN f |-> f[p].ok]
  <2> HIDE DEF f
  <2> QED BY <1>2, CollectIs DEF c
<1>4. DOMAIN f = DOMAIN v
  OBVIOUS
<1>5. ASSUME NEW p \in DOMAIN v, AT!Is("str", v[p]) PROVE AT!RefsIn(f[p].ok) = {}
  <2> DEFINE s == v[p].str
  <2>1. AT!IsText(s)
    BY <1>5 DEF AT!IsValue
  <2>2. AT!RefsOf(s) \subseteq AT!RefsIn(v)
    BY <1>5 DEF AT!RefsIn
  <2>3. AT!Plain(AT!RefsOf(s), def, r, packages)
    BY <2>2 DEF AT!Plain
  <2>4. f[p] = y(p) /\ AT!Ok(y(p))
    BY <1>3, <1>4, <1>5
  <2> HIDE DEF s, f
  <2>5. AT!Ok(AT!TemplateYamlString(s, variables))
    BY <2>4 DEF s
  <2>6. AT!RefsIn(AT!TemplateYamlString(s, variables).ok) = {}
    BY <2>1, <2>3, <2>5, YamlStringPlain
  <2>7. QED
    BY <2>4, <2>6 DEF s
<1>6. ASSUME NEW p \in DOMAIN v, ~ AT!Is("str", v[p]) PROVE AT!RefsIn(f[p].ok) = {}
  <2>1. f[p] = [ok |-> AT!Scalar(v[p])]
    BY <1>6
  <2> HIDE DEF f
  <2>2. f[p].ok = AT!Scalar(v[p])
    BY <2>1
  <2>3. QED
    BY <1>6, <2>2, RefsInScalar
<1> HIDE DEF f, y
<1>7. \A p \in DOMAIN c.ok : AT!RefsIn(c.ok[p]) = {}
  BY <1>3, <1>4, <1>5, <1>6
<1>8. AT!RefsIn(AT!Graft(c.ok)) = {}
  BY <1>7, GraftPlain
<1>9. x.ok = AT!Graft(c.ok)
  BY <1>2
<1>10. QED
  BY <1>8, <1>9 DEF x

(* The packages and the fields of a host deployment.                       *)
LEMMA HostRendered ==
    ASSUME NEW d, AT!HostTyped(d), NEW variables, NEW def, NEW r,
           \A packages : Means(variables, def, r, packages),
           AT!Ok(AT!RenderHost(d, variables, r.agent)),
           NEW got, got = AT!RenderHost(d, variables, r.agent).ok
    PROVE  /\ \A f \in DOMAIN got.fields :
                 AT!RenderedAs(got.fields[f], d.fields[f].template, def, r, got.packages)
           /\ \A p \in DOMAIN got.packages :
                 AT!RenderedAs(got.packages[p], d.packages[p], def, r, got.packages)
<1> DEFINE fp == [p \in DOMAIN d.packages |-> AT!TemplateOci(d.packages[p], variables)]
           cp == AT!Collect(fp)
           all == AT!IncludePackagesVariables(variables, cp.ok, r.agent)
           ff == [f \in DOMAIN d.fields |-> AT!TemplateValue(d.fields[f], all)]
           cf == AT!Collect(ff)
           h == AT!RenderHost(d, variables, r.agent)
<1>1. h = IF ~ AT!Ok(cp) THEN AT!Fail
          ELSE IF AT!Ok(cf) THEN [ok |-> [packages |-> cp.ok, fields |-> cf.ok]]
          ELSE AT!Fail
  BY DEF AT!RenderHost
<1> HIDE DEF cp, cf, h
<1>2. /\ AT!Ok(cp) /\ AT!Ok(cf)
      /\ h = [ok |-> [packages |-> cp.ok, fields |-> cf.ok]]
  BY <1>1, OkIs DEF h
<1>3. got.packages = cp.ok /\ got.fields = cf.ok
  <2> DEFINE z == [packages |-> cp.ok, fields |-> cf.ok]
  <2>1. z.packages = cp.ok /\ z.fields = cf.ok /\ h = [ok |-> z]
    BY <1>2
  <2> HIDE DEF z
  <2>2. h.ok = z
    BY <2>1
  <2>3. QED
    BY <2>1, <2>2 DEF h
<1>4. /\ \A p \in DOMAIN fp : AT!Ok(fp[p])
      /\ cp.ok = [p \in DOMAIN fp |-> fp[p].ok]
  <2> HIDE DEF fp
  <2> QED BY <1>2, CollectIs DEF cp
<1>5. /\ \A f \in DOMAIN ff : AT!Ok(ff[f])
      /\ cf.ok = [f \in DOMAIN ff |-> ff[f].ok]
  <2> HIDE DEF ff
  <2> QED BY <1>2, CollectIs DEF cf
<1>6. Means(variables, def, r, cp.ok) /\ Means(all, def, r, cp.ok)
  BY PackagesMean
<1> HIDE DEF all
<1>7. ASSUME NEW p \in DOMAIN cp.ok
      PROVE AT!RenderedAs(cp.ok[p], d.packages[p], def, r, cp.ok)
  <2> DEFINE t == AT!TemplateString(d.packages[p], variables)
  <2>1. p \in DOMAIN d.packages /\ cp.ok[p] = fp[p].ok /\ AT!Ok(fp[p])
    BY <1>4, <1>7
  <2>2. fp[p] = AT!TemplateOci(d.packages[p], variables)
    BY <2>1
  <2> HIDE DEF fp
  <2>3. AT!Ok(t) /\ fp[p] = t
    BY <2>1, <2>2, OkIs DEF AT!TemplateOci
  <2>4. AT!IsText(d.packages[p])
    BY <2>1 DEF AT!HostTyped
  <2>5. AT!RenderedAs(t.ok, d.packages[p], def, r, cp.ok)
    BY <1>6, <2>3, <2>4, TextRendered
  <2>6. QED
    BY <2>1, <2>3, <2>5
<1>8. ASSUME NEW f \in DOMAIN cf.ok
      PROVE AT!RenderedAs(cf.ok[f], d.fields[f].template, def, r, cp.ok)
  <2> DEFINE t == AT!TemplateString(d.fields[f].template, all)
  <2>1. f \in DOMAIN d.fields /\ cf.ok[f] = ff[f].ok /\ AT!Ok(ff[f])
    BY <1>5, <1>8
  <2>2. ff[f] = AT!TemplateValue(d.fields[f], all)
    BY <2>1
  <2> HIDE DEF ff
  <2>3. AT!Ok(t) /\ ff[f] = t
    BY <2>1, <2>2, OkIs DEF AT!TemplateValue
  <2>4. AT!IsText(d.fields[f].template)
    BY <2>1 DEF AT!HostTyped
  <2>5. AT!RenderedAs(t.ok, d.fields[f].template, def, r, cp.ok)
    BY <1>6, <2>3, <2>4, TextRendered
  <2>6. QED
    BY <2>1, <2>3, <2>5
<1>9. QED
  BY <1>3, <1>7, <1>8

(* The objects of a Kubernetes deployment.                                 *)
LEMMA ObjectsRendered ==
    ASSUME NEW d, AT!K8sTyped(d), NEW variables, NEW def, NEW r, NEW packages,
           Means(variables, def, r, packages),
           AT!Ok(AT!RenderK8s(d, variables)),
           NEW got, got = AT!RenderK8s(d, variables).ok
    PROVE  \A o \in DOMAIN got.objects :
              AT!Plain(AT!RefsIn(d.objects[o]), def, r, packages) =>
                 AT!RefsIn(got.objects[o]) = {}
<1> DEFINE cn == AT!Collect([o \in DOMAIN d.names |->
                               AT!TemplateString(d.names[o], variables)])
           fo == [o \in DOMAIN d.objects |-> AT!TemplateYaml(d.objects[o], variables)]
           co == AT!Collect(fo)
           h == AT!RenderK8s(d, variables)
<1>1. h = IF AT!Ok(cn) /\ AT!Ok(co) THEN [ok |-> [names |-> cn.ok, objects |-> co.ok]]
          ELSE AT!Fail
  BY DEF AT!RenderK8s
<1> HIDE DEF cn, co, h
<1>2. AT!Ok(co) /\ h = [ok |-> [names |-> cn.ok, objects |-> co.ok]]
  BY <1>1, OkIs DEF h
<1>3. got.objects = co.ok
  <2> DEFINE z == [names |-> cn.ok, objects |-> co.ok]
  <2>1. z.objects = co.ok /\ h = [ok |-> z]
    BY <1>2
  <2> HIDE DEF z
  <2>2. h.ok = z
    BY <2>1
  <2>3. QED
    BY <2>1, <2>2 DEF h
<1>4. /\ \A o \in DOMAIN fo : AT!Ok(fo[o])
      /\ co.ok = [o \in DOMAIN fo |-> fo[o].ok]
  <2> HIDE DEF fo
  <2> QED BY <1>2, CollectIs DEF co
<1>5. ASSUME NEW o \in DOMAIN co.ok, AT!Plain(AT!RefsIn(d.objects[o]), def, r, packages)
      PROVE AT!RefsIn(co.ok[o]) = {}
  <2>1. o \in DOMAIN d.objects /\ co.ok[o] = fo[o].ok /\ AT!Ok(fo[o])
    BY <1>4, <1>5
  <2>2. fo[o] = AT!TemplateYaml(d.objects[o], variables)
    BY <2>1
  <2> HIDE DEF fo
  <2>3. AT!IsValue(d.objects[o])
    BY <2>1 DEF AT!K8sTyped
  <2>4. AT!RefsIn(AT!TemplateYaml(d.objects[o], variables).ok) = {}
    BY <1>5, <2>1, <2>2, <2>3, YamlPlain
  <2>5. QED
    BY <2>1, <2>2, <2>4
<1>6. QED
  BY <1>3, <1>5

(* What is rendered of a definition and the values of an agent.            *)
LEMMA RenderIs ==
    ASSUME NEW def, DefTyped(def), NEW r, AT!IsValue(r.values),
           AT!Ok(AT!LoadSecrets(r.values)),
           NEW out, out = AT!Render(def, r.values, AT!LoadSecrets(r.values).ok, r.agent),
           AT!Ok(out),
           \A ref \in AT!RefsIn(r.values) :
              ref \in DOMAIN Secrets => AT!RefsOf(Secrets[ref]) = {}
    PROVE  /\ \A p \in AT!Leaves(def.variables) :
                 AT!ValueAccepted(def.variables[p].end,
                                  AT!Revealed(AT!Below(r.values, p)))
           /\ def.environment = "k8s" =>
                 \A o \in DOMAIN out.ok.objects :
                    AT!Plain(AT!RefsIn(def.deployment.objects[o]), def, r, <<>>) =>
                       AT!RefsIn(out.ok.objects[o]) = {}
           /\ def.environment # "k8s" =>
                 /\ \A f \in DOMAIN out.ok.fields :
                       AT!RenderedAs(out.ok.fields[f], def.deployment.fields[f].template,
                                     def, r, out.ok.packages)
                 /\ \A p \in DOMAIN out.ok.packages :
                       AT!RenderedAs(out.ok.packages[p], def.deployment.packages[p],
                                     def, r, out.ok.packages)
<1> DEFINE values == r.values
           secrets == AT!LoadSecrets(values).ok
           expanded == AT!TemplateYaml(values, secrets)
           specs == AT!UpdateSpecs(def.variables, expanded.ok)
           filled == specs.ok
           variables == AT!NamespacedVariables(filled, r.agent)
           rendered == AT!RenderDeployment(def, variables, r.agent)
<1>1. out = IF ~ AT!Ok(expanded) THEN AT!Fail
            ELSE IF ~ AT!Ok(specs) \/ ~ AT!AllPopulated(filled) THEN AT!Fail
            ELSE rendered
  BY DEF AT!Render
<1> HIDE DEF secrets, expanded, specs, rendered, filled
<1>2. AT!Ok(expanded) /\ AT!Ok(specs) /\ AT!AllPopulated(filled) /\ out = rendered
  BY <1>1, OkIs
<1>3. SecretsLoaded(secrets)
  BY LoadSecretsIs DEF secrets
<1>4. PlainSecrets(AT!RefsIn(values))
  <2>1. ASSUME NEW ref \in AT!RefsIn(values), ref \in DOMAIN Secrets
        PROVE PlainText(Secrets[ref])
    <3>1. AT!IsText(Secrets[ref])
      BY <2>1, AgentTypesAssumption DEF AT!Assumptions
    <3>2. QED
      BY <2>1, <3>1, PlainTextIs
  <2>2. QED
    BY <2>1 DEF PlainSecrets
<1>5. /\ expanded.ok = AT!Revealed(values)
      /\ \A p \in DOMAIN values : AT!Is("str", values[p]) =>
            PlainText(AT!Revealed(values)[p].str)
  BY <1>2, <1>3, <1>4, ExpandedIs DEF expanded
<1>6. /\ AT!Leaves(filled) = AT!Leaves(def.variables)
      /\ \A p \in AT!Leaves(def.variables) :
            /\ AT!GetFinalValue(filled[p].end) = ValueOf(def, values, p)
            /\ AT!ValueAccepted(def.variables[p].end, AT!Revealed(AT!Below(values, p)))
  <2>1. /\ AT!Ok(AT!UpdateSpecs(def.variables, AT!Revealed(values)))
        /\ filled = AT!UpdateSpecs(def.variables, AT!Revealed(values)).ok
    BY <1>2, <1>5 DEF specs, filled
  <2>2. QED
    BY <1>2, <2>1, FilledIs
<1>7. \A p \in AT!Leaves(def.variables) : TextsIn(ValueOf(def, values, p))
  BY <1>4, <1>5, ValueTexts
<1>8. \A packages : Means(variables, def, r, packages)
  BY <1>6, <1>7, VariablesMean
<1> HIDE DEF variables
<1>9. CASE def.environment = "k8s"
  <2>1. rendered = AT!RenderK8s(def.deployment, variables)
    BY <1>9 DEF rendered, AT!RenderDeployment
  <2>2. AT!K8sTyped(def.deployment)
    BY <1>9 DEF DefTyped
  <2>3. \A o \in DOMAIN out.ok.objects :
           AT!Plain(AT!RefsIn(def.deployment.objects[o]), def, r, <<>>) =>
              AT!RefsIn(out.ok.objects[o]) = {}
    <3> DEFINE none == <<>>
    <3>1. Means(variables, def, r, none)
      BY <1>8
    <3> HIDE DEF none
    <3>2. out = AT!RenderK8s(def.deployment, variables)
      BY <1>2, <2>1
    <3>3. ASSUME NEW o \in DOMAIN out.ok.objects,
                 AT!Plain(AT!RefsIn(def.deployment.objects[o]), def, r, none)
          PROVE AT!RefsIn(out.ok.objects[o]) = {}
      BY <2>2, <3>1, <3>2, <3>3, ObjectsRendered
    <3>4. QED
      BY <3>3 DEF none
  <2>4. QED
    BY <1>6, <1>9, <2>3
<1>10. CASE def.environment # "k8s"
  <2>1. rendered = AT!RenderHost(def.deployment, variables, r.agent)
    BY <1>10 DEF rendered, AT!RenderDeployment
  <2>2. AT!HostTyped(def.deployment)
    BY <1>10 DEF DefTyped
  <2>3. /\ \A f \in DOMAIN out.ok.fields :
              AT!RenderedAs(out.ok.fields[f], def.deployment.fields[f].template,
                            def, r, out.ok.packages)
        /\ \A p \in DOMAIN out.ok.packages :
              AT!RenderedAs(out.ok.packages[p], def.deployment.packages[p],
                            def, r, out.ok.packages)
    BY <1>2, <1>8, <2>1, <2>2, HostRendered
  <2>4. QED
    BY <1>6, <1>10, <2>3
<1>11. QED
  BY <1>9, <1>10

(* A set of numbers up to m that is not empty has a largest one.           *)
LEMMA LargestOf ==
    ASSUME NEW m \in Nat, NEW S, S \subseteq 1..m, S # {}
    PROVE  \E x \in S : \A y \in S : y =< x
<1> DEFINE T == {m - x : x \in S}
<1>1. T \subseteq Nat /\ T # {}
  <2>1. ASSUME NEW x \in S PROVE m - x \in Nat
    <3>1. x \in 1..m
      OBVIOUS
    <3>2. QED
      BY <3>1
  <2>2. T \subseteq Nat
    BY <2>1
  <2>3. PICK x \in S : TRUE
    OBVIOUS
  <2>4. m - x \in T
    BY <2>3
  <2>5. QED
    BY <2>2, <2>4
<1>2. PICK z \in T : \A y \in T : z =< y
  <2> HIDE DEF T
  <2> QED BY <1>1, SmallestOf
<1>3. PICK x \in S : z = m - x
  BY <1>2
<1>4. \A y \in S : m - x =< m - y
  BY <1>2, <1>3
<1>5. ASSUME NEW y \in S PROVE y =< x
  <2>1. y \in 1..m /\ x \in 1..m
    BY <1>3
  <2>2. m - x =< m - y
    BY <1>4
  <2>3. QED
    BY <2>1, <2>2
<1>6. QED
  BY <1>5

(* Where a definition may come from, and which one is taken.               *)
Documents == AT!Range(Custom) \cup Embedded \cup AT!Range(Artifacts)

(* A usable definition parses to one with the identifier and the           *)
(* environment that are asked for.                                         *)
LEMMA UsableIs ==
    ASSUME NEW doc \in Documents, NEW id, AT!Usable(doc, id)
    PROVE  /\ AT!Ok(AT!FromSlice(doc)) /\ DefTyped(AT!FromSlice(doc).ok)
           /\ AT!FromSlice(doc).ok.id = id
           /\ AT!FromSlice(doc).ok.environment = running
<1>1. doc # NotYaml => AT!DocTyped(doc)
  BY AgentTypesAssumption DEF AT!Assumptions, Documents
<1>2. AT!Ok(AT!FromSlice(doc)) /\ AT!EnvironmentOf(doc) = running /\ doc.id = id
  BY DEF AT!Usable
<1>3. QED
  BY <1>1, <1>2, FromSliceIs

(* What the registry answers is the definition asked for, from the         *)
(* last usable custom file if there is one.                                *)
LEMMA RegistryIs ==
    ASSUME NEW id, NEW reachable, AT!Ok(AT!RegistryGet(id, reachable)),
           published \subseteq DOMAIN Artifacts,
           NEW def, def = AT!RegistryGet(id, reachable).ok
    PROVE  /\ DefTyped(def) /\ def.id = id /\ def.environment = running
           /\ \A i \in DOMAIN Custom :
                /\ AT!Usable(Custom[i], id)
                /\ \A j \in i+1..Len(Custom) : ~ AT!Usable(Custom[j], id)
                => def = AT!FromSlice(Custom[i]).ok
<1> DEFINE custom == {i \in DOMAIN Custom : AT!Usable(Custom[i], id)}
           embedded == {d \in Embedded : AT!Usable(d, id)}
           last == CHOOSE i \in custom : \A j \in custom : j <= i
           local == AT!LocalRegistry(id)
           remote == AT!RemoteRegistry(id, reachable)
<1>0. Len(Custom) \in Nat /\ DOMAIN Custom = 1..Len(Custom)
  BY AgentTypesAssumption, LenProperties DEF AT!Assumptions
<1>1. CASE custom # {}
  <2>1. \E i \in custom : \A j \in custom : j <= i
    <3>1. custom \subseteq 1..Len(Custom)
      BY <1>0
    <3> HIDE DEF custom
    <3>2. QED
      BY <1>0, <1>1, <3>1, LargestOf
  <2>2. last \in custom /\ \A j \in custom : j <= last
    <3> HIDE DEF custom
    <3> QED BY <2>1
  <2>3. local = AT!FromSlice(Custom[last])
    BY <1>1 DEF AT!LocalRegistry
  <2> HIDE DEF last
  <2>4. last \in DOMAIN Custom /\ AT!Usable(Custom[last], id) /\ Custom[last] \in Documents
    BY <2>2 DEF Documents, AT!Range
  <2>5. /\ AT!Ok(AT!FromSlice(Custom[last])) /\ DefTyped(AT!FromSlice(Custom[last]).ok)
        /\ AT!FromSlice(Custom[last]).ok.id = id
        /\ AT!FromSlice(Custom[last]).ok.environment = running
    BY <2>4, UsableIs
  <2>6. def = AT!FromSlice(Custom[last]).ok
    BY <2>3, <2>5 DEF AT!RegistryGet
  <2>7. ASSUME NEW i \in DOMAIN Custom, AT!Usable(Custom[i], id),
               \A j \in i+1..Len(Custom) : ~ AT!Usable(Custom[j], id)
        PROVE i = last
    <3>1. i \in 1..Len(Custom) /\ last \in 1..Len(Custom) /\ i <= last
      BY <1>0, <2>2, <2>4, <2>7
    <3>2. last \notin i+1..Len(Custom)
      BY <2>4, <2>7
    <3>3. QED
      BY <1>0, <3>1, <3>2
  <2>8. QED
    BY <2>5, <2>6, <2>7
<1>2. CASE custom = {}
  <2>1. \A i \in DOMAIN Custom : ~ AT!Usable(Custom[i], id)
    BY <1>2
  <2>2. CASE AT!Ok(local)
    <3> DEFINE d == CHOOSE d \in embedded : TRUE
    <3>1. embedded # {} /\ local = AT!FromSlice(d)
      BY <1>2, <2>2, OkIs DEF AT!LocalRegistry
    <3>2. d \in embedded
      <4> HIDE DEF embedded
      <4> QED BY <3>1
    <3> HIDE DEF d
    <3>3. d \in Documents /\ AT!Usable(d, id)
      BY <3>2 DEF Documents
    <3>4. def = AT!FromSlice(d).ok
      BY <2>2, <3>1 DEF AT!RegistryGet
    <3>5. QED
      BY <2>1, <3>3, <3>4, UsableIs
  <2>3. CASE ~ AT!Ok(local)
    <3> DEFINE t == AT!AgentTypeTag(id)
               d == AT!FromSlice(Artifacts[t])
    <3>1. AT!Ok(remote) /\ def = remote.ok
      BY <2>3 DEF AT!RegistryGet
    <3>2. /\ t \in published /\ AT!Ok(d) /\ AT!CheckMetadata(d.ok, id)
          /\ remote = d
      BY <3>1, OkIs DEF AT!RemoteRegistry
    <3>3. Artifacts[t] \in Documents
      BY <3>2 DEF Documents, AT!Range
    <3>4. Artifacts[t] # NotYaml => AT!DocTyped(Artifacts[t])
      BY <3>3, AgentTypesAssumption DEF AT!Assumptions, Documents
    <3>5. DefTyped(d.ok)
      BY <3>2, <3>4, FromSliceIs
    <3>6. d.ok.environment = running /\ d.ok.id = id
      BY <3>2 DEF AT!CheckMetadata
    <3> HIDE DEF d
    <3>7. QED
      BY <2>1, <3>1, <3>2, <3>5, <3>6
  <2>4. QED
    BY <2>2, <2>3
<1>3. QED
  BY <1>1, <1>2

(* The agent that is assembled is one that was asked for.                  *)
AssemblyInv ==
    /\ atPc = "accepted" => atRequest \in AgentRequests
    /\ published \subseteq DOMAIN Artifacts
    /\ AssembledRight

(* The assembly of an agent keeps the invariant.                           *)
LEMMA AssembleStep ==
    ASSUME AssemblyInv, NEW reachable \in BOOLEAN, AT!AssembleAgent(reachable)
    PROVE  AssemblyInv'
<1> DEFINE def == AT!RegistryGet(atRequest.type, reachable)
           secrets == AT!LoadSecrets(atRequest.values)
           r == atRequest
<1>1. /\ atPc = "accepted" /\ atPc' = "done"
      /\ found' = IF AT!Ok(def) THEN def.ok ELSE NoResult
      /\ atOutcome' = IF AT!Ok(def) /\ AT!Ok(secrets)
                      THEN AT!Render(def.ok, r.values, secrets.ok, r.agent) ELSE AT!Fail
      /\ running' = running /\ published' = published /\ atRequest' = r
  BY DEF AT!AssembleAgent
<1>2. r \in AgentRequests /\ published \subseteq DOMAIN Artifacts /\ AT!IsValue(r.values)
  BY <1>1, AgentTypesAssumption DEF AssemblyInv, AT!Assumptions
<1>3. ASSUME found' # NoResult
      PROVE  /\ AT!Ok(def) /\ found' = def.ok
             /\ DefTyped(found') /\ found'.id = r.type /\ found'.environment = running
             /\ \A i \in DOMAIN Custom :
                  /\ AT!Usable(Custom[i], r.type)
                  /\ \A j \in i+1..Len(Custom) : ~ AT!Usable(Custom[j], r.type)
                  => found' = AT!FromSlice(Custom[i]).ok
  <2>1. AT!Ok(def) /\ found' = def.ok
    BY <1>1, <1>3
  <2>2. QED
    BY <1>2, <2>1, RegistryIs
<1>4. AT!TypeAsRequested'
  BY <1>1, <1>3 DEF AT!TypeAsRequested, AT!Usable
<1>5. AT!RenderedRight'
  <2>1. SUFFICES ASSUME found' # NoResult, AT!Ok(atOutcome'),
                        \A ref \in AT!RefsIn(r.values) :
                           ref \in DOMAIN Secrets => AT!RefsOf(Secrets[ref]) = {}
        PROVE /\ \A p \in AT!Leaves(found'.variables) :
                    AT!ValueAccepted(found'.variables[p].end,
                                     AT!Revealed(AT!Below(r.values, p)))
              /\ running = "k8s" =>
                    \A o \in DOMAIN atOutcome'.ok.objects :
                       AT!Plain(AT!RefsIn(found'.deployment.objects[o]), found', r, <<>>) =>
                          AT!RefsIn(atOutcome'.ok.objects[o]) = {}
              /\ running # "k8s" =>
                    /\ \A f \in DOMAIN atOutcome'.ok.fields :
                          AT!RenderedAs(atOutcome'.ok.fields[f],
                                        found'.deployment.fields[f].template,
                                        found', r, atOutcome'.ok.packages)
                    /\ \A p \in DOMAIN atOutcome'.ok.packages :
                          AT!RenderedAs(atOutcome'.ok.packages[p],
                                        found'.deployment.packages[p],
                                        found', r, atOutcome'.ok.packages)
    BY <1>1 DEF AT!RenderedRight
  <2>2. /\ DefTyped(found') /\ found'.environment = running /\ found' = def.ok /\ AT!Ok(def)
    BY <1>3, <2>1
  <2>3. AT!Ok(secrets) /\ atOutcome' = AT!Render(found', r.values, secrets.ok, r.agent)
    BY <1>1, <2>1, <2>2, OkIs
  <2>4. QED
    BY <1>2, <2>1, <2>2, <2>3, RenderIs
<1>6. QED
  BY <1>1, <1>2, <1>4, <1>5 DEF AssemblyInv, AssembledRight, AT!AssembledRight

(* Every step keeps the invariant.                                         *)
LEMMA AssemblyStep == AssemblyInv /\ [AT!Next]_AT!vars => AssemblyInv'
<1>1. SUFFICES ASSUME AssemblyInv, [AT!Next]_AT!vars PROVE AssemblyInv'
  OBVIOUS
<1>2. ASSUME UNCHANGED <<running, atRequest, atPc, found, atOutcome>>
      PROVE AssembledRight'
  BY <1>1, <1>2 DEF AssemblyInv, AssembledRight, AT!AssembledRight, AT!TypeAsRequested,
                    AT!RenderedRight, AT!Usable
<1>3. ASSUME NEW t \in DOMAIN Artifacts, AT!Publish(t) PROVE AssemblyInv'
  BY <1>1, <1>2, <1>3 DEF AT!Publish, AssemblyInv
<1>4. ASSUME NEW r \in AgentRequests, NEW reachable \in BOOLEAN, AT!Validate(r, reachable)
      PROVE AssemblyInv'
  <2>1. atPc' # "done" /\ atRequest' = r /\ published' = published
    BY <1>4 DEF AT!Validate
  <2>2. QED
    BY <1>1, <2>1 DEF AssemblyInv, AssembledRight, AT!AssembledRight, AT!TypeAsRequested,
                      AT!RenderedRight
<1>5. CASE UNCHANGED AT!vars
  <2>1. UNCHANGED <<running, atRequest, atPc, found, atOutcome>> /\ published' = published
    BY <1>5 DEF AT!vars
  <2>2. QED
    BY <1>1, <1>2, <2>1 DEF AssemblyInv
<1>6. QED
  BY <1>1, <1>3, <1>4, <1>5, AssembleStep DEF AT!Next

(* Whatever the registries hold and answer and in whatever order they are  *)
(* filled, the sub-agent assembles the definition that its configuration   *)
(* names, with the values that it gives, for all definitions, values,      *)
(* secrets and constraints.                                                *)
THEOREM AssembledRightCorrect ==
    AT!Spec => []AssembledRight
<1>1. AT!Init => AssemblyInv
  BY DEF AT!Init, AssemblyInv, AssembledRight, AT!AssembledRight, AT!TypeAsRequested,
         AT!RenderedRight
<1>2. AssemblyInv => AssembledRight
  BY DEF AssemblyInv
<1>3. QED
  BY <1>1, <1>2, AssemblyStep, PTL DEF AT!Spec
=============================================================================
