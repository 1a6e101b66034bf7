--------------------------- MODULE UsageLog_proofs ---------------------------
(***************************************************************************)
(* The invariants of UsageLog, for any number of processes, notes, rows,   *)
(* lines and faults, in layers.                                            *)
(*                                                                         *)
(*   LocalInv      who holds the lock, what a process carries along, and   *)
(*                 that the last line is the one being written while a     *)
(*                 write is under way.                                     *)
(*   KeptInv       + what the rewriting will drop has been saved: what is  *)
(*                 appended is never forgotten.                            *)
(*   IndexInv      + what an index says of the archives and the ledger,    *)
(*                 and what the ledger is like for a process that nobody   *)
(*                 has disturbed: its synchronisation repairs.             *)
(*   FaultlessInv  + without a fault, the archives, the ledger and the     *)
(*                 write under way hold what was acked, and nothing twice. *)
(*                                                                         *)
(* First come the facts about ledgers - which lines are valid, what a      *)
(* recovery and a write do to them -, then what each action does to the    *)
(* record of its process and to the others, then the layers.               *)
(***************************************************************************)
EXTENDS UsageLog, FiniteSetTheorems, TLAPS

\* The archives without a malformed line.
Good == archives \ BadArchives
GoodArchived == UNION {Attempts(a) : a \in Good}
Clean(f) == BadArchives = {} /\ ~Corrupt(f)

\* What an index that was built for the archives and the ledger f may be used for: ...
Covers(f, S) ==
  /\ GoodArchived \subseteq S
  /\ ~Corrupt(f) => Attempts(f) \subseteq S
  /\ Clean(f) => S = Archived \cup Attempts(f)

\* The ledger when the write under way is complete.
Completed(f, r) ==
  [f EXCEPT ![Len(f)] = [of |-> @.of \cup {r}, ended |-> TRUE,
                         kind |-> IF @.kind = "mixed" THEN "mixed" ELSE "whole"]]
Done(p) == Completed(active, proc[p].rec)

\* Where a process holds the lock.
Locked == {"archives", "mend", "rewrite", "write", "rest"}
In(p, S) == proc[p].pc \in S

\* A line that is one record has the text of one record.
LineOK(l) == /\ l.kind = "part" => l.of = {}
             /\ l.kind = "whole" => \E r \in Records : l.of = {r}
FileOK(f) == f \in Seq(Line) /\ Len(f) <= MaxLines /\ \A i \in DOMAIN f : LineOK(f[i])

\* The lock, and what a process carries along.
Local(p) ==
  /\ In(p, Locked) => lock = p
  /\ lock = p => In(p, Locked \cup {"append"})
  /\ In(p, {"append", "write", "rest"}) => proc[p].rec \in Records
  /\ In(p, {"idle", "recover", "archives", "list", "read", "ready"}) => proc[p].rec = None
  /\ proc[p].todo \subseteq Rows
  /\ proc[p].rec \in Ids => proc[p].rec \in Rows
  /\ proc[p].home = "ready" => proc[p].rec \notin Notes
  /\ proc[p].home = "idle" => ~proc[p].calm
  /\ At(p, "idle") => proc[p].home = "idle"
  /\ At(p, "rest") =>
       /\ active # <<>> /\ ~Last(active).ended
       /\ Last(active).kind = "whole" => Last(active).of = {proc[p].rec}

LocalInv ==
  /\ UsageTypeOK
  /\ FileOK(active) /\ \A a \in archives : FileOK(a)
  /\ \A p \in Procs : Local(p)

\* What the rewriting will drop has been saved.
Saved(p) ==
  At(p, "rewrite") => \A i \in DOMAIN active \ Valid(active) : active[i] \in quarantine

KeptInv ==
  /\ LocalInv
  /\ NothingForgotten
  /\ \A p \in Procs : Saved(p)

\* An index, kept or under construction, and the record that is not in it.
Indexed(p) ==
  /\ cache[p] # None => Covers(active, cache[p])
  /\ At(p, "read") /\ proc[p].sig =>
       BadArchives = {} /\ proc[p].known = Archived /\ (proc[p].saw <=> active # <<>>)
  /\ At(p, "write") => Covers(active, proc[p].known) /\ proc[p].rec \notin proc[p].known
  /\ At(p, "rest") =>
       /\ Attempts(Done(p)) \cap GoodArchived = {}
       /\ Covers(Done(p), proc[p].known \cup ({proc[p].rec} \cap Ids))

AllEnded(f) == \A i \in DOMAIN f : f[i].ended

\* What the ledger is like for a process that nobody has disturbed since it looked.
Undisturbed(p) ==
  proc[p].calm =>
    /\ \A q \in Procs \ {p} : ~At(q, "rest")
    /\ In(p, {"mend", "rewrite"}) => BadArchives = {} /\ proc[p].rec = None
    /\ In(p, {"list", "read", "ready", "append", "write"}) => Clean(active) /\ AllEnded(active)
    /\ At(p, "rest") => Clean(Done(p)) /\ AllEnded(Done(p))
    /\ At(p, "read") => proc[p].sig
    /\ In(p, {"ready", "append", "write"}) =>
         Rows \ (proc[p].todo \cup {proc[p].rec}) \subseteq Archived \cup Attempts(active)
    /\ At(p, "rest") =>
         Rows \ proc[p].todo \subseteq Archived \cup Attempts(Done(p)) \cup {proc[p].rec}

IndexInv ==
  /\ LocalInv
  /\ Attempts(active) \cap GoodArchived = {}
  /\ \A a, b \in Good : a # b => Attempts(a) \cap Attempts(b) = {}
  /\ \A p \in Procs : Indexed(p) /\ Undisturbed(p)

\* The records of a ledger without a malformed line.
Texts(f) == UNION {f[i].of : i \in DOMAIN f}
Intact(f) == /\ \A i \in DOMAIN f : f[i].kind = "whole" /\ f[i].ended
             /\ \A i, j \in DOMAIN f : i # j => f[i].of \cap f[j].of = {}
Apart(f, g) == Texts(f) \cap Texts(g) = {}

\* The archives and the ledger f hold what is acked and S, once.
Holds(f, S) ==
  /\ Intact(f) /\ \A a \in archives : Apart(f, a)
  /\ acked \cup S = Texts(f) \cup UNION {Texts(a) : a \in archives}

IntactArchives ==
  /\ quarantine = {} /\ \A a \in archives : Intact(a)
  /\ \A a, b \in archives : a # b => Apart(a, b)

IntactLedger ==
  /\ (\A p \in Procs : ~At(p, "rest")) => Holds(active, {})
  /\ \A p \in Procs : At(p, "rest") =>
       Holds(Done(p), {proc[p].rec}) /\ proc[p].rec \notin acked

\* A note is written by the one process that has it.
NotesOnce ==
  /\ \A p \in Procs : proc[p].rec \in Notes => proc[p].rec \notin acked
  /\ \A p, q \in Procs : p # q /\ proc[p].rec = proc[q].rec => proc[p].rec \notin Notes

FaultlessInv ==
  /\ IndexInv
  /\ faults = 0 => IntactArchives /\ IntactLedger /\ NotesOnce

-----------------------------------------------------------------------------
(* Ledgers.                                                                 *)

LEMMA AttemptsAre ==
  ASSUME NEW f, NEW x
  PROVE  x \in Attempts(f) <=> x \in Ids /\ \E i \in Valid(f) : x \in f[i].of
BY DEF Attempts

TheLine(s, k, b) == [of |-> s, kind |-> k, ended |-> b]

LEMMA LineIs ==
  ASSUME NEW s \in SUBSET Records, NEW k \in {"part", "whole", "mixed"}, NEW b \in BOOLEAN
  PROVE  /\ TheLine(s, k, b) \in Line
         /\ TheLine(s, k, b).of = s /\ TheLine(s, k, b).kind = k /\ TheLine(s, k, b).ended = b
BY DEF Line, TheLine

LEMMA NewLastLine ==
  ASSUME NEW f \in Seq(Line), NEW n \in Nat, Len(f) = n + 1, NEW l \in Line,
         NEW g, g = [f EXCEPT ![n + 1] = l]
  PROVE  g \in Seq(Line) /\ Len(g) = n + 1 /\ g[n + 1] = l /\ \A i \in 1 .. n : g[i] = f[i]
<1>1. f \in [1 .. n + 1 -> Line] /\ n + 1 \in 1 .. n + 1 /\ n + 1 \in Nat
  OBVIOUS
<1>2. g \in [1 .. n + 1 -> Line] /\ g[n + 1] = l /\ \A i \in 1 .. n : g[i] = f[i]
  BY <1>1
<1>3. g \in Seq(Line) /\ Len(g) = n + 1
  BY <1>1, <1>2
<1> QED BY <1>2, <1>3

\* A nonempty set of numbers has a least one: the library's subset ordering is
\* well-founded on the finite sets 0 .. n.
LEMMA LeastNat ==
  ASSUME NEW T \in SUBSET Nat, T # {}
  PROVE  \E m \in T : \A n \in T : m <= n
<1> DEFINE F == {0 .. n : n \in T}
           R == StrictSubsetOrdering(Nat)
           G == FiniteSubsetsOf(Nat)
<1>1. IsWellFoundedOn(R, G)
  BY FS_StrictSubsetOrderingWellFounded
<1>2. F # {} /\ F \subseteq G
  <2> SUFFICES ASSUME NEW n \in T PROVE 0 .. n \in FiniteSubsetsOf(Nat)
    OBVIOUS
  <2>1. IsFiniteSet(0 .. n) /\ 0 .. n \subseteq Nat
    BY FS_Interval
  <2> QED BY <2>1 DEF FiniteSubsetsOf
<1>3. /\ \A B \in F : \E m \in T : B = 0 .. m
      /\ \A n \in T : 0 .. n \in F
      /\ F \subseteq SUBSET Nat
  OBVIOUS
<1>4. \A A, B \in F : <<B, A>> \in R <=> B \subseteq A /\ B # A
  BY <1>3 DEF StrictSubsetOrdering
<1> HIDE DEF F, R, G
<1>5. PICK A \in F : \A B \in F : ~ (<<B, A>> \in R)
  BY <1>1, <1>2, WFMin
<1>6. PICK m \in T : A = 0 .. m
  BY <1>3
<1>7. ASSUME NEW n \in T, ~(m <= n) PROVE FALSE
  <2>1. 0 .. n \subseteq 0 .. m /\ m \notin 0 .. n /\ m \in 0 .. m
    BY <1>7
  <2>2. 0 .. n \in F /\ 0 .. n \subseteq A /\ 0 .. n # A
    BY <1>3, <1>6, <2>1
  <2>3. <<0 .. n, A>> \in R
    BY <1>4, <2>2
  <2> QED BY <1>5, <2>2, <2>3
<1> QED BY <1>7

LEMMA ValidLines ==
  ASSUME NEW f, FileOK(f)
  PROVE  /\ Valid(f) \subseteq DOMAIN f /\ DOMAIN f = 1 .. Len(f) /\ Len(f) \in Nat
         /\ IsFiniteSet(Valid(f)) /\ Cardinality(Valid(f)) \in Nat
         /\ Cardinality(Valid(f)) <= Len(f)
         /\ Cardinality(DOMAIN f) = Len(f)
<1>1. DOMAIN f = 1 .. Len(f) /\ Len(f) \in Nat /\ Valid(f) \subseteq DOMAIN f
  BY DEF FileOK, Valid
<1>2. IsFiniteSet(DOMAIN f) /\ Cardinality(DOMAIN f) = Len(f)
  BY <1>1, FS_Interval
<1> QED BY <1>1, <1>2, FS_Subset, FS_CardinalityType

\* Two valid lines have no attempt in common.
LEMMA ValidApart ==
  ASSUME NEW f, FileOK(f), NEW i \in Valid(f), NEW j \in Valid(f), i # j
  PROVE  f[i].of \cap f[j].of \cap Ids = {}
<1>1. i \in Nat /\ j \in Nat /\ i >= 1 /\ j >= 1
  BY DEF Valid, FileOK
<1>2. CASE i < j
  <2>1. i \in 1 .. j - 1
    BY <1>1, <1>2
  <2> QED BY <2>1 DEF Valid
<1>3. CASE j < i
  <2>1. j \in 1 .. i - 1
    BY <1>1, <1>3
  <2> QED BY <2>1 DEF Valid
<1> QED BY <1>1, <1>2, <1>3

\* The rank counts the valid lines: every number up to their number is a rank.
LEMMA RankCounts ==
  ASSUME NEW f, FileOK(f)
  PROVE  /\ \A i \in Valid(f) : Rank(f, i) \in 1 .. Cardinality(Valid(f))
         /\ \A i, j \in Valid(f) : Rank(f, i) = Rank(f, j) => i = j
         /\ \A n \in 1 .. Cardinality(Valid(f)) : \E i \in Valid(f) : Rank(f, i) = n
<1> DEFINE V == Valid(f)
           Upto(i) == {j \in V : j <= i}
           rank == [i \in V |-> Rank(f, i)]
<1>1. V \subseteq Nat /\ IsFiniteSet(V) /\ Cardinality(V) \in Nat
  BY ValidLines
<1>2. ASSUME NEW i \in V
      PROVE  /\ IsFiniteSet(Upto(i)) /\ Cardinality(Upto(i)) \in 1 .. Cardinality(V)
  <2>1. IsFiniteSet(Upto(i)) /\ Cardinality(Upto(i)) <= Cardinality(V)
    BY <1>1, FS_Subset
  <2>2. Cardinality(Upto(i)) \in Nat
    BY <2>1, FS_CardinalityType
  <2>3. i \in Upto(i)
    BY <1>1
  <2>4. Cardinality(Upto(i)) # 0
    BY <2>1, <2>3, FS_EmptySet
  <2> QED BY <1>1, <2>1, <2>2, <2>4
<1>3. \A i \in V : Rank(f, i) = Cardinality(Upto(i))
  BY DEF Rank
<1>4. ASSUME NEW i \in V, NEW j \in V, Rank(f, i) = Rank(f, j), i < j
      PROVE  FALSE
  <2>1. Upto(i) \subseteq Upto(j) /\ j \in Upto(j) /\ j \notin Upto(i)
    BY <1>1, <1>4
  <2>2. Upto(i) = Upto(j)
    BY <1>2, <1>3, <1>4, <2>1, FS_Subset
  <2> QED BY <2>1, <2>2
<1>5. \A i, j \in V : Rank(f, i) = Rank(f, j) => i = j
  BY <1>1, <1>4
<1>6. rank \in Injection(V, 1 .. Cardinality(V))
  <2>1. rank \in [V -> 1 .. Cardinality(V)]
    BY <1>2, <1>3
  <2> HIDE DEF V
  <2>2. \A i, j \in V : rank[i] = rank[j] => i = j
    BY <1>5
  <2> HIDE DEF rank
  <2> QED BY <2>1, <2>2 DEF Injection, IsInjective
<1>7. IsFiniteSet(1 .. Cardinality(V)) /\ Cardinality(1 .. Cardinality(V)) = Cardinality(V)
  BY <1>1, FS_Interval
<1>8. rank \in Surjection(V, 1 .. Cardinality(V))
  BY <1>6, <1>7, FS_Injection
<1>9. \A n \in 1 .. Cardinality(V) : \E i \in V : rank[i] = n
  BY <1>8 DEF Surjection
<1> QED BY <1>2, <1>3, <1>5, <1>9

Ended(line) == [line EXCEPT !.ended = TRUE]

LEMMA EndedLine ==
  ASSUME NEW l \in Line
  PROVE  /\ Ended(l) \in Line /\ Ended(l).of = l.of /\ Ended(l).kind = l.kind
         /\ Ended(l).ended /\ (l.ended => Ended(l) = l)
<1>1. /\ Ended(l) \in Line /\ Ended(l).of = l.of /\ Ended(l).kind = l.kind
      /\ Ended(l).ended
  BY DEF Line, Ended
<1>2. ASSUME l.ended PROVE Ended(l) = l
  <2>1. l.ended = TRUE
    BY <1>2 DEF Line
  <2> QED BY <2>1 DEF Line, Ended
<1> QED BY <1>1, <1>2

\* The lines of a canonical ledger are the valid lines, each of them once.
LEMMA CanonicalLines ==
  ASSUME NEW f, FileOK(f)
  PROVE  /\ Canonical(f) \in Seq(Line) /\ Len(Canonical(f)) = Cardinality(Valid(f))
         /\ \A n \in DOMAIN Canonical(f) :
              \E i \in Valid(f) : Rank(f, i) = n /\ Canonical(f)[n] = Ended(f[i])
         /\ \A i \in Valid(f) :
              Rank(f, i) \in DOMAIN Canonical(f) /\ Canonical(f)[Rank(f, i)] = Ended(f[i])
<1> DEFINE k == Cardinality(Valid(f))
           At1(n) == CHOOSE i \in Valid(f) : Rank(f, i) = n
           c == Canonical(f)
<1>1. c = [n \in 1 .. k |-> Ended(f[At1(n)])] /\ k \in Nat
  BY ValidLines DEF Canonical, Ended
<1>2. \A n \in 1 .. k : At1(n) \in Valid(f) /\ Rank(f, At1(n)) = n
  BY RankCounts
<1>3. \A i \in Valid(f) : Ended(f[i]) \in Line
  BY ValidLines, EndedLine DEF FileOK
<1> HIDE DEF At1, k
<1>4. c \in Seq(Line) /\ Len(c) = k /\ DOMAIN c = 1 .. k
  <2>1. c \in [1 .. k -> Line]
    BY <1>1, <1>2, <1>3
  <2> HIDE DEF c
  <2> QED BY <1>1, <2>1
<1>5. \A n \in DOMAIN c : \E i \in Valid(f) : Rank(f, i) = n /\ c[n] = Ended(f[i])
  BY <1>1, <1>2, <1>4
<1>6. ASSUME NEW i \in Valid(f)
      PROVE  Rank(f, i) \in DOMAIN c /\ c[Rank(f, i)] = Ended(f[i])
  <2>1. Rank(f, i) \in 1 .. k
    BY RankCounts DEF k
  <2>2. At1(Rank(f, i)) = i
    BY <1>2, <2>1, RankCounts
  <2> QED BY <1>1, <1>4, <2>1, <2>2
<1> QED BY <1>4, <1>5, <1>6 DEF k

\* A recovery keeps every attempt and leaves nothing malformed.
LEMMA CanonicalClean ==
  ASSUME NEW f, FileOK(f)
  PROVE  /\ FileOK(Canonical(f)) /\ ~Corrupt(Canonical(f)) /\ AllEnded(Canonical(f))
         /\ Attempts(Canonical(f)) = Attempts(f)
<1> DEFINE c == Canonical(f)
<1>1. /\ c \in Seq(Line) /\ Len(c) = Cardinality(Valid(f)) /\ DOMAIN c = 1 .. Len(c)
      /\ \A n \in DOMAIN c : \E i \in Valid(f) : Rank(f, i) = n /\ c[n] = Ended(f[i])
      /\ \A i \in Valid(f) : Rank(f, i) \in DOMAIN c /\ c[Rank(f, i)] = Ended(f[i])
  BY CanonicalLines
<1> HIDE DEF c
<1>2. \A i \in Valid(f) : /\ f[i] \in Line /\ f[i].kind = "whole" /\ LineOK(f[i])
                          /\ Ended(f[i]).of = f[i].of
                          /\ Ended(f[i]).kind = "whole" /\ Ended(f[i]).ended
  <2> SUFFICES ASSUME NEW i \in Valid(f)
               PROVE  /\ f[i] \in Line /\ f[i].kind = "whole" /\ LineOK(f[i])
                      /\ Ended(f[i]).of = f[i].of
                      /\ Ended(f[i]).kind = "whole" /\ Ended(f[i]).ended
    OBVIOUS
  <2>1. f[i] \in Line /\ f[i].kind = "whole" /\ LineOK(f[i])
    BY DEF Valid, FileOK
  <2> QED BY <2>1, EndedLine
<1>3. \A n \in DOMAIN c : c[n].kind = "whole" /\ c[n].ended /\ LineOK(c[n])
  BY <1>1, <1>2 DEF LineOK
<1>4. FileOK(c) /\ AllEnded(c)
  <2>1. Len(f) \in Nat /\ Len(f) <= MaxLines /\ Cardinality(Valid(f)) <= Len(f)
        /\ Cardinality(Valid(f)) \in Nat
    BY ValidLines DEF FileOK
  <2>2. Len(c) <= MaxLines
    BY <1>1, <2>1, UsageAssumption
  <2> QED BY <1>1, <1>3, <2>2 DEF FileOK, AllEnded
<1>5. ASSUME NEW m \in DOMAIN c, NEW n \in DOMAIN c, m # n
      PROVE  c[m].of \cap c[n].of \cap Ids = {}
  <2>1. PICK i \in Valid(f) : Rank(f, i) = m /\ c[m] = Ended(f[i])
    BY <1>1
  <2>2. PICK j \in Valid(f) : Rank(f, j) = n /\ c[n] = Ended(f[j])
    BY <1>1
  <2>3. f[i].of \cap f[j].of \cap Ids = {}
    BY <1>5, <2>1, <2>2, ValidApart
  <2> QED BY <1>2, <2>1, <2>2, <2>3
<1>6. Valid(c) = DOMAIN c
  <2> SUFFICES ASSUME NEW n \in DOMAIN c, NEW m \in 1 .. n - 1
               PROVE  c[m].of \cap c[n].of \cap Ids = {}
    BY <1>3 DEF Valid
  <2>1. m \in DOMAIN c /\ m # n
    BY <1>1
  <2> QED BY <1>5, <2>1
<1>7. Attempts(c) = Attempts(f)
  <2>1. ASSUME NEW n \in DOMAIN c PROVE \E i \in Valid(f) : c[n].of = f[i].of
    BY <1>1, <1>2
  <2>2. ASSUME NEW i \in Valid(f) PROVE \E n \in DOMAIN c : c[n].of = f[i].of
    BY <1>1, <1>2
  <2> QED BY <1>6, <2>1, <2>2 DEF Attempts
<1> QED BY <1>4, <1>6, <1>7 DEF Corrupt, c

\* The ledgers that need no recovery.
LEMMA CanonicalFixed ==
  ASSUME NEW f, FileOK(f)
  PROVE  Canonical(f) = f <=> ~Corrupt(f) /\ AllEnded(f)
<1>1. ASSUME Canonical(f) = f PROVE ~Corrupt(f) /\ AllEnded(f)
  BY <1>1, CanonicalClean
<1>2. ASSUME ~Corrupt(f), AllEnded(f) PROVE Canonical(f) = f
  <2>1. Valid(f) = 1 .. Len(f) /\ Len(f) \in Nat /\ Cardinality(Valid(f)) = Len(f)
    BY <1>2, ValidLines DEF Corrupt
  <2>2. ASSUME NEW n \in 1 .. Len(f) PROVE Rank(f, n) = n
    <3>1. {j \in Valid(f) : j <= n} = 1 .. n
      BY <2>1
    <3>2. Cardinality(1 .. n) = n
      BY <2>1, FS_Interval
    <3> QED BY <3>1, <3>2 DEF Rank
  <2>3. ASSUME NEW n \in 1 .. Len(f) PROVE Canonical(f)[n] = f[n]
    <3>1. Canonical(f)[n] = Ended(f[n])
      BY <2>1, <2>2, CanonicalLines
    <3>2. f[n] \in Line /\ f[n].ended
      BY <1>2 DEF FileOK, AllEnded
    <3> QED BY <3>1, <3>2, EndedLine
  <2>4. /\ Canonical(f) \in Seq(Line) /\ f \in Seq(Line)
        /\ Len(Canonical(f)) = Len(f)
    BY <2>1, CanonicalLines DEF FileOK
  <2> QED BY <2>3, <2>4
<1> QED BY <1>1, <1>2

\* Whether a line is valid depends on the lines before it.
LEMMA SamePrefix ==
  ASSUME NEW f \in Seq(Line), NEW g \in Seq(Line), NEW n \in Nat,
         n <= Len(f), n <= Len(g), \A i \in 1 .. n : f[i] = g[i]
  PROVE  \A i \in 1 .. n : i \in Valid(f) <=> i \in Valid(g)
<1> SUFFICES ASSUME NEW i \in 1 .. n PROVE i \in Valid(f) <=> i \in Valid(g)
  OBVIOUS
<1>1. i \in DOMAIN f /\ i \in DOMAIN g /\ f[i] = g[i]
  OBVIOUS
<1>2. \A j \in 1 .. i - 1 : f[j] = g[j]
  OBVIOUS
<1> QED BY <1>1, <1>2 DEF Valid

\* The ledger g is f with another last line, which is new unless it is malformed.
NewLast(f, g, n, r) ==
  /\ FileOK(f) /\ g \in Seq(Line) /\ n \in Nat
  /\ Len(g) = n + 1 /\ Len(f) \in {n, n + 1}
  /\ \A i \in 1 .. n : f[i] = g[i]
  /\ g[n + 1].kind = "whole" => g[n + 1].of = {r} /\ Len(f) = n

LEMMA LastLine ==
  ASSUME NEW f, NEW g, NEW n, NEW r, NewLast(f, g, n, r)
  PROVE  /\ Attempts(g) \subseteq Attempts(f) \cup ({r} \cap Ids)
         /\ ~Corrupt(g) => /\ g[n + 1].kind = "whole" /\ ~Corrupt(f)
                           /\ Attempts(g) = Attempts(f) \cup ({r} \cap Ids)
         /\ g[n + 1].kind = "whole" /\ ~Corrupt(f) /\ r \notin Attempts(f) => ~Corrupt(g)
<1>0. /\ FileOK(f) /\ g \in Seq(Line) /\ n \in Nat
      /\ Len(g) = n + 1 /\ Len(f) \in {n, n + 1}
      /\ \A i \in 1 .. n : f[i] = g[i]
      /\ g[n + 1].kind = "whole" => g[n + 1].of = {r} /\ Len(f) = n
  BY DEF NewLast
<1> DEFINE last == n + 1
<1>1. f \in Seq(Line) /\ n <= Len(f) /\ n <= Len(g)
  BY <1>0 DEF FileOK
<1>2. /\ last \in Nat /\ last \notin 1 .. n
      /\ DOMAIN g = (1 .. n) \cup {last}
      /\ Len(f) = n => DOMAIN f = 1 .. n
      /\ DOMAIN f \subseteq (1 .. n) \cup {last}
  BY <1>0, <1>1
<1>3. \A i \in 1 .. n : i \in Valid(f) <=> i \in Valid(g)
  BY <1>0, <1>1, SamePrefix
<1>4. /\ Valid(f) \subseteq DOMAIN f /\ Valid(g) \subseteq DOMAIN g
      /\ last \in Valid(g) => g[last].kind = "whole"
  BY DEF Valid
<1>5. g[last].kind = "whole" => g[last].of = {r} /\ DOMAIN f = 1 .. n
  BY <1>0, <1>2
<1>6. \A i \in 1 .. n : f[i] = g[i]
  BY <1>0
<1>7. last \in Valid(g) <=>
        g[last].kind = "whole" /\ \A j \in 1 .. n : g[j].kind = "whole" => g[j].of \cap {r} \cap Ids = {}
  <2>1. last - 1 = n
    BY <1>0
  <2>2. last \in Valid(g) <=>
          g[last].kind = "whole" /\ \A j \in 1 .. n : g[j].kind = "whole" => g[j].of \cap g[last].of \cap Ids = {}
    BY <1>2, <2>1 DEF Valid
  <2> QED BY <1>5, <2>2
<1> SUFFICES
       /\ Attempts(g) \subseteq Attempts(f) \cup ({r} \cap Ids)
       /\ ~Corrupt(g) => /\ g[last].kind = "whole" /\ ~Corrupt(f)
                         /\ Attempts(f) \cup ({r} \cap Ids) \subseteq Attempts(g)
       /\ g[last].kind = "whole" /\ ~Corrupt(f) /\ r \notin Attempts(f) => ~Corrupt(g)
  BY DEF last
<1> HIDE DEF last
<1>8. ASSUME NEW x \in Attempts(g) PROVE x \in Attempts(f) \cup ({r} \cap Ids)
  <2>1. PICK i \in Valid(g) : x \in g[i].of /\ x \in Ids
    BY <1>8, AttemptsAre
  <2>2. CASE i = last
    BY <1>4, <1>5, <2>1, <2>2
  <2>3. CASE i \in 1 .. n
    BY <1>3, <1>6, <2>1, <2>3, AttemptsAre
  <2> QED BY <1>2, <1>4, <2>2, <2>3
<1>9. ASSUME ~Corrupt(g)
      PROVE  /\ g[last].kind = "whole" /\ ~Corrupt(f)
             /\ Attempts(f) \cup ({r} \cap Ids) \subseteq Attempts(g)
  <2>1. Valid(g) = (1 .. n) \cup {last}
    BY <1>2, <1>9 DEF Corrupt
  <2>2. g[last].kind = "whole" /\ g[last].of = {r} /\ DOMAIN f = 1 .. n
    BY <1>4, <1>5, <2>1
  <2>3. Valid(f) = 1 .. n
    BY <1>3, <1>4, <2>1, <2>2
  <2>4. ASSUME NEW x \in Attempts(f) PROVE x \in Attempts(g)
    <3>1. PICK i \in Valid(f) : x \in f[i].of /\ x \in Ids
      BY <2>4, AttemptsAre
    <3> QED BY <1>6, <2>1, <2>3, <3>1, AttemptsAre
  <2>5. {r} \cap Ids \subseteq Attempts(g)
    BY <2>1, <2>2, AttemptsAre
  <2> QED BY <2>2, <2>3, <2>4, <2>5 DEF Corrupt
<1>10. ASSUME g[last].kind = "whole", ~Corrupt(f), r \notin Attempts(f)
      PROVE  ~Corrupt(g)
  <2>1. DOMAIN f = 1 .. n /\ Valid(f) = 1 .. n
    BY <1>5, <1>10 DEF Corrupt
  <2>2. ASSUME NEW j \in 1 .. n, r \in g[j].of, r \in Ids PROVE FALSE
    BY <1>6, <1>10, <2>1, <2>2, AttemptsAre
  <2>3. \A j \in 1 .. n : g[j].of \cap {r} \cap Ids = {}
    BY <2>2
  <2>4. last \in Valid(g)
    BY <1>7, <1>10, <2>3
  <2>5. Valid(g) = (1 .. n) \cup {last}
    BY <1>2, <1>3, <1>4, <2>1, <2>4
  <2> QED BY <1>2, <2>5 DEF Corrupt
<1> QED BY <1>8, <1>9, <1>10

Part == [of |-> {}, kind |-> "part", ended |-> FALSE]
Whole(r, ended) == [of |-> {r}, kind |-> "whole", ended |-> ended]
Unended(f) == f # <<>> /\ ~Last(f).ended
Joined(f, text) ==
  IF Unended(f)
  THEN [f EXCEPT ![Len(f)] = [of |-> @.of \cup text.of, kind |-> "mixed", ended |-> FALSE]]
  ELSE Append(f, text)

\* The last line is where a write begins and ends: l is this line of g, e of d.
WriteShape(f, r, text, g, d, n, l, e) ==
  /\ g \in Seq(Line) /\ d \in Seq(Line)
  /\ Len(g) = n + 1 /\ Len(d) = n + 1 /\ n + 1 <= MaxLines
  /\ Len(f) \in {n, n + 1}
  /\ Len(f) = n + 1 <=> Unended(f)
  /\ \A i \in 1 .. n : g[i] = f[i] /\ d[i] = f[i]
  /\ l = g[n + 1] /\ e = d[n + 1] /\ ~l.ended /\ e.ended
  /\ e.of = l.of \cup {r}
  /\ IF Unended(f) THEN l.kind = "mixed" /\ e.kind = "mixed" /\ f[n + 1].of \subseteq l.of
                   ELSE l = text /\ e = Whole(r, TRUE)

LEMMA JoinedLine ==
  ASSUME NEW f, FileOK(f), Len(f) < MaxLines, NEW r \in Records,
         NEW text \in {Part, Whole(r, FALSE)},
         NEW g, g = Joined(f, text), NEW d, d = Completed(g, r)
  PROVE  \E n \in Nat, l \in Line, e \in Line : WriteShape(f, r, text, g, d, n, l, e)
<1>1. f \in Seq(Line) /\ Len(f) \in Nat /\ MaxLines \in Nat
  BY UsageAssumption DEF FileOK
<1>text. text \in Line /\ text.of \in {{}, {r}} /\ text.ended = FALSE /\ text.kind # "mixed"
  <2>1. Part = TheLine({}, "part", FALSE) /\ Whole(r, FALSE) = TheLine({r}, "whole", FALSE)
    BY DEF Part, Whole, TheLine
  <2>2. {} \in SUBSET Records /\ {r} \in SUBSET Records /\ FALSE \in BOOLEAN
    OBVIOUS
  <2>3. CASE text = Part
    <3>1. /\ TheLine({}, "part", FALSE) \in Line /\ TheLine({}, "part", FALSE).of = {}
          /\ TheLine({}, "part", FALSE).kind = "part" /\ TheLine({}, "part", FALSE).ended = FALSE
      BY <2>2, LineIs
    <3> QED BY <2>1, <2>3, <3>1
  <2>4. CASE text = Whole(r, FALSE)
    <3>1. /\ TheLine({r}, "whole", FALSE) \in Line /\ TheLine({r}, "whole", FALSE).of = {r}
          /\ TheLine({r}, "whole", FALSE).kind = "whole" /\ TheLine({r}, "whole", FALSE).ended = FALSE
      BY <2>2, LineIs
    <3> QED BY <2>1, <2>4, <3>1
  <2> QED BY <2>3, <2>4
<1>2. CASE Unended(f)
  <2>1. PICK n \in Nat : Len(f) = n + 1
    <3>1. Len(f) # 0
      BY <1>1, <1>2 DEF Unended
    <3>2. Len(f) - 1 \in Nat /\ Len(f) = (Len(f) - 1) + 1
      BY <1>1, <3>1
    <3> QED BY <3>2
  <2>2. f[n + 1] \in Line
    BY <1>1, <2>1
  <2> DEFINE l == TheLine(f[n + 1].of \cup text.of, "mixed", FALSE)
             e == TheLine(l.of \cup {r}, "mixed", TRUE)
  <2>3. /\ l \in Line /\ l.kind = "mixed" /\ l.ended = FALSE
        /\ l.of = f[n + 1].of \cup text.of
    <3>1. f[n + 1].of \cup text.of \in SUBSET Records
      BY <1>text, <2>2 DEF Line
    <3> QED BY <3>1, LineIs
  <2>line. l = [of |-> f[n + 1].of \cup text.of, kind |-> "mixed", ended |-> FALSE]
    BY DEF TheLine
  <2> HIDE DEF l
  <2>4. /\ e \in Line /\ e.kind = "mixed" /\ e.ended = TRUE /\ e.of = l.of \cup {r}
    <3>1. l.of \cup {r} \in SUBSET Records
      BY <2>3 DEF Line
    <3> QED BY <3>1, LineIs
  <2>ended. e = [of |-> l.of \cup {r}, ended |-> TRUE, kind |-> "mixed"]
    BY DEF TheLine
  <2> HIDE DEF e
  <2>5. g = [f EXCEPT ![n + 1] = l]
    BY <1>2, <2>1, <2>line DEF Joined
  <2>6. g \in Seq(Line) /\ Len(g) = n + 1 /\ g[n + 1] = l /\ \A i \in 1 .. n : g[i] = f[i]
    BY <1>1, <2>1, <2>3, <2>5, NewLastLine
  <2>7. d = [g EXCEPT ![n + 1] = e]
    BY <2>3, <2>ended, <2>6 DEF Completed
  <2>8. d \in Seq(Line) /\ Len(d) = n + 1 /\ d[n + 1] = e /\ \A i \in 1 .. n : d[i] = g[i]
    BY <2>4, <2>6, <2>7, NewLastLine
  <2>9. n + 1 <= MaxLines /\ Len(f) \in {n, n + 1} /\ Len(f) = n + 1
    BY <1>1, <2>1
  <2>10. WriteShape(f, r, text, g, d, n, l, e)
    BY <1>2, <2>3, <2>4, <2>6, <2>8, <2>9 DEF WriteShape
  <2> QED BY <2>3, <2>4, <2>10
<1>3. CASE ~Unended(f)
  <2>1. PICK n \in Nat : Len(f) = n
    BY <1>1
  <2>2. g = Append(f, text)
    BY <1>3 DEF Joined
  <2>3. g \in Seq(Line) /\ Len(g) = n + 1 /\ g[n + 1] = text /\ \A i \in 1 .. n : g[i] = f[i]
    BY <1>1, <1>text, <2>1, <2>2
  <2> DEFINE e == TheLine({r}, "whole", TRUE)
  <2>4. e \in Line /\ e.ended = TRUE /\ e.of = {r} /\ e.kind = "whole"
    BY LineIs
  <2>ended. e = Whole(r, TRUE)
    BY DEF TheLine, Whole
  <2> HIDE DEF e
  <2>5. d = [g EXCEPT ![n + 1] = e]
    BY <1>text, <2>3, <2>ended DEF Completed, Whole
  <2>6. d \in Seq(Line) /\ Len(d) = n + 1 /\ d[n + 1] = e /\ \A i \in 1 .. n : d[i] = g[i]
    BY <2>3, <2>4, <2>5, NewLastLine
  <2>7. n + 1 <= MaxLines /\ Len(f) \in {n, n + 1} /\ ~(Len(f) = n + 1)
    BY <1>1, <2>1
  <2>8. WriteShape(f, r, text, g, d, n, text, e)
    BY <1>text, <1>3, <2>3, <2>4, <2>ended, <2>6, <2>7 DEF WriteShape
  <2> QED BY <1>text, <2>4, <2>8
<1> QED BY <1>2, <1>3

LEMMA CompletedKeeps ==
  ASSUME NEW f, FileOK(f), f # <<>>, NEW r \in Records, NEW d, d = Completed(f, r),
         Last(f).kind = "whole" => Last(f).of = {r}
  PROVE  /\ FileOK(d) /\ Len(d) = Len(f) /\ Len(f) \in DOMAIN f
         /\ \A i \in DOMAIN f : i \in DOMAIN d /\ f[i].of \subseteq d[i].of
         /\ r \in d[Len(f)].of
<1>1. f \in Seq(Line) /\ Len(f) \in Nat /\ Len(f) # 0 /\ Len(f) <= MaxLines
  BY DEF FileOK
<1>2. PICK n \in Nat : Len(f) = n + 1
  <2>1. Len(f) - 1 \in Nat /\ Len(f) = (Len(f) - 1) + 1
    BY <1>1
  <2> QED BY <2>1
<1>3. f[n + 1] \in Line /\ LineOK(f[n + 1]) /\ DOMAIN f = 1 .. n + 1
  BY <1>1, <1>2 DEF FileOK
<1> DEFINE e == TheLine(f[n + 1].of \cup {r},
                        IF f[n + 1].kind = "mixed" THEN "mixed" ELSE "whole", TRUE)
<1>4. /\ e \in Line /\ e.of = f[n + 1].of \cup {r}
      /\ e.kind = IF f[n + 1].kind = "mixed" THEN "mixed" ELSE "whole"
  <2>1. f[n + 1].of \cup {r} \in SUBSET Records
    BY <1>3 DEF Line
  <2> QED BY <2>1, LineIs
<1>5. d = [f EXCEPT ![n + 1] = e]
  BY <1>2 DEF Completed, TheLine
<1> HIDE DEF e
<1>6. d \in Seq(Line) /\ Len(d) = n + 1 /\ d[n + 1] = e /\ \A i \in 1 .. n : d[i] = f[i]
  BY <1>1, <1>2, <1>4, <1>5, NewLastLine
<1>7. LineOK(e)
  <2>1. CASE f[n + 1].kind = "mixed"
    BY <1>4, <2>1 DEF LineOK
  <2>2. CASE f[n + 1].kind = "part"
    BY <1>3, <1>4, <2>2 DEF LineOK
  <2>3. CASE f[n + 1].kind = "whole"
    BY <1>2, <1>4, <2>3 DEF LineOK, Last
  <2> QED BY <1>3, <2>1, <2>2, <2>3 DEF Line
<1>8. \A i \in DOMAIN f : i \in 1 .. n \/ i = n + 1
  BY <1>3
<1>9. DOMAIN d = DOMAIN f /\ n + 1 \in DOMAIN f
  BY <1>3, <1>6
<1>10. \A i \in DOMAIN d : LineOK(d[i])
  BY <1>6, <1>7, <1>8, <1>9 DEF FileOK
<1>11. \A i \in DOMAIN f : i \in DOMAIN d /\ f[i].of \subseteq d[i].of
  BY <1>4, <1>6, <1>8, <1>9
<1>12. FileOK(d)
  BY <1>1, <1>2, <1>6, <1>10 DEF FileOK
<1>13. r \in d[Len(f)].of
  BY <1>2, <1>4, <1>6
<1> QED BY <1>2, <1>6, <1>9, <1>11, <1>12, <1>13

\* Writing the record r, of which text comes first, makes the ledger f to g and then to d.
Writing(f, r, text, g, d) ==
  /\ FileOK(f) /\ Len(f) < MaxLines /\ r \in Records /\ text \in {Part, Whole(r, FALSE)}
  /\ g = Joined(f, text) /\ d = Completed(g, r)

\* What a write does to the attempts, once it has begun and once it is complete.
LEMMA WriteKeeps ==
  ASSUME NEW f, NEW r, NEW text, NEW g, NEW d, Writing(f, r, text, g, d)
  PROVE  /\ FileOK(g) /\ g # <<>> /\ ~Last(g).ended
         /\ Last(g).kind = "whole" => Last(g).of = {r}
         /\ \A i \in DOMAIN f : i \in DOMAIN g /\ f[i].of \subseteq g[i].of
         /\ Attempts(g) \subseteq Attempts(f) \cup ({r} \cap Ids)
         /\ Attempts(d) \subseteq Attempts(f) \cup ({r} \cap Ids)
         /\ ~Corrupt(d) => ~Corrupt(f) /\ Attempts(d) = Attempts(f) \cup ({r} \cap Ids)
         /\ ~Corrupt(f) /\ AllEnded(f) /\ r \notin Attempts(f) => ~Corrupt(d) /\ AllEnded(d)
<1> USE DEF Writing
<1>0. PICK n \in Nat, l \in Line, e \in Line : WriteShape(f, r, text, g, d, n, l, e)
  BY JoinedLine
<1> HIDE DEF Writing
<1>given. FileOK(f) /\ Len(f) < MaxLines /\ r \in Records /\ text \in {Part, Whole(r, FALSE)}
  BY DEF Writing
<1>1. /\ g \in Seq(Line) /\ d \in Seq(Line)
      /\ Len(g) = n + 1 /\ Len(d) = n + 1 /\ n + 1 <= MaxLines
      /\ Len(f) \in {n, n + 1}
      /\ Len(f) = n + 1 <=> Unended(f)
      /\ \A i \in 1 .. n : g[i] = f[i] /\ d[i] = f[i]
      /\ l = g[n + 1] /\ e = d[n + 1] /\ ~l.ended /\ e.ended
      /\ e.of = l.of \cup {r}
      /\ Unended(f) => l.kind = "mixed" /\ e.kind = "mixed" /\ f[n + 1].of \subseteq l.of
      /\ ~Unended(f) => l = text /\ e = Whole(r, TRUE)
  BY <1>0 DEF WriteShape
<1>2. /\ f \in Seq(Line) /\ \A i \in DOMAIN f : LineOK(f[i])
      /\ \A i \in 1 .. n : f[i] = g[i] /\ f[i] = d[i]
      /\ l.kind = "whole" => l.of = {r} /\ Len(f) = n
      /\ l.kind = "part" => l.of = {}
      /\ e.kind = "whole" => e.of = {r} /\ Len(f) = n
  <2>1. CASE Unended(f)
    BY <1>given, <1>1, <2>1 DEF FileOK
  <2>2. CASE ~Unended(f)
    <3>1. l.kind = "whole" => l.of = {r}
      BY <1>given, <1>1, <2>2 DEF Part, Whole
    <3>2. l.kind = "part" => l.of = {}
      BY <1>given, <1>1, <2>2 DEF Part, Whole
    <3>3. e.of = {r}
      BY <1>given, <1>1, <2>2 DEF Whole
    <3> QED BY <1>given, <1>1, <2>2, <3>1, <3>2, <3>3 DEF FileOK
  <2> QED BY <2>1, <2>2
<1>3. /\ DOMAIN g = (1 .. n) \cup {n + 1} /\ DOMAIN d = (1 .. n) \cup {n + 1}
      /\ DOMAIN f \subseteq (1 .. n) \cup {n + 1}
      /\ n + 1 \in DOMAIN f => Unended(f)
      /\ 1 .. n \subseteq DOMAIN f
  <2>1. DOMAIN g = 1 .. n + 1 /\ DOMAIN d = 1 .. n + 1 /\ DOMAIN f = 1 .. Len(f)
    BY <1>1, <1>2
  <2>2. 1 .. n + 1 = (1 .. n) \cup {n + 1}
    BY <1>1
  <2>3. CASE Len(f) = n
    BY <2>1, <2>2, <2>3
  <2>4. CASE Len(f) = n + 1
    BY <1>1, <2>1, <2>2, <2>4
  <2> QED BY <1>1, <2>1, <2>2, <2>3, <2>4
<1>4. FileOK(g)
  <2>1. \A i \in 1 .. n : LineOK(g[i])
    BY <1>1, <1>2, <1>3
  <2>2. LineOK(g[n + 1])
    BY <1>given, <1>1, <1>2 DEF LineOK
  <2> QED BY <1>1, <1>3, <2>1, <2>2 DEF FileOK
<1>5. g # <<>> /\ Last(g) = l
  BY <1>1 DEF Last
<1>6. \A i \in DOMAIN f : i \in DOMAIN g /\ f[i].of \subseteq g[i].of
  BY <1>1, <1>3
<1>7. Attempts(g) \subseteq Attempts(f) \cup ({r} \cap Ids)
  <2>1. g[n + 1].kind = "whole" => g[n + 1].of = {r} /\ Len(f) = n
    BY <1>1, <1>2
  <2>2. g \in Seq(Line) /\ Len(g) = n + 1 /\ Len(f) \in {n, n + 1}
    BY <1>1
  <2>3. \A i \in 1 .. n : f[i] = g[i]
    BY <1>2
  <2>4. NewLast(f, g, n, r)
    BY <1>given, <2>1, <2>2, <2>3 DEF NewLast
  <2> QED BY <2>4, LastLine
<1>8. /\ Attempts(d) \subseteq Attempts(f) \cup ({r} \cap Ids)
      /\ ~Corrupt(d) => ~Corrupt(f) /\ Attempts(d) = Attempts(f) \cup ({r} \cap Ids)
      /\ d[n + 1].kind = "whole" /\ ~Corrupt(f) /\ r \notin Attempts(f) => ~Corrupt(d)
  <2>1. d[n + 1].kind = "whole" => d[n + 1].of = {r} /\ Len(f) = n
    BY <1>1, <1>2
  <2>2. d \in Seq(Line) /\ Len(d) = n + 1 /\ Len(f) \in {n, n + 1}
    BY <1>1
  <2>3. \A i \in 1 .. n : f[i] = d[i]
    BY <1>2
  <2>4. NewLast(f, d, n, r)
    BY <1>given, <2>1, <2>2, <2>3 DEF NewLast
  <2> QED BY <2>4, LastLine
<1>9. ASSUME ~Corrupt(f), AllEnded(f), r \notin Attempts(f)
      PROVE  ~Corrupt(d) /\ AllEnded(d)
  <2>1. ~Unended(f)
    <3>1. CASE f = <<>>
      BY <3>1 DEF Unended
    <3>2. CASE f # <<>>
      <4>1. Len(f) \in DOMAIN f
        BY <1>2, <3>2
      <4> QED BY <1>9, <4>1 DEF AllEnded, Unended, Last
    <3> QED BY <3>1, <3>2
  <2>2. d[n + 1].kind = "whole" /\ d[n + 1].ended
    BY <1>1, <2>1 DEF Whole
  <2>3. \A i \in 1 .. n : d[i].ended
    BY <1>1, <1>3, <1>9 DEF AllEnded
  <2>4. AllEnded(d)
    BY <1>3, <2>2, <2>3 DEF AllEnded
  <2> QED BY <1>8, <1>9, <2>2, <2>4
<1> QED BY <1>1, <1>2, <1>4, <1>5, <1>6, <1>7, <1>8, <1>9

-----------------------------------------------------------------------------
(* Steps.  The other processes are left alone, or learn that the ledger is not *)
(* what it was: their signature and their calm are gone.                       *)

Alone(p) == proc' \in [Procs -> Proc] /\ \A q \in Procs \ {p} : proc'[q] = proc[q]

Disturbed(q) ==
  /\ proc'[q].pc = proc[q].pc /\ proc'[q].home = proc[q].home /\ proc'[q].rec = proc[q].rec
  /\ proc'[q].todo = proc[q].todo /\ proc'[q].known = proc[q].known
  /\ ~proc'[q].sig /\ ~proc'[q].calm
Disturbs(p) == proc' \in [Procs -> Proc] /\ \A q \in Procs \ {p} : Disturbed(q)

\* The fields of p that are not its program counter.
SameData(p) ==
  /\ proc'[p].home = proc[p].home /\ proc'[p].rec = proc[p].rec
  /\ proc'[p].todo = proc[p].todo /\ proc'[p].known = proc[p].known
  /\ proc'[p].sig = proc[p].sig /\ proc'[p].saw = proc[p].saw /\ proc'[p].calm = proc[p].calm

Types == /\ proc \in [Procs -> Proc] /\ cache \in [Procs -> (SUBSET Ids) \cup {None}]
         /\ rows \in 0 .. MaxRows

LEMMA Moves ==
  ASSUME proc \in [Procs -> Proc], NEW p \in Procs, NEW r \in Proc,
         proc' = [proc EXCEPT ![p] = r]
  PROVE  Alone(p) /\ proc'[p] = r
BY DEF Alone

LEMMA Touches ==
  ASSUME proc \in [Procs -> Proc], NEW p \in Procs, NEW r \in Proc, proc' = Touched(p, r)
  PROVE  Disturbs(p) /\ proc'[p] = r
<1>1. ASSUME NEW q \in Procs \ {p}
      PROVE  proc'[q] \in Proc /\ Disturbed(q)
  <2> DEFINE o == [proc[q] EXCEPT !.sig = FALSE, !.calm = FALSE]
  <2>1. proc[q] \in Proc /\ proc'[q] = o
    BY <1>1 DEF Touched
  <2>2. /\ o \in Proc /\ o.pc = proc[q].pc /\ o.home = proc[q].home /\ o.rec = proc[q].rec
        /\ o.todo = proc[q].todo /\ o.known = proc[q].known /\ o.sig = FALSE /\ o.calm = FALSE
    BY <2>1 DEF Proc
  <2> HIDE DEF o
  <2> QED BY <2>1, <2>2 DEF Disturbed
<1>2. proc'[p] = r /\ DOMAIN proc' = Procs
  BY DEF Touched
<1>3. proc' \in [Procs -> Proc]
  <2>1. \A q \in Procs : proc'[q] \in Proc
    BY <1>1, <1>2
  <2>2. proc' = [q \in Procs |-> proc'[q]]
    BY DEF Touched
  <2> QED BY <2>1, <2>2
<1> QED BY <1>1, <1>2, <1>3 DEF Disturbs

LEMMA IdleIs ==
  /\ Idle \in Proc /\ Idle.pc = "idle" /\ Idle.home = "idle" /\ Idle.rec = None
  /\ Idle.todo = {} /\ Idle.known = {} /\ ~Idle.sig /\ ~Idle.saw /\ ~Idle.calm
BY DEF Idle, Proc

LEMMA SyncsStep ==
  ASSUME Types, NEW p \in Procs, Syncs(p)
  PROVE  /\ Alone(p) /\ proc'[p].rec = None /\ proc'[p].todo = {} /\ proc'[p].home = "ready"
         /\ proc'[p].calm => lock = None
         /\ proc'[p].pc = "recover" \/ (proc'[p].pc = "list" /\ ~NeedsRecovery)
<1> DEFINE r == [Idle EXCEPT !.pc = IF NeedsRecovery THEN "recover" ELSE "list",
                             !.home = "ready", !.calm = (lock = None)]
<1>1. proc' = [proc EXCEPT ![p] = r] /\ proc \in [Procs -> Proc]
  BY DEF Syncs, Types
<1>2. /\ r \in Proc /\ r.rec = None /\ r.todo = {} /\ r.home = "ready"
      /\ r.calm = (lock = None)
      /\ r.pc = "recover" \/ (r.pc = "list" /\ ~NeedsRecovery)
  BY DEF Idle, Proc
<1> HIDE DEF r
<1> QED BY <1>1, <1>2, Moves

LEMMA RecoversStep ==
  ASSUME Types, NEW p \in Procs, Recovers(p)
  PROVE  Alone(p) /\ SameData(p) /\ proc'[p].pc = "archives"
<1> DEFINE r == [proc[p] EXCEPT !.pc = "archives"]
<1>1. proc' = [proc EXCEPT ![p] = r] /\ proc \in [Procs -> Proc]
  BY DEF Recovers, Types
<1>2. /\ r \in Proc /\ r.pc = "archives" /\ r.home = proc[p].home /\ r.rec = proc[p].rec
      /\ r.todo = proc[p].todo /\ r.known = proc[p].known /\ r.sig = proc[p].sig
      /\ r.saw = proc[p].saw /\ r.calm = proc[p].calm
  BY <1>1 DEF Proc
<1> HIDE DEF r
<1> QED BY <1>1, <1>2, Moves DEF SameData

LEMMA MendsArchivesStep ==
  ASSUME Types, NEW p \in Procs, MendsArchives(p)
  PROVE  \/ /\ BadArchives = {} /\ Alone(p) /\ SameData(p) /\ proc'[p].pc = "mend"
            /\ UNCHANGED <<active, archives, quarantine, cache>>
         \/ /\ BadArchives # {} /\ Disturbs(p) /\ proc'[p] = proc[p] /\ cache' = Forgotten
            /\ UNCHANGED active
            /\ \E a \in BadArchives : /\ archives' = archives \ {a}
                                      /\ quarantine' = quarantine \cup Range(a)
<1>0. proc \in [Procs -> Proc] /\ proc[p] \in Proc
  BY DEF Types
<1>1. CASE BadArchives = {}
  <2> DEFINE r == [proc[p] EXCEPT !.pc = "mend"]
  <2>1. proc' = [proc EXCEPT ![p] = r] /\ UNCHANGED <<active, archives, quarantine, cache>>
    BY <1>1 DEF MendsArchives, files
  <2>2. /\ r \in Proc /\ r.pc = "mend" /\ r.home = proc[p].home /\ r.rec = proc[p].rec
        /\ r.todo = proc[p].todo /\ r.known = proc[p].known /\ r.sig = proc[p].sig
        /\ r.saw = proc[p].saw /\ r.calm = proc[p].calm
    BY <1>0 DEF Proc
  <2> HIDE DEF r
  <2> QED BY <1>0, <1>1, <2>1, <2>2, Moves DEF SameData
<1>2. CASE BadArchives # {}
  <2>1. /\ proc' = Touched(p, proc[p]) /\ cache' = Forgotten /\ UNCHANGED active
        /\ \E a \in BadArchives : /\ archives' = archives \ {a}
                                  /\ quarantine' = quarantine \cup Range(a)
    BY <1>2 DEF MendsArchives
  <2> QED BY <1>0, <1>2, <2>1, Touches
<1> QED BY <1>1, <1>2

LEMMA MendsStep ==
  ASSUME Types, NEW p \in Procs, Mends(p)
  PROVE  /\ SameData(p) /\ proc'[p].pc = "rewrite"
         /\ Corrupt(active) => Disturbs(p) /\ cache' = Forgotten
         /\ ~Corrupt(active) => Alone(p) /\ UNCHANGED cache
<1> DEFINE r == [proc[p] EXCEPT !.pc = "rewrite"]
<1>0. proc \in [Procs -> Proc] /\ proc[p] \in Proc
  BY DEF Types
<1>1. /\ Corrupt(active) => proc' = Touched(p, r) /\ cache' = Forgotten
      /\ ~Corrupt(active) => proc' = [proc EXCEPT ![p] = r] /\ UNCHANGED cache
  BY DEF Mends
<1>2. /\ r \in Proc /\ r.pc = "rewrite" /\ r.home = proc[p].home /\ r.rec = proc[p].rec
      /\ r.todo = proc[p].todo /\ r.known = proc[p].known /\ r.sig = proc[p].sig
      /\ r.saw = proc[p].saw /\ r.calm = proc[p].calm
  BY <1>0 DEF Proc
<1> HIDE DEF r
<1>3. CASE Corrupt(active)
  BY <1>0, <1>1, <1>2, <1>3, Touches DEF SameData
<1>4. CASE ~Corrupt(active)
  BY <1>0, <1>1, <1>2, <1>4, Moves DEF SameData
<1> QED BY <1>3, <1>4

LEMMA RewritesStep ==
  ASSUME Types, NEW p \in Procs, Rewrites(p)
  PROVE  /\ SameData(p) /\ cache'[p] = None
         /\ proc[p].rec = None => proc'[p].pc = "list" /\ lock' = None
         /\ proc[p].rec # None => proc'[p].pc = "append" /\ lock' = p
         /\ active' # active => Disturbs(p) /\ cache' = Forgotten
         /\ active' = active => Alone(p) /\ cache' = [cache EXCEPT ![p] = None]
<1> DEFINE r == [proc[p] EXCEPT !.pc = IF proc[p].rec = None THEN "list" ELSE "append"]
<1>0. proc \in [Procs -> Proc] /\ proc[p] \in Proc
  BY DEF Types
<1>1. /\ active' # active => proc' = Touched(p, r) /\ cache' = Forgotten
      /\ active' = active => proc' = [proc EXCEPT ![p] = r] /\ cache' = [cache EXCEPT ![p] = None]
      /\ lock' = IF proc[p].rec = None THEN None ELSE p
  BY DEF Rewrites
<1>2. /\ r \in Proc /\ r.pc = (IF proc[p].rec = None THEN "list" ELSE "append")
      /\ r.home = proc[p].home /\ r.rec = proc[p].rec
      /\ r.todo = proc[p].todo /\ r.known = proc[p].known /\ r.sig = proc[p].sig
      /\ r.saw = proc[p].saw /\ r.calm = proc[p].calm
  BY <1>0 DEF Proc
<1> HIDE DEF r
<1>3. CASE active' # active
  BY <1>0, <1>1, <1>2, <1>3, Touches DEF SameData, Forgotten
<1>4. CASE active' = active
  BY <1>0, <1>1, <1>2, <1>4, Moves DEF SameData, Types
<1> QED BY <1>3, <1>4

\* The rows that a process finds missing when it knows of S.
Misses(p, S) ==
  /\ Alone(p) /\ proc'[p].pc = "ready" /\ proc'[p].todo = Rows \ S
  /\ proc'[p].home = proc[p].home /\ proc'[p].rec = proc[p].rec /\ proc'[p].calm = proc[p].calm

LEMMA MissesStep ==
  ASSUME Types, NEW p \in Procs, NEW S \in SUBSET Ids, proc' = [proc EXCEPT ![p] = Missing(p, S)]
  PROVE  Misses(p, S)
<1> DEFINE r == Missing(p, S)
<1>0. proc \in [Procs -> Proc] /\ proc[p] \in Proc /\ Rows \subseteq Ids
  BY UsageAssumption DEF Types, Rows, Ids
<1>1. /\ r \in Proc /\ r.pc = "ready" /\ r.todo = Rows \ S /\ r.home = proc[p].home
      /\ r.rec = proc[p].rec /\ r.calm = proc[p].calm
  BY <1>0 DEF Missing, Proc
<1> HIDE DEF r
<1>2. proc' = [proc EXCEPT ![p] = r]
  BY DEF r
<1>3. Alone(p) /\ proc'[p] = r
  BY <1>0, <1>1, <1>2, Moves
<1> QED BY <1>1, <1>3 DEF Misses

LEMMA ArchivedIds == Archived \subseteq Ids /\ \A f : Attempts(f) \subseteq Ids
BY DEF Archived, Attempts

LEMMA ListsStep ==
  ASSUME Types, NEW p \in Procs, Lists(p)
  PROVE  \/ cache[p] # None /\ cache[p] \in SUBSET Ids /\ Misses(p, cache[p])
         \/ cache[p] = None /\ BadArchives # {} /\ Misses(p, {})
         \/ /\ cache[p] = None /\ BadArchives = {}
            /\ Alone(p) /\ proc'[p].pc = "read" /\ proc'[p].sig /\ (proc'[p].saw <=> active # <<>>)
            /\ proc'[p].known = Archived /\ proc'[p].home = proc[p].home
            /\ proc'[p].rec = proc[p].rec /\ proc'[p].todo = proc[p].todo
            /\ proc'[p].calm = proc[p].calm
<1>0. proc \in [Procs -> Proc] /\ proc[p] \in Proc
  BY DEF Types
<1>1. CASE cache[p] # None
  <2>1. proc' = [proc EXCEPT ![p] = Missing(p, cache[p])]
    BY <1>0, <1>1 DEF Lists
  <2>2. cache[p] \in SUBSET Ids
    BY <1>1 DEF Types
  <2> QED BY <1>1, <2>1, <2>2, MissesStep
<1>2. CASE cache[p] = None /\ BadArchives # {}
  <2>1. proc' = [proc EXCEPT ![p] = Missing(p, {})]
    BY <1>0, <1>2 DEF Lists
  <2>2. {} \in SUBSET Ids
    OBVIOUS
  <2>3. Misses(p, {})
    BY <2>1, <2>2, MissesStep
  <2> QED BY <1>2, <2>3
<1>3. CASE cache[p] = None /\ BadArchives = {}
  <2> DEFINE r == [proc[p] EXCEPT !.pc = "read", !.sig = TRUE, !.saw = (active # <<>>),
                                  !.known = Archived]
  <2>1. proc' = [proc EXCEPT ![p] = r]
    BY <1>0, <1>3 DEF Lists
  <2>2. /\ r \in Proc /\ r.pc = "read" /\ r.sig = TRUE /\ r.saw = (active # <<>>)
        /\ r.known = Archived /\ r.home = proc[p].home /\ r.rec = proc[p].rec
        /\ r.todo = proc[p].todo /\ r.calm = proc[p].calm
    BY <1>0, ArchivedIds DEF Proc
  <2> HIDE DEF r
  <2> QED BY <1>0, <1>3, <2>1, <2>2, Moves
<1> QED BY <1>1, <1>2, <1>3

ReadIndex(p) == IF ~proc[p].saw \/ Corrupt(active) THEN proc[p].known
                ELSE proc[p].known \cup Attempts(active)

LEMMA ReadsStep ==
  ASSUME Types, NEW p \in Procs, Reads(p)
  PROVE  \/ proc[p].saw /\ active = <<>> /\ Misses(p, {}) /\ UNCHANGED cache
         \/ /\ ReadIndex(p) \in SUBSET Ids /\ Misses(p, ReadIndex(p))
            /\ cache' = [cache EXCEPT ![p] = IF proc[p].sig THEN ReadIndex(p) ELSE None]
<1>0. proc \in [Procs -> Proc] /\ proc[p] \in Proc
  BY DEF Types
<1>1. proc[p].known \subseteq Ids
  BY <1>0 DEF Proc
<1>2. ReadIndex(p) \in SUBSET Ids
  BY <1>1, ArchivedIds DEF ReadIndex
<1>3. CASE proc[p].saw /\ active = <<>>
  BY <1>3, MissesStep DEF Reads
<1>4. CASE ~(proc[p].saw /\ active = <<>>)
  <2>1. /\ proc' = [proc EXCEPT ![p] = Missing(p, ReadIndex(p))]
        /\ cache' = [cache EXCEPT ![p] = IF proc[p].sig THEN ReadIndex(p) ELSE None]
    BY <1>4 DEF Reads, ReadIndex
  <2> QED BY <1>2, <2>1, MissesStep
<1> QED BY <1>3, <1>4

LEMMA ProjectsStep ==
  ASSUME Types, NEW p \in Procs, Projects(p)
  PROVE  /\ Alone(p) /\ proc'[p].pc = "append" /\ proc'[p].rec \in proc[p].todo
         /\ proc'[p].home = proc[p].home /\ proc'[p].todo = proc[p].todo
         /\ proc'[p].calm = proc[p].calm
<1> DEFINE i == CHOOSE i \in proc[p].todo : \A j \in proc[p].todo : i <= j
           r == [proc[p] EXCEPT !.pc = "append", !.rec = i]
<1>0. proc \in [Procs -> Proc] /\ proc[p] \in Proc
  BY DEF Types
<1>1. proc[p].todo \in SUBSET Nat /\ proc[p].todo \subseteq Ids /\ proc[p].todo # {}
  BY <1>0 DEF Proc, Ids, Projects
<1>2. i \in proc[p].todo
  BY <1>1, LeastNat
<1>given. proc' = [proc EXCEPT ![p].pc = "append", ![p].rec = i]
  BY DEF Projects
<1> HIDE DEF i
<1>3. proc' = [proc EXCEPT ![p] = r]
  BY <1>0, <1>given
<1>4. /\ r \in Proc /\ r.pc = "append" /\ r.rec = i /\ r.home = proc[p].home
      /\ r.todo = proc[p].todo /\ r.calm = proc[p].calm
  BY <1>0, <1>1, <1>2 DEF Proc, Records
<1> HIDE DEF r
<1> QED BY <1>0, <1>2, <1>3, <1>4, Moves

LEMMA RecordsAttemptStep ==
  ASSUME Types, NEW p \in Procs, RecordsAttempt(p)
  PROVE  /\ Disturbs(p) /\ proc'[p].pc = "append" /\ proc'[p].rec = rows + 1
         /\ proc'[p].home = proc[p].home /\ proc'[p].todo = proc[p].todo
         /\ proc'[p].calm = proc[p].calm
         /\ rows' = rows + 1 /\ rows' \in 0 .. MaxRows /\ rows' \in Ids
<1>0. proc \in [Procs -> Proc] /\ proc[p] \in Proc
  BY DEF Types
<1>1. rows' = rows + 1 /\ rows' \in 0 .. MaxRows /\ rows' \in Ids
  BY UsageAssumption DEF Types, RecordsAttempt, Ids
<1>2. PICK i : i = rows'
  OBVIOUS
<1> DEFINE r == [proc[p] EXCEPT !.pc = "append", !.rec = i]
<1>3. proc' = Touched(p, r)
  BY <1>2 DEF RecordsAttempt
<1>4. /\ r \in Proc /\ r.pc = "append" /\ r.rec = i /\ r.home = proc[p].home
      /\ r.todo = proc[p].todo /\ r.calm = proc[p].calm
  BY <1>0, <1>1, <1>2 DEF Proc, Records
<1> HIDE DEF r
<1> QED BY <1>0, <1>1, <1>2, <1>3, <1>4, Touches

LEMMA RecordsNoteStep ==
  ASSUME Types, NEW p \in Procs, RecordsNote(p)
  PROVE  /\ Alone(p) /\ proc'[p].pc = "append"
         /\ proc'[p].rec \in Notes \ acked /\ \A q \in Procs : proc[q].rec # proc'[p].rec
         /\ proc'[p].home = proc[p].home /\ proc'[p].todo = proc[p].todo
         /\ proc'[p].calm = proc[p].calm
<1>0. proc \in [Procs -> Proc] /\ proc[p] \in Proc
  BY DEF Types
<1>1. PICK n \in Notes \ acked : /\ \A q \in Procs : proc[q].rec # n
                                 /\ proc' = [proc EXCEPT ![p].pc = "append", ![p].rec = n]
  BY DEF RecordsNote
<1> DEFINE r == [proc[p] EXCEPT !.pc = "append", !.rec = n]
<1>2. proc' = [proc EXCEPT ![p] = r]
  BY <1>0, <1>1
<1>3. /\ r \in Proc /\ r.pc = "append" /\ r.rec = n /\ r.home = proc[p].home
      /\ r.todo = proc[p].todo /\ r.calm = proc[p].calm
  BY <1>0, <1>1 DEF Proc, Records
<1> HIDE DEF r
<1> QED BY <1>0, <1>1, <1>2, <1>3, Moves

\* An append that is over.
Ends(p) ==
  /\ proc'[p].pc = proc[p].home /\ proc'[p].home = proc[p].home /\ proc'[p].rec = None
  /\ proc'[p].todo = proc[p].todo \ {proc[p].rec}
  /\ proc'[p].calm => proc[p].calm

LEMMA FinishedIs ==
  ASSUME Types, NEW p \in Procs
  PROVE  /\ Finished(p) \in Proc /\ Finished(p).pc = proc[p].home
         /\ Finished(p).home = proc[p].home /\ Finished(p).rec = None
         /\ Finished(p).todo = proc[p].todo \ {proc[p].rec}
         /\ Finished(p).calm = proc[p].calm
<1>0. proc[p] \in Proc
  BY DEF Types
<1> QED BY <1>0 DEF Finished, Proc

LEMMA AppendsStep ==
  ASSUME Types, NEW p \in Procs, Appends(p)
  PROVE  \/ /\ Alone(p) /\ Ends(p) /\ lock' = None
            /\ \/ cache[p] = None /\ BadArchives # {} /\ UNCHANGED cache
               \/ /\ cache[p] # None \/ (BadArchives = {} /\ ~Corrupt(active))
                  /\ cache' = [cache EXCEPT ![p] = Logged(p)] /\ proc[p].rec \in Logged(p)
         \/ /\ cache[p] = None /\ BadArchives = {} /\ Corrupt(active) /\ UNCHANGED cache
            /\ Alone(p) /\ SameData(p) /\ proc'[p].pc = "mend" /\ lock' = p
         \/ /\ cache[p] # None \/ (BadArchives = {} /\ ~Corrupt(active))
            /\ cache' = [cache EXCEPT ![p] = Logged(p)] /\ proc[p].rec \notin Logged(p)
            /\ Alone(p) /\ proc'[p].pc = "write" /\ lock' = p
            /\ proc'[p].known = Logged(p) /\ proc'[p].home = proc[p].home
            /\ proc'[p].rec = proc[p].rec /\ proc'[p].todo = proc[p].todo
            /\ proc'[p].calm = proc[p].calm
<1>0. proc \in [Procs -> Proc] /\ proc[p] \in Proc /\ cache[p] \in (SUBSET Ids) \cup {None}
  BY DEF Types
<1>1. Logged(p) \in SUBSET Ids
  BY <1>0, ArchivedIds DEF Logged
<1>2. ASSUME proc' = [proc EXCEPT ![p] = Finished(p)] PROVE Alone(p) /\ Ends(p)
  BY <1>0, <1>2, FinishedIs, Moves DEF Ends
<1>3. CASE cache[p] = None /\ BadArchives # {}
  BY <1>2, <1>3 DEF Appends
<1>4. CASE cache[p] = None /\ BadArchives = {} /\ Corrupt(active)
  <2> DEFINE r == [proc[p] EXCEPT !.pc = "mend"]
  <2>1. proc' = [proc EXCEPT ![p] = r] /\ lock' = p /\ UNCHANGED cache
    BY <1>0, <1>4 DEF Appends
  <2>2. /\ r \in Proc /\ r.pc = "mend" /\ r.home = proc[p].home /\ r.rec = proc[p].rec
        /\ r.todo = proc[p].todo /\ r.known = proc[p].known /\ r.sig = proc[p].sig
        /\ r.saw = proc[p].saw /\ r.calm = proc[p].calm
    BY <1>0 DEF Proc
  <2> HIDE DEF r
  <2> QED BY <1>0, <1>4, <2>1, <2>2, Moves DEF SameData
<1>5. CASE cache[p] # None \/ (BadArchives = {} /\ ~Corrupt(active))
  <2>1. /\ cache' = [cache EXCEPT ![p] = Logged(p)]
        /\ IF proc[p].rec \in Logged(p)
           THEN proc' = [proc EXCEPT ![p] = Finished(p)] /\ lock' = None
           ELSE /\ proc' = [proc EXCEPT ![p].pc = "write", ![p].known = Logged(p)]
                /\ lock' = p
    BY <1>5 DEF Appends
  <2>2. CASE proc[p].rec \in Logged(p)
    BY <1>2, <1>5, <2>1, <2>2
  <2>3. CASE proc[p].rec \notin Logged(p)
    <3>1. PICK S \in SUBSET Ids : S = Logged(p)
      BY <1>1
    <3> DEFINE r == [proc[p] EXCEPT !.pc = "write", !.known = S]
    <3>2. proc' = [proc EXCEPT ![p] = r] /\ lock' = p
      BY <1>0, <2>1, <2>3, <3>1
    <3>3. /\ r \in Proc /\ r.pc = "write" /\ r.home = proc[p].home /\ r.rec = proc[p].rec
          /\ r.todo = proc[p].todo /\ r.known = S /\ r.calm = proc[p].calm
      BY <1>0 DEF Proc
    <3> HIDE DEF r
    <3> QED BY <1>0, <1>5, <2>1, <2>3, <3>1, <3>2, <3>3, Moves
  <2> QED BY <2>2, <2>3
<1> QED BY <1>3, <1>4, <1>5

LEMMA RotatesStep ==
  ASSUME Types, NEW p \in Procs, Rotates(p)
  PROVE  Disturbs(p) /\ proc'[p] = proc[p]
BY Touches DEF Rotates, Types

LEMMA WritesStep ==
  ASSUME Types, NEW p \in Procs, Writes(p)
  PROVE  /\ Disturbs(p) /\ SameData(p) /\ proc'[p].pc = "rest"
         /\ \E text \in {Part, Whole(proc[p].rec, FALSE)} : active' = Joined(active, text)
<1> DEFINE r == [proc[p] EXCEPT !.pc = "rest"]
<1>0. proc \in [Procs -> Proc] /\ proc[p] \in Proc
  BY DEF Types
<1>1. proc' = Touched(p, r)
  BY DEF Writes
<1>2. /\ r \in Proc /\ r.pc = "rest" /\ r.home = proc[p].home /\ r.rec = proc[p].rec
      /\ r.todo = proc[p].todo /\ r.known = proc[p].known /\ r.sig = proc[p].sig
      /\ r.saw = proc[p].saw /\ r.calm = proc[p].calm
  BY <1>0 DEF Proc
<1> HIDE DEF r
<1>3. \E text \in {Part, Whole(proc[p].rec, FALSE)} : active' = Joined(active, text)
  BY DEF Writes, Written, Part, Whole, Joined, Unended
<1> QED BY <1>0, <1>1, <1>2, <1>3, Touches DEF SameData

LEMMA CompletesStep ==
  ASSUME Types, NEW p \in Procs, Completes(p)
  PROVE  /\ Disturbs(p) /\ Ends(p) /\ active' = Done(p)
         /\ cache' = [Forgotten EXCEPT ![p] = proc[p].known \cup ({proc[p].rec} \cap Ids)]
<1>1. proc' = Touched(p, Finished(p)) /\ active' = Done(p)
  BY DEF Completes, Done, Completed
<1>2. cache' = [Forgotten EXCEPT ![p] = proc[p].known \cup ({proc[p].rec} \cap Ids)]
  BY DEF Completes
<1>3. Disturbs(p) /\ proc'[p] = Finished(p)
  BY <1>1, FinishedIs, Touches DEF Types
<1> QED BY <1>1, <1>2, <1>3, FinishedIs DEF Ends

LEMMA FailsStep ==
  ASSUME Types, NEW p \in Procs, Fails(p)
  PROVE  Alone(p) /\ Ends(p) /\ ~proc'[p].calm
<1> DEFINE r == [Finished(p) EXCEPT !.calm = FALSE]
<1>1. proc' = [proc EXCEPT ![p] = r] /\ proc \in [Procs -> Proc]
  BY DEF Fails, Types
<1>2. Finished(p) \in Proc
  BY FinishedIs
<1>3. /\ r \in Proc /\ r.pc = Finished(p).pc /\ r.home = Finished(p).home
      /\ r.rec = Finished(p).rec /\ r.todo = Finished(p).todo /\ r.calm = FALSE
  BY <1>2 DEF Proc
<1> HIDE DEF r
<1> QED BY <1>1, <1>3, FinishedIs, Moves DEF Ends

\* A process that ends, in order or not.
LEMMA EndsStep ==
  ASSUME Types, NEW p \in Procs, Crashes(p) \/ Leaves(p)
  PROVE  /\ Alone(p) /\ proc'[p] = Idle
         /\ cache' = [cache EXCEPT ![p] = None]
BY IdleIs, Moves DEF Crashes, Leaves, Types

-----------------------------------------------------------------------------
(* Types, the lock, and what a process carries along.                       *)

LEMMA LocalTypes == LocalInv => Types
BY DEF LocalInv, UsageTypeOK, Types

\* The others hold no lock when p changes the ledger.
LEMMA LocalFrame ==
  ASSUME LocalInv, NEW p \in Procs, Alone(p) \/ Disturbs(p),
         rows' \in 0 .. MaxRows, rows' >= rows,
         lock' = lock \/ (lock \in {None, p} /\ lock' \in {None, p}),
         active' = active \/ lock = p,
         NEW q \in Procs \ {p}
  PROVE  Local(q)'
<1>1. Local(q) /\ q # None /\ rows \in Nat
  BY UsageAssumption DEF LocalInv, UsageTypeOK
<1>2. /\ proc'[q].pc = proc[q].pc /\ proc'[q].home = proc[q].home
      /\ proc'[q].rec = proc[q].rec /\ proc'[q].todo = proc[q].todo
      /\ proc'[q].calm => proc[q].calm
  BY DEF Alone, Disturbs, Disturbed
<1>3. (lock' = q) <=> (lock = q)
  BY <1>1
<1>4. Rows \subseteq Rows'
  BY <1>1 DEF Rows
<1>5. At(q, "rest") => active' = active
  BY <1>1 DEF Local, In, At, Locked
<1>6. /\ In(q, Locked)' => lock' = q
      /\ lock' = q => In(q, Locked \cup {"append"})'
  BY <1>1, <1>2, <1>3 DEF Local, In, Locked
<1>7. /\ In(q, {"append", "write", "rest"})' => proc'[q].rec \in Records
      /\ In(q, {"idle", "recover", "archives", "list", "read", "ready"})' => proc'[q].rec = None
  BY <1>1, <1>2 DEF Local, In
<1>8. /\ proc'[q].todo \subseteq Rows'
      /\ proc'[q].rec \in Ids => proc'[q].rec \in Rows'
      /\ proc'[q].home = "ready" => proc'[q].rec \notin Notes
      /\ proc'[q].home = "idle" => ~proc'[q].calm
      /\ At(q, "idle")' => proc'[q].home = "idle"
  BY <1>1, <1>2, <1>4 DEF Local, At
<1>9. At(q, "rest")' =>
        /\ active' # <<>> /\ ~Last(active').ended
        /\ Last(active').kind = "whole" => Last(active').of = {proc'[q].rec}
  BY <1>1, <1>2, <1>5 DEF Local, At
<1> QED BY <1>6, <1>7, <1>8, <1>9 DEF Local

LEMMA LocalStep ==
  ASSUME LocalInv, NEW p \in Procs, Alone(p) \/ Disturbs(p),
         rows' \in 0 .. MaxRows, rows' >= rows, faults' \in 0 .. MaxFaults,
         FileOK(active'), \A a \in archives' : FileOK(a),
         quarantine' \subseteq Line, acked' \subseteq Records,
         lock' = lock \/ (lock \in {None, p} /\ lock' \in {None, p}),
         active' = active \/ lock = p,
         cache' \in [Procs -> (SUBSET Ids) \cup {None}],
         Local(p)'
  PROVE  LocalInv'
<1>1. \A q \in Procs : Local(q)'
  BY LocalFrame
<1>2. proc' \in [Procs -> Proc]
  BY DEF Alone, Disturbs
<1>3. lock' \in Procs \cup {None}
  BY DEF LocalInv, UsageTypeOK
<1>4. UsageTypeOK'
  BY <1>2, <1>3 DEF UsageTypeOK, FileOK
<1> QED BY <1>1, <1>4 DEF LocalInv

\* A step that leaves the files alone.
LEMMA LocalMove ==
  ASSUME LocalInv, NEW p \in Procs, Alone(p) \/ Disturbs(p), UNCHANGED <<files, acked>>,
         rows' \in 0 .. MaxRows, rows' >= rows, faults' \in 0 .. MaxFaults,
         lock' = lock \/ (lock \in {None, p} /\ lock' \in {None, p}),
         cache' \in [Procs -> (SUBSET Ids) \cup {None}],
         Local(p)'
  PROVE  LocalInv'
<1>1. /\ UNCHANGED <<active, archives, quarantine>>
      /\ FileOK(active') /\ \A a \in archives' : FileOK(a)
      /\ quarantine' \subseteq Line /\ acked' \subseteq Records
  BY DEF files, LocalInv, UsageTypeOK
<1> QED BY <1>1, LocalStep

LEMMA LocalInitially == Init => LocalInv
<1> SUFFICES ASSUME Init PROVE LocalInv
  OBVIOUS
<1>1. \A p \in Procs : proc[p] = Idle /\ lock # p
  BY UsageAssumption DEF Init
<1>2. \A p \in Procs : Local(p)
  BY <1>1, IdleIs, UsageAssumption DEF Local, In, At, Locked, Ids
<1>3. proc \in [Procs -> Proc] /\ cache \in [Procs -> (SUBSET Ids) \cup {None}]
  BY IdleIs DEF Init, Forgotten
<1>4. FileOK(active)
  BY UsageAssumption DEF Init, FileOK
<1>5. UsageTypeOK
  BY <1>3, <1>4, UsageAssumption DEF Init, UsageTypeOK, FileOK
<1> QED BY <1>2, <1>4, <1>5 DEF LocalInv, Init

LEMMA LocalFacts ==
  ASSUME LocalInv, NEW p \in Procs
  PROVE  /\ Types /\ Local(p) /\ p # None /\ proc[p] \in Proc /\ rows \in 0 .. MaxRows
         /\ faults \in 0 .. MaxFaults /\ cache \in [Procs -> (SUBSET Ids) \cup {None}]
         /\ FileOK(active) /\ \A a \in archives : FileOK(a)
         /\ MaxFaults \in Nat /\ MaxRows \in Nat /\ rows >= rows
BY LocalTypes, UsageAssumption DEF LocalInv, UsageTypeOK

LEMMA LocalSyncs ==
  ASSUME LocalInv, NEW p \in Procs, Syncs(p)
  PROVE  LocalInv'
<1>1. Types /\ Local(p) /\ p # None
  BY LocalFacts
<1>2. UNCHANGED <<rows, files, lock, cache, acked, faults>> /\ proc[p].pc \in {"idle", "ready"}
  BY DEF Syncs
<1>3. /\ Alone(p) /\ proc'[p].rec = None /\ proc'[p].todo = {} /\ proc'[p].home = "ready"
      /\ proc'[p].pc \in {"recover", "list"}
  BY <1>1, SyncsStep
<1>4. lock # p
  BY <1>1, <1>2 DEF Local, In, Locked
<1>5. Local(p)'
  BY <1>2, <1>3, <1>4, UsageAssumption DEF Local, In, At, Locked, Ids
<1> QED BY <1>2, <1>3, <1>5, LocalMove, LocalFacts

LEMMA LocalRecovers ==
  ASSUME LocalInv, NEW p \in Procs, Recovers(p)
  PROVE  LocalInv'
<1>1. Types /\ Local(p) /\ p # None
  BY LocalFacts
<1>2. UNCHANGED <<rows, files, cache, acked, faults>> /\ proc[p].pc = "recover"
      /\ lock = None /\ lock' = p
  BY DEF Recovers, At
<1>3. Alone(p) /\ SameData(p) /\ proc'[p].pc = "archives"
  BY <1>1, RecoversStep
<1>4. Local(p)'
  BY <1>1, <1>2, <1>3 DEF Local, In, At, Locked, SameData, Rows
<1> QED BY <1>2, <1>3, <1>4, LocalMove, LocalFacts

LEMMA LocalMendsArchives ==
  ASSUME LocalInv, NEW p \in Procs, MendsArchives(p)
  PROVE  LocalInv'
<1>1. Types /\ Local(p) /\ p # None
  BY LocalFacts
<1>2. UNCHANGED <<rows, lock, acked, faults>> /\ proc[p].pc = "archives"
  BY DEF MendsArchives, At
<1>3. CASE /\ BadArchives = {} /\ Alone(p) /\ SameData(p) /\ proc'[p].pc = "mend"
           /\ UNCHANGED <<active, archives, quarantine, cache>>
  <2>1. Local(p)'
    BY <1>1, <1>2, <1>3 DEF Local, In, At, Locked, SameData, Rows
  <2>2. UNCHANGED <<files, acked>>
    BY <1>2, <1>3 DEF files
  <2> QED BY <1>2, <1>3, <2>1, <2>2, LocalMove, LocalFacts
<1>4. CASE /\ Disturbs(p) /\ proc'[p] = proc[p] /\ cache' = Forgotten /\ UNCHANGED active
           /\ \E a \in BadArchives : /\ archives' = archives \ {a}
                                     /\ quarantine' = quarantine \cup Range(a)
  <2>1. Local(p)'
    BY <1>1, <1>2, <1>4 DEF Local, In, At, Locked, Rows
  <2>2. cache' \in [Procs -> (SUBSET Ids) \cup {None}]
    BY <1>4 DEF Forgotten
  <2>3. quarantine' \subseteq Line /\ \A a \in archives' : FileOK(a)
    <3>1. PICK a \in BadArchives : /\ archives' = archives \ {a}
                                   /\ quarantine' = quarantine \cup Range(a)
      BY <1>4
    <3>2. FileOK(a) /\ \A b \in archives : FileOK(b)
      BY LocalFacts DEF BadArchives
    <3>3. Range(a) \subseteq Line
      BY <3>2 DEF FileOK, Range
    <3> QED BY <3>1, <3>2, <3>3 DEF LocalInv, UsageTypeOK
  <2>4. acked' \subseteq Records /\ FileOK(active')
    BY <1>2, <1>4 DEF LocalInv, UsageTypeOK
  <2> QED BY <1>2, <1>4, <2>1, <2>2, <2>3, <2>4, LocalStep, LocalFacts
<1> QED BY <1>1, <1>3, <1>4, MendsArchivesStep

LEMMA LocalMends ==
  ASSUME LocalInv, NEW p \in Procs, Mends(p)
  PROVE  LocalInv'
<1>1. Types /\ Local(p) /\ p # None
  BY LocalFacts
<1>2. /\ UNCHANGED <<rows, active, archives, lock, acked, faults>> /\ proc[p].pc = "mend"
      /\ quarantine' = quarantine \cup {active[i] : i \in DOMAIN active \ Valid(active)}
  BY DEF Mends, At
<1>3. /\ SameData(p) /\ proc'[p].pc = "rewrite"
      /\ Alone(p) \/ Disturbs(p)
      /\ cache' = Forgotten \/ UNCHANGED cache
  BY <1>1, MendsStep
<1>4. Local(p)'
  BY <1>1, <1>2, <1>3 DEF Local, In, At, Locked, SameData, Rows
<1>5. cache' \in [Procs -> (SUBSET Ids) \cup {None}]
  BY <1>3, LocalFacts DEF Forgotten
<1>6. quarantine' \subseteq Line
  BY <1>2, LocalFacts DEF FileOK, LocalInv, UsageTypeOK
<1>7. acked' \subseteq Records /\ FileOK(active') /\ \A a \in archives' : FileOK(a)
  BY <1>2 DEF LocalInv, UsageTypeOK
<1> QED BY <1>2, <1>3, <1>4, <1>5, <1>6, <1>7, LocalStep, LocalFacts

LEMMA LocalRewrites ==
  ASSUME LocalInv, NEW p \in Procs, Rewrites(p)
  PROVE  LocalInv'
<1>1. Types /\ Local(p) /\ p # None /\ FileOK(active)
  BY LocalFacts
<1>2. /\ UNCHANGED <<rows, archives, quarantine, acked, faults>> /\ proc[p].pc = "rewrite"
      /\ active' = Canonical(active) /\ lock = p
  BY <1>1 DEF Rewrites, At, Local, In, Locked
<1>3. /\ SameData(p)
      /\ Alone(p) \/ Disturbs(p)
      /\ proc[p].rec = None => proc'[p].pc = "list" /\ lock' = None
      /\ proc[p].rec # None => proc'[p].pc = "append" /\ lock' = p
      /\ cache' = Forgotten \/ cache' = [cache EXCEPT ![p] = None]
  BY <1>1, RewritesStep
<1>4. proc[p].rec = None \/ proc[p].rec \in Records
  BY LocalFacts DEF Proc
<1>5. Local(p)'
  BY <1>1, <1>2, <1>3, <1>4 DEF Local, In, At, Locked, SameData, Rows
<1>6. cache' \in [Procs -> (SUBSET Ids) \cup {None}]
  BY <1>3, LocalFacts DEF Forgotten
<1>7. FileOK(active')
  BY <1>1, <1>2, CanonicalClean
<1>8. acked' \subseteq Records /\ quarantine' \subseteq Line /\ \A a \in archives' : FileOK(a)
  BY <1>2 DEF LocalInv, UsageTypeOK
<1>9. lock \in {None, p} /\ lock' \in {None, p} /\ (Alone(p) \/ Disturbs(p))
  BY <1>2, <1>3
<1> QED BY <1>2, <1>5, <1>6, <1>7, <1>8, <1>9, LocalStep, LocalFacts

LEMMA LocalLists ==
  ASSUME LocalInv, NEW p \in Procs, Lists(p) \/ Reads(p)
  PROVE  LocalInv'
<1>1. Types /\ Local(p) /\ p # None
  BY LocalFacts
<1>2. /\ UNCHANGED <<rows, files, lock, acked, faults>> /\ proc[p].pc \in {"list", "read"}
      /\ UNCHANGED cache \/ \E S : cache' = [cache EXCEPT ![p] = S]
  BY DEF Lists, Reads, At
<1>3. /\ Alone(p) /\ proc'[p].pc \in {"read", "ready"} /\ proc'[p].rec = proc[p].rec
      /\ proc'[p].home = proc[p].home /\ proc'[p].calm = proc[p].calm
      /\ proc'[p].todo \subseteq Rows
  <2>1. ASSUME NEW S, Misses(p, S)
        PROVE /\ Alone(p) /\ proc'[p].pc \in {"read", "ready"} /\ proc'[p].rec = proc[p].rec
              /\ proc'[p].home = proc[p].home /\ proc'[p].calm = proc[p].calm
              /\ proc'[p].todo \subseteq Rows
    BY <2>1 DEF Misses
  <2>2. CASE Lists(p)
    BY <1>1, <2>1, <2>2, ListsStep DEF Local
  <2>3. CASE Reads(p)
    BY <1>1, <2>1, <2>3, ReadsStep DEF Local
  <2> QED BY <2>2, <2>3
<1>4. Local(p)'
  BY <1>1, <1>2, <1>3 DEF Local, In, At, Locked, Rows
<1>5. cache' \in [Procs -> (SUBSET Ids) \cup {None}]
  <2>1. CASE Lists(p)
    BY <2>1, LocalFacts DEF Lists
  <2>2. CASE Reads(p)
    BY <1>1, <2>2, LocalFacts, ReadsStep
  <2> QED BY <2>1, <2>2
<1> QED BY <1>2, <1>3, <1>4, <1>5, LocalMove, LocalFacts

LEMMA LocalProjects ==
  ASSUME LocalInv, NEW p \in Procs, Projects(p)
  PROVE  LocalInv'
<1>1. Types /\ Local(p) /\ p # None
  BY LocalFacts
<1>2. UNCHANGED <<rows, files, lock, cache, acked, faults>> /\ proc[p].pc = "ready"
  BY DEF Projects, At
<1>3. /\ Alone(p) /\ proc'[p].pc = "append" /\ proc'[p].rec \in proc[p].todo
      /\ proc'[p].home = proc[p].home /\ proc'[p].todo = proc[p].todo
      /\ proc'[p].calm = proc[p].calm
  BY <1>1, ProjectsStep
<1>4. proc'[p].rec \in Rows /\ proc'[p].rec \in Records /\ proc'[p].rec \notin Notes
  <2>1. proc[p].todo \subseteq Rows /\ proc[p].todo \subseteq Ids
    BY <1>1, LocalFacts DEF Local, Proc
  <2> QED BY <1>3, <2>1, UsageAssumption DEF Records, Ids
<1>5. Local(p)'
  BY <1>1, <1>2, <1>3, <1>4 DEF Local, In, At, Locked, Rows
<1> QED BY <1>2, <1>3, <1>5, LocalMove, LocalFacts

LEMMA LocalRecordsAttempt ==
  ASSUME LocalInv, NEW p \in Procs, RecordsAttempt(p)
  PROVE  LocalInv'
<1>1. Types /\ Local(p) /\ p # None
  BY LocalFacts
<1>2. UNCHANGED <<files, lock, cache, acked, faults>> /\ proc[p].pc = "ready"
  BY DEF RecordsAttempt, At
<1>3. /\ Disturbs(p) /\ proc'[p].pc = "append" /\ proc'[p].rec = rows + 1
      /\ proc'[p].home = proc[p].home /\ proc'[p].todo = proc[p].todo
      /\ proc'[p].calm = proc[p].calm
      /\ rows' = rows + 1 /\ rows' \in 0 .. MaxRows /\ rows' \in Ids
  BY <1>1, RecordsAttemptStep
<1>4. /\ rows \in Nat /\ rows' >= rows /\ proc'[p].rec \in Records /\ proc'[p].rec \notin Notes
      /\ proc'[p].rec \in Rows' /\ Rows \subseteq Rows'
  BY <1>3, LocalFacts, UsageAssumption DEF Records, Ids, Rows
<1>5. Local(p)'
  BY <1>1, <1>2, <1>3, <1>4 DEF Local, In, At, Locked
<1> QED BY <1>2, <1>3, <1>4, <1>5, LocalMove, LocalFacts

LEMMA LocalRecordsNote ==
  ASSUME LocalInv, NEW p \in Procs, RecordsNote(p)
  PROVE  LocalInv'
<1>1. Types /\ Local(p) /\ p # None
  BY LocalFacts
<1>2. UNCHANGED <<rows, files, lock, cache, acked, faults>> /\ proc[p].pc = "idle"
  BY DEF RecordsNote, At
<1>3. /\ Alone(p) /\ proc'[p].pc = "append" /\ proc'[p].rec \in Notes \ acked
      /\ proc'[p].home = proc[p].home /\ proc'[p].todo = proc[p].todo
      /\ proc'[p].calm = proc[p].calm
  BY <1>1, RecordsNoteStep
<1>4. proc[p].home = "idle"
  BY <1>1, <1>2 DEF Local, At
<1>5. Local(p)'
  BY <1>1, <1>2, <1>3, <1>4, UsageAssumption DEF Local, In, At, Locked, Rows, Ids, Records
<1> QED BY <1>2, <1>3, <1>5, LocalMove, LocalFacts

\* An append is over when the lock is not held any more.
LEMMA LocalEnded ==
  ASSUME LocalInv, NEW p \in Procs, Ends(p), lock' = None, rows' = rows
  PROVE  Local(p)'
<1>1. Local(p) /\ p # None /\ proc[p] \in Proc
  BY LocalFacts
<1>2. proc[p].home \in {"idle", "ready"}
  BY <1>1 DEF Proc
<1> QED BY <1>1, <1>2, UsageAssumption DEF Local, In, At, Locked, Ends, Rows, Ids

LEMMA LocalAppends ==
  ASSUME LocalInv, NEW p \in Procs, Appends(p)
  PROVE  LocalInv'
<1>1. Types /\ Local(p) /\ p # None
  BY LocalFacts
<1>2. UNCHANGED <<rows, files, acked, faults>> /\ proc[p].pc = "append" /\ lock \in {None, p}
  BY DEF Appends, At
<1>3. cache' \in [Procs -> (SUBSET Ids) \cup {None}]
  <2>1. Logged(p) \in SUBSET Ids
    BY <1>1, ArchivedIds DEF Logged, Types
  <2>2. UNCHANGED cache \/ cache' = [cache EXCEPT ![p] = Logged(p)]
    BY DEF Appends
  <2> QED BY <2>1, <2>2, LocalFacts
<1>4. CASE Alone(p) /\ Ends(p) /\ lock' = None
  <2>1. Local(p)'
    BY <1>2, <1>4, LocalEnded
  <2> QED BY <1>2, <1>3, <1>4, <2>1, LocalMove, LocalFacts
<1>5. CASE /\ Alone(p) /\ proc'[p].pc \in {"mend", "write"} /\ lock' = p
           /\ proc'[p].home = proc[p].home /\ proc'[p].rec = proc[p].rec
           /\ proc'[p].todo = proc[p].todo /\ proc'[p].calm = proc[p].calm
  <2>1. Local(p)'
    BY <1>1, <1>2, <1>5 DEF Local, In, At, Locked, Rows
  <2> QED BY <1>2, <1>3, <1>5, <2>1, LocalMove, LocalFacts
<1> QED BY <1>1, <1>4, <1>5, AppendsStep DEF SameData

LEMMA LocalRotates ==
  ASSUME LocalInv, NEW p \in Procs, Rotates(p)
  PROVE  LocalInv'
<1>1. Types /\ Local(p) /\ p # None
  BY LocalFacts
<1>2. /\ UNCHANGED <<rows, quarantine, lock, acked, faults>> /\ proc[p].pc = "write"
      /\ archives' = archives \cup {active} /\ active' = <<>> /\ cache' = Forgotten
      /\ lock = p
  BY <1>1 DEF Rotates, At, Local, In, Locked
<1>3. Disturbs(p) /\ proc'[p] = proc[p]
  BY <1>1, RotatesStep
<1>4. Local(p)'
  BY <1>1, <1>2, <1>3 DEF Local, In, At, Locked, Rows
<1>5. FileOK(active') /\ \A a \in archives' : FileOK(a)
  BY <1>2, LocalFacts, UsageAssumption DEF FileOK
<1>6. /\ acked' \subseteq Records /\ quarantine' \subseteq Line
      /\ cache' \in [Procs -> (SUBSET Ids) \cup {None}]
  BY <1>2 DEF LocalInv, UsageTypeOK, Forgotten
<1> QED BY <1>2, <1>3, <1>4, <1>5, <1>6, LocalStep, LocalFacts

\* There is room for the line that is written.
LEMMA Room ==
  ASSUME LocalInv, ~Full
  PROVE  Len(active) < MaxLines
<1>1. Len(active) \in Nat /\ MaxLines \in Nat
  BY UsageAssumption DEF LocalInv, FileOK
<1> QED BY <1>1 DEF Full

LEMMA LocalWrites ==
  ASSUME LocalInv, NEW p \in Procs, Writes(p)
  PROVE  LocalInv'
<1>1. Types /\ Local(p) /\ p # None
  BY LocalFacts
<1>2. /\ UNCHANGED <<rows, archives, quarantine, lock, acked, faults>> /\ proc[p].pc = "write"
      /\ cache' = Forgotten /\ lock = p /\ Len(active) < MaxLines
      /\ proc[p].rec \in Records
  BY <1>1, Room DEF Writes, At, Local, In, Locked
<1>3. Disturbs(p) /\ SameData(p) /\ proc'[p].pc = "rest"
  BY <1>1, WritesStep
<1>4. /\ FileOK(active') /\ active' # <<>> /\ ~Last(active').ended
      /\ Last(active').kind = "whole" => Last(active').of = {proc[p].rec}
  <2>1. PICK text \in {Part, Whole(proc[p].rec, FALSE)} : active' = Joined(active, text)
    BY <1>1, WritesStep
  <2>2. FileOK(active) /\ Len(active) < MaxLines /\ proc[p].rec \in Records
    BY <1>2, LocalFacts
  <2>3. Writing(active, proc[p].rec, text, active', Completed(active', proc[p].rec))
    BY <2>1, <2>2 DEF Writing
  <2> QED BY <2>3, WriteKeeps
<1>5. Local(p)'
  BY <1>1, <1>2, <1>3, <1>4 DEF Local, In, At, Locked, Rows, SameData
<1>6. /\ acked' \subseteq Records /\ quarantine' \subseteq Line
      /\ cache' \in [Procs -> (SUBSET Ids) \cup {None}] /\ \A a \in archives' : FileOK(a)
  BY <1>2 DEF LocalInv, UsageTypeOK, Forgotten
<1> QED BY <1>2, <1>3, <1>4, <1>5, <1>6, LocalStep, LocalFacts

LEMMA LocalCompletes ==
  ASSUME LocalInv, NEW p \in Procs, Completes(p)
  PROVE  LocalInv'
<1>1. Types /\ Local(p) /\ p # None
  BY LocalFacts
<1>2. /\ UNCHANGED <<rows, archives, quarantine, faults>> /\ proc[p].pc = "rest"
      /\ lock = p /\ lock' = None /\ acked' = acked \cup {proc[p].rec}
      /\ proc[p].rec \in Records /\ active # <<>>
      /\ Last(active).kind = "whole" => Last(active).of = {proc[p].rec}
  BY <1>1 DEF Completes, At, Local, In, Locked
<1>3. /\ Disturbs(p) /\ Ends(p) /\ active' = Done(p)
      /\ cache' = [Forgotten EXCEPT ![p] = proc[p].known \cup ({proc[p].rec} \cap Ids)]
  BY <1>1, CompletesStep
<1>4. Local(p)'
  BY <1>2, <1>3, LocalEnded
<1>5. FileOK(active')
  BY <1>2, <1>3, LocalFacts, CompletedKeeps DEF Done
<1>6. cache' \in [Procs -> (SUBSET Ids) \cup {None}]
  <2>1. proc[p].known \cup ({proc[p].rec} \cap Ids) \in SUBSET Ids
    BY LocalFacts DEF Proc
  <2> QED BY <1>3, <2>1 DEF Forgotten
<1>7. acked' \subseteq Records /\ quarantine' \subseteq Line /\ \A a \in archives' : FileOK(a)
  BY <1>2 DEF LocalInv, UsageTypeOK
<1>8. lock' = lock \/ (lock \in {None, p} /\ lock' \in {None, p})
  BY <1>2
<1> QED BY <1>2, <1>3, <1>4, <1>5, <1>6, <1>7, <1>8, LocalStep, LocalFacts

LEMMA LocalFails ==
  ASSUME LocalInv, NEW p \in Procs, Fails(p)
  PROVE  LocalInv'
<1>1. Types /\ Local(p) /\ p # None
  BY LocalFacts
<1>2. /\ UNCHANGED <<rows, files, cache, acked>> /\ proc[p].pc = "rest"
      /\ lock = p /\ lock' = None /\ faults' \in 0 .. MaxFaults
  BY <1>1, LocalFacts DEF Fails, Fault, At, Local, In, Locked
<1>3. Alone(p) /\ Ends(p)
  BY <1>1, FailsStep
<1>4. Local(p)'
  BY <1>2, <1>3, LocalEnded
<1> QED BY <1>2, <1>3, <1>4, LocalMove, LocalFacts

LEMMA LocalLeaves ==
  ASSUME LocalInv, NEW p \in Procs, Crashes(p) \/ Leaves(p)
  PROVE  LocalInv'
<1>1. Types /\ Local(p) /\ p # None
  BY LocalFacts
<1>2. /\ UNCHANGED <<rows, files, acked>> /\ faults' \in 0 .. MaxFaults
      /\ lock' # p
      /\ lock' = lock \/ (lock = p /\ lock' = None)
  <2>1. CASE Crashes(p)
    BY <1>1, <2>1, LocalFacts DEF Crashes, Fault
  <2>2. CASE Leaves(p)
    BY <1>1, <2>2, LocalFacts DEF Leaves, At, Local, In, Locked
  <2> QED BY <2>1, <2>2
<1>3. Alone(p) /\ proc'[p] = Idle /\ cache' = [cache EXCEPT ![p] = None]
  BY <1>1, EndsStep
<1>4. Local(p)'
  BY <1>2, <1>3, IdleIs, UsageAssumption DEF Local, In, At, Locked, Ids
<1>5. cache' \in [Procs -> (SUBSET Ids) \cup {None}]
  BY <1>3, LocalFacts
<1> QED BY <1>2, <1>3, <1>4, <1>5, LocalMove, LocalFacts

LEMMA LocalInvariance == LocalInv /\ [Next]_vars => LocalInv'
<1> SUFFICES ASSUME LocalInv, [Next]_vars PROVE LocalInv'
  OBVIOUS
<1>1. CASE UNCHANGED vars
  BY <1>1 DEF vars, files, LocalInv, UsageTypeOK, Local, In, At, Rows
<1>2. ASSUME NEW p \in Procs,
             \/ Syncs(p) \/ Recovers(p) \/ MendsArchives(p) \/ Mends(p) \/ Rewrites(p)
             \/ Lists(p) \/ Reads(p) \/ Projects(p) \/ RecordsAttempt(p) \/ RecordsNote(p)
             \/ Appends(p) \/ Rotates(p) \/ Writes(p) \/ Completes(p)
             \/ Fails(p) \/ Crashes(p) \/ Leaves(p)
      PROVE  LocalInv'
  BY <1>2, LocalSyncs, LocalRecovers, LocalMendsArchives, LocalMends, LocalRewrites, LocalLists,
     LocalProjects, LocalRecordsAttempt, LocalRecordsNote, LocalAppends, LocalRotates,
     LocalWrites, LocalCompletes, LocalFails, LocalLeaves
<1> QED BY <1>1, <1>2 DEF Next

\* The types of rows, ledger, archives, processes and indexes.
THEOREM UsageTypeCorrect == Spec => []UsageTypeOK
<1>1. LocalInv => UsageTypeOK
  BY DEF LocalInv
<1> QED BY <1>1, LocalInitially, LocalInvariance, PTL DEF Spec

-----------------------------------------------------------------------------
(* What is appended stays on the disk.                                      *)

LEMMA KeptStep ==
  ASSUME KeptInv, LocalInv', NEW p \in Procs, Alone(p) \/ Disturbs(p),
         quarantine \subseteq quarantine', active' = active \/ lock = p,
         Saved(p)', NothingForgotten'
  PROVE  KeptInv'
<1>1. ASSUME NEW q \in Procs \ {p} PROVE Saved(q)'
  <2>1. proc'[q].pc = proc[q].pc
    BY DEF Alone, Disturbs, Disturbed
  <2>2. Saved(q) /\ Local(q)
    BY DEF KeptInv, LocalInv
  <2>3. At(q, "rewrite") => active' = active
    BY <2>2 DEF Local, In, At, Locked
  <2> QED BY <2>1, <2>2, <2>3 DEF Saved, At
<1> QED BY <1>1 DEF KeptInv

\* A step that leaves the files alone.
LEMMA KeptMove ==
  ASSUME KeptInv, LocalInv', NEW p \in Procs, Alone(p) \/ Disturbs(p),
         UNCHANGED <<files, acked>>, proc'[p].pc # "rewrite"
  PROVE  KeptInv'
<1>1. UNCHANGED <<active, archives, quarantine, acked>>
  BY DEF files
<1>2. NothingForgotten'
  BY <1>1 DEF KeptInv, NothingForgotten
<1>3. Saved(p)'
  BY DEF Saved, At
<1> QED BY <1>1, <1>2, <1>3, KeptStep

LEMMA KeptMoves ==
  ASSUME KeptInv, LocalInv', NEW p \in Procs,
         \/ Syncs(p) \/ Recovers(p) \/ Lists(p) \/ Reads(p) \/ Projects(p)
         \/ RecordsAttempt(p) \/ RecordsNote(p) \/ Appends(p) \/ Fails(p)
         \/ Crashes(p) \/ Leaves(p)
  PROVE  KeptInv'
<1>1. Types /\ Local(p) /\ proc[p] \in Proc
  BY LocalFacts DEF KeptInv
<1>2. UNCHANGED <<files, acked>>
  BY DEF Syncs, Recovers, Lists, Reads, Projects, RecordsAttempt, RecordsNote, Appends, Fails,
         Crashes, Leaves
<1>3. Ends(p) => proc'[p].pc # "rewrite"
  BY <1>1 DEF Ends, Proc
<1>4. \A S : Misses(p, S) => Alone(p) /\ proc'[p].pc # "rewrite"
  BY DEF Misses
<1>5. (Alone(p) \/ Disturbs(p)) /\ proc'[p].pc # "rewrite"
  <2>1. CASE Syncs(p) \/ Recovers(p)
    BY <1>1, <2>1, SyncsStep, RecoversStep
  <2>2. CASE Lists(p)
    BY <1>1, <1>4, <2>2, ListsStep
  <2>3. CASE Reads(p)
    BY <1>1, <1>4, <2>3, ReadsStep
  <2>4. CASE Projects(p) \/ RecordsAttempt(p) \/ RecordsNote(p)
    BY <1>1, <2>4, ProjectsStep, RecordsAttemptStep, RecordsNoteStep
  <2>5. CASE Appends(p)
    BY <1>1, <1>3, <2>5, AppendsStep
  <2>6. CASE Fails(p) \/ Crashes(p) \/ Leaves(p)
    BY <1>1, <1>3, <2>6, FailsStep, EndsStep, IdleIs
  <2> QED BY <2>1, <2>2, <2>3, <2>4, <2>5, <2>6
<1> QED BY <1>2, <1>5, KeptMove

\* An archive that goes is saved as a whole.
LEMMA KeptMendsArchives ==
  ASSUME KeptInv, LocalInv', NEW p \in Procs, MendsArchives(p)
  PROVE  KeptInv'
<1>1. Types
  BY LocalFacts DEF KeptInv
<1>2. acked' = acked /\ proc[p].pc = "archives"
  BY DEF MendsArchives, At
<1>3. CASE /\ Alone(p) /\ proc'[p].pc = "mend"
           /\ UNCHANGED <<active, archives, quarantine>>
  <2>1. UNCHANGED <<files, acked>>
    BY <1>2, <1>3 DEF files
  <2> QED BY <1>3, <2>1, KeptMove
<1>4. CASE /\ Disturbs(p) /\ proc'[p] = proc[p] /\ active' = active
           /\ \E a \in BadArchives : /\ archives' = archives \ {a}
                                     /\ quarantine' = quarantine \cup Range(a)
  <2>1. PICK a \in BadArchives : /\ archives' = archives \ {a}
                                 /\ quarantine' = quarantine \cup Range(a)
    BY <1>4
  <2>2. \A i \in DOMAIN a : a[i] \in quarantine'
    BY <2>1 DEF Range
  <2>3. NothingForgotten'
    BY <1>2, <1>4, <2>1, <2>2 DEF KeptInv, NothingForgotten
  <2>4. Saved(p)'
    BY <1>2, <1>4 DEF Saved, At
  <2> QED BY <1>4, <2>1, <2>3, <2>4, KeptStep
<1> QED BY <1>1, <1>3, <1>4, MendsArchivesStep

\* The corrupt lines are saved before the ledger is replaced.
LEMMA KeptMends ==
  ASSUME KeptInv, LocalInv', NEW p \in Procs, Mends(p)
  PROVE  KeptInv'
<1>1. Types
  BY LocalFacts DEF KeptInv
<1>2. /\ UNCHANGED <<active, archives, acked>>
      /\ quarantine' = quarantine \cup {active[i] : i \in DOMAIN active \ Valid(active)}
  BY DEF Mends
<1>3. Alone(p) \/ Disturbs(p)
  BY <1>1, MendsStep
<1>4. NothingForgotten'
  BY <1>2 DEF KeptInv, NothingForgotten
<1>5. Saved(p)'
  BY <1>2 DEF Saved, Valid
<1> QED BY <1>2, <1>3, <1>4, <1>5, KeptStep

LEMMA KeptRewrites ==
  ASSUME KeptInv, LocalInv', NEW p \in Procs, Rewrites(p)
  PROVE  KeptInv'
<1>1. Types /\ Local(p) /\ FileOK(active) /\ Saved(p)
  BY LocalFacts DEF KeptInv
<1>2. /\ UNCHANGED <<archives, quarantine, acked>> /\ proc[p].pc = "rewrite"
      /\ active' = Canonical(active) /\ lock = p
  BY <1>1 DEF Rewrites, At, Local, In, Locked
<1>3. (Alone(p) \/ Disturbs(p)) /\ proc'[p].pc # "rewrite"
  BY <1>1, RewritesStep
<1>4. ASSUME NEW i \in DOMAIN active, NEW r \in active[i].of
      PROVE  \/ \E line \in quarantine : r \in line.of
             \/ \E n \in DOMAIN active' : r \in active'[n].of
  <2>1. CASE i \in Valid(active)
    <3>1. active[i] \in Line
      BY <1>1 DEF FileOK
    <3>2. Rank(active, i) \in DOMAIN active' /\ active'[Rank(active, i)] = Ended(active[i])
      BY <1>1, <1>2, <2>1, CanonicalLines
    <3> QED BY <1>4, <3>1, <3>2, EndedLine
  <2>2. CASE i \notin Valid(active)
    BY <1>1, <1>2, <1>4, <2>2 DEF Saved, At
  <2> QED BY <2>1, <2>2
<1>5. NothingForgotten'
  BY <1>2, <1>4 DEF KeptInv, NothingForgotten
<1>6. Saved(p)'
  BY <1>3 DEF Saved, At
<1> QED BY <1>2, <1>3, <1>5, <1>6, KeptStep

LEMMA KeptRotates ==
  ASSUME KeptInv, LocalInv', NEW p \in Procs, Rotates(p)
  PROVE  KeptInv'
<1>1. Types /\ Local(p)
  BY LocalFacts DEF KeptInv
<1>2. /\ UNCHANGED <<quarantine, acked>> /\ proc[p].pc = "write" /\ lock = p
      /\ archives' = archives \cup {active} /\ active' = <<>>
  BY <1>1 DEF Rotates, At, Local, In, Locked
<1>3. Disturbs(p) /\ proc'[p] = proc[p]
  BY <1>1, RotatesStep
<1>4. NothingForgotten'
  BY <1>2 DEF KeptInv, NothingForgotten
<1>5. Saved(p)'
  BY <1>2, <1>3 DEF Saved, At
<1> QED BY <1>2, <1>3, <1>4, <1>5, KeptStep

LEMMA KeptWrites ==
  ASSUME KeptInv, LocalInv', NEW p \in Procs, Writes(p)
  PROVE  KeptInv'
<1>1. Types /\ Local(p) /\ FileOK(active) /\ LocalInv
  BY LocalFacts DEF KeptInv
<1>2. /\ UNCHANGED <<archives, quarantine, acked>> /\ lock = p /\ Len(active) < MaxLines
      /\ proc[p].rec \in Records
  BY <1>1, Room DEF Writes, At, Local, In, Locked
<1>3. Disturbs(p) /\ proc'[p].pc = "rest"
  BY <1>1, WritesStep
<1>4. PICK text \in {Part, Whole(proc[p].rec, FALSE)} : active' = Joined(active, text)
  BY <1>1, WritesStep
<1>5. Writing(active, proc[p].rec, text, active', Completed(active', proc[p].rec))
  BY <1>1, <1>2, <1>4 DEF Writing
<1>6. \A i \in DOMAIN active : i \in DOMAIN active' /\ active[i].of \subseteq active'[i].of
  BY <1>5, WriteKeeps
<1>7. NothingForgotten'
  BY <1>2, <1>6 DEF KeptInv, NothingForgotten
<1>8. Saved(p)'
  BY <1>3 DEF Saved, At
<1> QED BY <1>2, <1>3, <1>7, <1>8, KeptStep

LEMMA KeptCompletes ==
  ASSUME KeptInv, LocalInv', NEW p \in Procs, Completes(p)
  PROVE  KeptInv'
<1>1. Types /\ Local(p) /\ FileOK(active) /\ proc[p] \in Proc
  BY LocalFacts DEF KeptInv
<1>2. /\ UNCHANGED <<archives, quarantine>> /\ acked' = acked \cup {proc[p].rec}
      /\ lock = p /\ proc[p].rec \in Records /\ active # <<>>
      /\ Last(active).kind = "whole" => Last(active).of = {proc[p].rec}
  BY <1>1 DEF Completes, At, Local, In, Locked
<1>3. Disturbs(p) /\ Ends(p) /\ active' = Completed(active, proc[p].rec)
  BY <1>1, CompletesStep DEF Done
<1>4. /\ \A i \in DOMAIN active : i \in DOMAIN active' /\ active[i].of \subseteq active'[i].of
      /\ Len(active) \in DOMAIN active' /\ proc[p].rec \in active'[Len(active)].of
  BY <1>1, <1>2, <1>3, CompletedKeeps
<1>5. NothingForgotten'
  <2>1. \E i \in DOMAIN active' : proc[p].rec \in active'[i].of
    BY <1>4
  <2> QED BY <1>2, <1>4, <2>1 DEF KeptInv, NothingForgotten
<1>6. Saved(p)'
  BY <1>1, <1>3 DEF Saved, At, Ends, Proc
<1> QED BY <1>2, <1>3, <1>5, <1>6, KeptStep

\* A record whose append has returned never leaves the disk.  What the rewriting drops was
\* saved under the same lock, so that no other process can have changed the ledger since.
THEOREM NothingIsForgotten == Spec => []NothingForgotten
<1>1. Init => KeptInv
  <2> SUFFICES ASSUME Init PROVE KeptInv
    OBVIOUS
  <2>1. \A p \in Procs : proc[p] = Idle
    BY DEF Init
  <2>2. (\A p \in Procs : Saved(p)) /\ NothingForgotten
    BY <2>1, IdleIs DEF Saved, At, NothingForgotten, Init
  <2> QED BY <2>2, LocalInitially DEF KeptInv
<1>2. KeptInv /\ [Next]_vars => KeptInv'
  <2> SUFFICES ASSUME KeptInv, [Next]_vars PROVE KeptInv'
    OBVIOUS
  <2>1. LocalInv'
    BY LocalInvariance DEF KeptInv
  <2>2. CASE UNCHANGED vars
    BY <2>1, <2>2 DEF vars, files, KeptInv, Saved, At, NothingForgotten, Valid
  <2>3. ASSUME NEW p \in Procs,
               \/ Syncs(p) \/ Recovers(p) \/ MendsArchives(p) \/ Mends(p) \/ Rewrites(p)
               \/ Lists(p) \/ Reads(p) \/ Projects(p) \/ RecordsAttempt(p) \/ RecordsNote(p)
               \/ Appends(p) \/ Rotates(p) \/ Writes(p) \/ Completes(p)
               \/ Fails(p) \/ Crashes(p) \/ Leaves(p)
        PROVE  KeptInv'
    BY <2>1, <2>3, KeptMoves, KeptMendsArchives, KeptMends, KeptRewrites, KeptRotates,
       KeptWrites, KeptCompletes
  <2> QED BY <2>2, <2>3 DEF Next
<1>3. KeptInv => NothingForgotten
  BY DEF KeptInv
<1> QED BY <1>1, <1>2, <1>3, PTL DEF Spec

-----------------------------------------------------------------------------
(* What an index says, and what nobody disturbs.                            *)

LEMMA EmptyLedger ==
  /\ Valid(<<>>) = {} /\ Attempts(<<>>) = {} /\ ~Corrupt(<<>>) /\ AllEnded(<<>>)
BY DEF Valid, Attempts, Corrupt, AllEnded

LEMMA SameLedger ==
  ASSUME UNCHANGED archives
  PROVE  /\ BadArchives' = BadArchives /\ Good' = Good /\ GoodArchived' = GoodArchived
         /\ Archived' = Archived
BY DEF BadArchives, Good, GoodArchived, Archived

LEMMA CleanArchives == BadArchives = {} => Good = archives /\ GoodArchived = Archived
BY DEF BadArchives, Good, GoodArchived, Archived

LEMMA IndexFacts ==
  ASSUME IndexInv, NEW p \in Procs
  PROVE  /\ LocalInv /\ Types /\ Local(p) /\ FileOK(active) /\ proc[p] \in Proc
         /\ Indexed(p) /\ Undisturbed(p)
BY LocalFacts DEF IndexInv

\* What nobody changes is as it was; of what is changed the others have no index any more.
LEMMA IndexFrame ==
  ASSUME IndexInv, NEW p \in Procs, NEW q \in Procs \ {p},
         \/ /\ UNCHANGED <<active, archives>> /\ cache'[q] \in {cache[q], None}
            /\ Disturbs(p) \/ (Alone(p) /\ proc'[p].pc # "rest" /\ rows' = rows)
         \/ Disturbs(p) /\ lock = p /\ cache'[q] = None
  PROVE  Indexed(q)' /\ Undisturbed(q)'
<1>1. Indexed(q) /\ Undisturbed(q) /\ Local(q)
  BY IndexFacts
<1>2. CASE Disturbs(p)
  <2>1. Disturbed(q)
    BY <1>2 DEF Disturbs
  <2>2. Undisturbed(q)'
    BY <2>1 DEF Undisturbed, Disturbed
  <2>3. CASE UNCHANGED <<active, archives>> /\ cache'[q] \in {cache[q], None}
    <3>1. cache'[q] # None => Covers(active, cache[q])'
      BY <1>1, <2>3, SameLedger DEF Indexed, Covers, Clean
    <3>2. At(q, "write")' => Covers(active, proc[q].known)' /\ proc'[q].rec \notin proc'[q].known
      BY <1>1, <2>1, <2>3, SameLedger DEF Indexed, Disturbed, At, Covers, Clean
    <3>3. Done(q)' = Done(q)
      BY <2>1, <2>3 DEF Done, Disturbed
    <3>4. At(q, "rest")' =>
            /\ Attempts(Done(q)') \cap GoodArchived' = {}
            /\ Covers(Done(q), proc[q].known \cup ({proc[q].rec} \cap Ids))'
      BY <1>1, <2>1, <2>3, <3>3, SameLedger DEF Indexed, Disturbed, At, Covers, Clean
    <3> QED BY <2>1, <2>2, <3>1, <3>2, <3>4 DEF Indexed, Disturbed
  <2>4. CASE lock = p /\ cache'[q] = None
    <3>1. ~At(q, "write") /\ ~At(q, "rest")
      BY <1>1, <2>4 DEF Local, In, At, Locked
    <3>2. ~At(q, "write")' /\ ~At(q, "rest")'
      BY <2>1, <3>1 DEF Disturbed, At
    <3> QED BY <2>1, <2>2, <2>4, <3>2 DEF Indexed, Disturbed
  <2> QED BY <1>2, <2>2, <2>3, <2>4
<1>3. CASE ~Disturbs(p)
  <2>1. /\ UNCHANGED <<active, archives>> /\ cache'[q] \in {cache[q], None}
        /\ Alone(p) /\ proc'[p].pc # "rest" /\ rows' = rows
    BY <1>3
  <2>2. proc'[q] = proc[q] /\ \A o \in Procs \ {q} : At(o, "rest")' => At(o, "rest")
    BY <2>1 DEF Alone, At
  <2>3. Rows' = Rows
    BY <2>1 DEF Rows
  <2>4. Indexed(q)'
    BY <1>1, <2>1, <2>2, SameLedger DEF Indexed, At, Covers, Clean, Done
  <2>5. Undisturbed(q)'
    BY <1>1, <2>1, <2>2, <2>3, SameLedger DEF Undisturbed, In, At, Clean, Done
  <2> QED BY <2>4, <2>5
<1> QED BY <1>2, <1>3

LEMMA IndexStep ==
  ASSUME IndexInv, LocalInv', NEW p \in Procs,
         UNCHANGED <<active, archives>>, \A q \in Procs \ {p} : cache'[q] \in {cache[q], None},
         Disturbs(p) \/ (Alone(p) /\ proc'[p].pc # "rest" /\ rows' = rows),
         Indexed(p)', Undisturbed(p)'
  PROVE  IndexInv'
<1>1. \A q \in Procs : Indexed(q)' /\ Undisturbed(q)'
  BY IndexFrame
<1> QED BY <1>1, SameLedger DEF IndexInv

LEMMA IndexChange ==
  ASSUME IndexInv, LocalInv', NEW p \in Procs,
         Disturbs(p), lock = p, \A q \in Procs \ {p} : cache'[q] = None,
         Attempts(active') \cap GoodArchived' = {},
         \A a, b \in Good' : a # b => Attempts(a) \cap Attempts(b) = {},
         Indexed(p)', Undisturbed(p)'
  PROVE  IndexInv'
<1>1. \A q \in Procs : Indexed(q)' /\ Undisturbed(q)'
  BY IndexFrame
<1> QED BY <1>1 DEF IndexInv

\* Nobody is in the middle of a write while the lock is free.
LEMMA NobodyRests ==
  ASSUME IndexInv, lock = None, NEW q \in Procs
  PROVE  ~At(q, "rest")
<1>1. Local(q) /\ q # None
  BY IndexFacts, UsageAssumption
<1> QED BY <1>1 DEF Local, In, At, Locked

\* A step of p from a state in which the others do not rest, to one that is not calm, or
\* in which p only looks for the lock.
LEMMA IndexLooks ==
  ASSUME IndexInv, LocalInv', NEW p \in Procs, UNCHANGED <<active, archives, rows>>,
         Alone(p), cache'[p] \in {cache[p], None},
         \A q \in Procs \ {p} : cache'[q] \in {cache[q], None},
         \/ proc'[p].pc \in {"recover", "archives"} /\ (proc'[p].calm => proc[p].calm \/ lock = None)
         \/ proc'[p].pc \notin {"read", "write", "rest"} /\ ~proc'[p].calm
  PROVE  IndexInv'
<1>1. Indexed(p) /\ Undisturbed(p)
  BY IndexFacts
<1>2. Indexed(p)'
  BY <1>1, SameLedger DEF Indexed, At, Covers, Clean
<1>3. Undisturbed(p)'
  <2>1. CASE ~proc'[p].calm
    BY <2>1 DEF Undisturbed
  <2>2. CASE /\ proc'[p].pc \in {"recover", "archives"}
             /\ proc'[p].calm /\ (proc[p].calm \/ lock = None)
    <3>1. \A q \in Procs \ {p} : ~At(q, "rest")
      BY <1>1, <2>2, NobodyRests DEF Undisturbed
    <3>2. \A q \in Procs \ {p} : ~At(q, "rest")'
      BY <3>1 DEF Alone, At
    <3> QED BY <2>2, <3>2 DEF Undisturbed, In, At
  <2> QED BY <2>1, <2>2
<1> QED BY <1>2, <1>3, IndexStep

LEMMA IndexSyncs ==
  ASSUME IndexInv, LocalInv', NEW p \in Procs, Syncs(p)
  PROVE  IndexInv'
<1>1. Types /\ FileOK(active)
  BY IndexFacts
<1>2. UNCHANGED <<active, archives, rows, cache>>
  BY DEF Syncs, files
<1>3. /\ Alone(p) /\ proc'[p].rec = None /\ proc'[p].todo = {}
      /\ proc'[p].calm => lock = None
      /\ proc'[p].pc = "recover" \/ (proc'[p].pc = "list" /\ ~NeedsRecovery)
  BY <1>1, SyncsStep
<1>4. CASE proc'[p].pc = "recover" \/ ~proc'[p].calm
  BY <1>2, <1>3, <1>4, IndexLooks
<1>5. CASE proc'[p].pc = "list" /\ ~NeedsRecovery /\ proc'[p].calm
  <2>1. archives = {} /\ Canonical(active) = active
    BY <1>5 DEF NeedsRecovery
  <2>2. Clean(active) /\ AllEnded(active)
    BY <1>1, <2>1, CanonicalClean DEF Clean, BadArchives
  <2>3. \A q \in Procs \ {p} : ~At(q, "rest")'
    BY <1>3, <1>5, NobodyRests DEF Alone, At
  <2>4. Undisturbed(p)'
    BY <1>2, <1>5, <2>2, <2>3, SameLedger DEF Undisturbed, In, At, Clean
  <2>5. Indexed(p)'
    BY <1>2, <1>5, IndexFacts, SameLedger DEF Indexed, At, Covers, Clean
  <2> QED BY <1>2, <1>3, <1>5, <2>4, <2>5, IndexStep
<1> QED BY <1>3, <1>4, <1>5

LEMMA IndexRecovers ==
  ASSUME IndexInv, LocalInv', NEW p \in Procs, Recovers(p)
  PROVE  IndexInv'
<1>1. Types
  BY IndexFacts
<1>2. UNCHANGED <<active, archives, rows, cache>>
  BY DEF Recovers, files
<1>3. Alone(p) /\ SameData(p) /\ proc'[p].pc = "archives"
  BY <1>1, RecoversStep
<1> QED BY <1>2, <1>3, IndexLooks DEF SameData

LEMMA IndexMendsArchives ==
  ASSUME IndexInv, LocalInv', NEW p \in Procs, MendsArchives(p)
  PROVE  IndexInv'
<1>1. Types /\ Local(p) /\ Indexed(p) /\ Undisturbed(p)
  BY IndexFacts
<1>2. UNCHANGED rows /\ proc[p].pc = "archives" /\ lock = p /\ proc[p].rec = None
  BY <1>1 DEF MendsArchives, At, Local, In, Locked
<1>3. CASE /\ BadArchives = {} /\ Alone(p) /\ SameData(p) /\ proc'[p].pc = "mend"
           /\ UNCHANGED <<active, archives, quarantine, cache>>
  <2>1. Indexed(p)'
    BY <1>1, <1>3, SameLedger DEF Indexed, At, Covers, Clean
  <2>2. proc[p].calm => \A q \in Procs \ {p} : ~At(q, "rest")'
    BY <1>1, <1>3 DEF Undisturbed, At, Alone
  <2>3. Undisturbed(p)'
    BY <1>2, <1>3, <2>2, SameLedger DEF Undisturbed, In, At, SameData
  <2> QED BY <1>2, <1>3, <2>1, <2>3, IndexStep
<1>4. CASE /\ Disturbs(p) /\ proc'[p] = proc[p] /\ cache' = Forgotten /\ UNCHANGED active
           /\ \E a \in BadArchives : /\ archives' = archives \ {a}
                                     /\ quarantine' = quarantine \cup Range(a)
  <2>1. Good' = Good /\ GoodArchived' = GoodArchived
    BY <1>4 DEF Good, BadArchives, GoodArchived
  <2>2. Indexed(p)'
    BY <1>2, <1>4 DEF Indexed, At, Forgotten
  <2>3. proc[p].calm => \A q \in Procs \ {p} : ~At(q, "rest")'
    BY <1>1, <1>4 DEF Undisturbed, At, Disturbs, Disturbed
  <2>4. Undisturbed(p)'
    BY <1>2, <1>4, <2>3 DEF Undisturbed, In, At
  <2>5. /\ Attempts(active') \cap GoodArchived' = {}
        /\ \A a, b \in Good' : a # b => Attempts(a) \cap Attempts(b) = {}
    BY <1>4, <2>1 DEF IndexInv
  <2>6. \A q \in Procs \ {p} : cache'[q] = None
    BY <1>4 DEF Forgotten
  <2> QED BY <1>2, <1>4, <2>2, <2>4, <2>5, <2>6, IndexChange
<1> QED BY <1>1, <1>3, <1>4, MendsArchivesStep

LEMMA IndexMends ==
  ASSUME IndexInv, LocalInv', NEW p \in Procs, Mends(p)
  PROVE  IndexInv'
<1>1. Types /\ Local(p) /\ Indexed(p) /\ Undisturbed(p)
  BY IndexFacts
<1>2. UNCHANGED <<rows, active, archives>> /\ proc[p].pc = "mend"
  BY DEF Mends, At
<1>3. /\ SameData(p) /\ proc'[p].pc = "rewrite"
      /\ Alone(p) \/ Disturbs(p)
      /\ cache' = Forgotten \/ UNCHANGED cache
  BY <1>1, MendsStep
<1>4. \A q \in Procs : cache'[q] \in {cache[q], None}
  BY <1>3 DEF Forgotten
<1>5. Indexed(p)'
  BY <1>1, <1>2, <1>3, <1>4, SameLedger DEF Indexed, At, Covers, Clean
<1>6. proc[p].calm => \A q \in Procs \ {p} : ~At(q, "rest")'
  BY <1>1, <1>3 DEF Undisturbed, At, Alone, Disturbs, Disturbed
<1>7. Undisturbed(p)'
  BY <1>1, <1>2, <1>3, <1>6, SameLedger DEF Undisturbed, In, At, SameData
<1> QED BY <1>2, <1>3, <1>4, <1>5, <1>7, IndexStep

\* The rewriting keeps the attempts.
LEMMA IndexRewrites ==
  ASSUME IndexInv, LocalInv', NEW p \in Procs, Rewrites(p)
  PROVE  IndexInv'
<1>1. Types /\ Local(p) /\ Indexed(p) /\ Undisturbed(p) /\ FileOK(active)
  BY IndexFacts
<1>2. /\ UNCHANGED <<rows, archives>> /\ proc[p].pc = "rewrite"
      /\ active' = Canonical(active) /\ lock = p
  BY <1>1 DEF Rewrites, At, Local, In, Locked
<1>3. /\ SameData(p) /\ cache'[p] = None
      /\ proc[p].rec = None => proc'[p].pc = "list"
      /\ proc[p].rec # None => proc'[p].pc = "append"
      /\ active' # active => Disturbs(p) /\ cache' = Forgotten
      /\ active' = active => Alone(p) /\ cache' = [cache EXCEPT ![p] = None]
  BY <1>1, RewritesStep
<1>4. /\ Attempts(active') = Attempts(active) /\ ~Corrupt(active') /\ AllEnded(active')
  BY <1>1, <1>2, CanonicalClean
<1>5. Indexed(p)'
  BY <1>3 DEF Indexed, At
<1>6. Alone(p) \/ Disturbs(p)
  BY <1>3
<1>7. proc[p].calm => \A q \in Procs \ {p} : ~At(q, "rest")'
  BY <1>1, <1>6 DEF Undisturbed, At, Alone, Disturbs, Disturbed
<1>8. proc[p].calm => BadArchives' = {} /\ proc[p].rec = None
  BY <1>1, <1>2, SameLedger DEF Undisturbed, In
<1>9. Undisturbed(p)'
  BY <1>3, <1>4, <1>7, <1>8 DEF Undisturbed, In, At, SameData, Clean
<1>10. CASE active' # active
  <2>1. /\ Attempts(active') \cap GoodArchived' = {}
        /\ \A a, b \in Good' : a # b => Attempts(a) \cap Attempts(b) = {}
    BY <1>2, <1>4, SameLedger DEF IndexInv
  <2>2. \A q \in Procs \ {p} : cache'[q] = None
    BY <1>3, <1>10 DEF Forgotten
  <2> QED BY <1>2, <1>3, <1>5, <1>9, <1>10, <2>1, <2>2, IndexChange
<1>11. CASE active' = active
  <2>1. \A q \in Procs \ {p} : cache'[q] \in {cache[q], None}
    BY <1>1, <1>3, <1>11 DEF Types
  <2> QED BY <1>2, <1>3, <1>5, <1>9, <1>11, <2>1, IndexStep
<1> QED BY <1>10, <1>11

\* An index for a ledger without a malformed line says exactly what is in it.
LEMMA ExactIndex ==
  ASSUME Clean(active), NEW S, Covers(active, S)
  PROVE  S = Archived \cup Attempts(active)
BY DEF Covers

\* A process that knows S has found the rows that are missing.
LEMMA IndexMisses ==
  ASSUME IndexInv, LocalInv', NEW p \in Procs, NEW S, Misses(p, S),
         UNCHANGED <<active, archives, rows>>,
         \A q \in Procs \ {p} : cache'[q] = cache[q],
         cache'[p] # None => Covers(active, cache'[p]),
         proc[p].calm => Clean(active) /\ AllEnded(active) /\ S = Archived \cup Attempts(active)
  PROVE  IndexInv'
<1>1. /\ Alone(p) /\ proc'[p].pc = "ready" /\ proc'[p].todo = Rows \ S
      /\ proc'[p].calm = proc[p].calm
  BY DEF Misses
<1>2. Indexed(p)'
  BY <1>1, SameLedger DEF Indexed, At, Covers, Clean
<1>3. proc[p].calm => \A q \in Procs \ {p} : ~At(q, "rest")'
  BY <1>1, IndexFacts DEF Undisturbed, At, Alone
<1>4. Rows' = Rows
  BY DEF Rows
<1>5. Undisturbed(p)'
  BY <1>1, <1>3, <1>4, SameLedger DEF Undisturbed, In, At, Clean
<1> QED BY <1>1, <1>2, <1>5, IndexStep

LEMMA IndexLists ==
  ASSUME IndexInv, LocalInv', NEW p \in Procs, Lists(p)
  PROVE  IndexInv'
<1>1. Types /\ Local(p) /\ Indexed(p) /\ Undisturbed(p)
  BY IndexFacts
<1>2. UNCHANGED <<active, archives, rows, cache>> /\ proc[p].pc = "list"
  BY DEF Lists, files, At
<1>3. proc[p].calm => Clean(active) /\ AllEnded(active)
  BY <1>1, <1>2 DEF Undisturbed, In
<1>4. cache[p] # None => Covers(active, cache[p])
  BY <1>1 DEF Indexed
<1>5. CASE cache[p] # None /\ Misses(p, cache[p])
  <2>1. PICK S : S = cache[p]
    OBVIOUS
  <2>2. proc[p].calm => S = Archived \cup Attempts(active)
    BY <1>3, <1>4, <1>5, <2>1, ExactIndex
  <2> QED BY <1>2, <1>3, <1>4, <1>5, <2>1, <2>2, IndexMisses
<1>6. CASE cache[p] = None /\ BadArchives # {} /\ Misses(p, {})
  <2>1. ~proc[p].calm
    BY <1>3, <1>6 DEF Clean
  <2> QED BY <1>2, <1>6, <2>1, IndexMisses
<1>7. CASE /\ BadArchives = {}
           /\ Alone(p) /\ proc'[p].pc = "read" /\ proc'[p].sig
           /\ (proc'[p].saw <=> active # <<>>)
           /\ proc'[p].known = Archived /\ proc'[p].calm = proc[p].calm
  <2>1. Indexed(p)'
    BY <1>1, <1>2, <1>7, SameLedger DEF Indexed, At, Covers, Clean
  <2>2. proc[p].calm => \A q \in Procs \ {p} : ~At(q, "rest")'
    BY <1>1, <1>7 DEF Undisturbed, At, Alone
  <2>3. Undisturbed(p)'
    BY <1>2, <1>3, <1>7, <2>2, SameLedger DEF Undisturbed, In, At, Clean
  <2> QED BY <1>2, <1>7, <2>1, <2>3, IndexStep
<1> QED BY <1>1, <1>5, <1>6, <1>7, ListsStep

\* The signature that still holds: nothing was changed between the archives and the ledger.
LEMMA IndexReads ==
  ASSUME IndexInv, LocalInv', NEW p \in Procs, Reads(p)
  PROVE  IndexInv'
<1>1. Types /\ Local(p) /\ Indexed(p) /\ Undisturbed(p)
  BY IndexFacts
<1>2. UNCHANGED <<active, archives, rows>> /\ proc[p].pc = "read"
  BY DEF Reads, files, At
<1>3. proc[p].calm => Clean(active) /\ AllEnded(active) /\ proc[p].sig
  BY <1>1, <1>2 DEF Undisturbed, In, At
<1>4. proc[p].sig =>
        BadArchives = {} /\ proc[p].known = Archived /\ (proc[p].saw <=> active # <<>>)
  BY <1>1, <1>2 DEF Indexed, At
<1>5. CASE proc[p].saw /\ active = <<>> /\ Misses(p, {}) /\ UNCHANGED cache
  <2>1. ~proc[p].calm
    BY <1>3, <1>4, <1>5
  <2>2. cache'[p] # None => Covers(active, cache'[p])
    BY <1>1, <1>5 DEF Indexed
  <2> QED BY <1>2, <1>5, <2>1, <2>2, IndexMisses
<1>6. CASE /\ ReadIndex(p) \in SUBSET Ids /\ Misses(p, ReadIndex(p))
           /\ cache' = [cache EXCEPT ![p] = IF proc[p].sig THEN ReadIndex(p) ELSE None]
  <2>1. PICK S : S = ReadIndex(p)
    OBVIOUS
  <2>2. ASSUME proc[p].sig PROVE Covers(active, S)
    <3>1. BadArchives = {} /\ proc[p].known = Archived /\ (proc[p].saw <=> active # <<>>)
      BY <1>4, <2>2
    <3>2. GoodArchived = Archived
      BY <3>1, CleanArchives
    <3>3. CASE Corrupt(active)
      BY <2>1, <3>1, <3>2, <3>3 DEF ReadIndex, Covers, Clean
    <3>4. CASE ~Corrupt(active)
      <4>1. S = Archived \cup Attempts(active)
        BY <2>1, <3>1, <3>4, EmptyLedger DEF ReadIndex
      <4> QED BY <3>2, <4>1 DEF Covers
    <3> QED BY <3>3, <3>4
  <2>3. proc[p].calm => S = Archived \cup Attempts(active)
    BY <1>3, <2>2, ExactIndex
  <2>4. cache'[p] # None => Covers(active, cache'[p])
    BY <1>1, <1>6, <2>1, <2>2 DEF Types
  <2>5. \A q \in Procs \ {p} : cache'[q] = cache[q]
    BY <1>1, <1>6 DEF Types
  <2> QED BY <1>2, <1>3, <1>6, <2>1, <2>3, <2>4, <2>5, IndexMisses
<1> QED BY <1>1, <1>5, <1>6, ReadsStep

\* None of the rows is None.
LEMMA RowsAre ==
  ASSUME LocalInv
  PROVE  None \notin Rows /\ Rows \subseteq Ids /\ (rows' = rows + 1 => Rows' = Rows \cup {rows'})
<1>1. rows \in 0 .. MaxRows /\ MaxRows \in Nat
  BY UsageAssumption DEF LocalInv, UsageTypeOK
<1>2. Rows \subseteq Ids /\ None \notin Ids
  BY <1>1, UsageAssumption DEF Rows, Ids
<1> QED BY <1>1, <1>2 DEF Rows

LEMMA IndexProjects ==
  ASSUME IndexInv, LocalInv', NEW p \in Procs, Projects(p) \/ RecordsAttempt(p)
  PROVE  IndexInv'
<1>1. Types /\ Local(p) /\ Indexed(p) /\ Undisturbed(p) /\ LocalInv
  BY IndexFacts
<1>2. /\ UNCHANGED <<active, archives, cache>> /\ proc[p].pc = "ready"
      /\ proc[p].rec = None
  BY <1>1 DEF Projects, RecordsAttempt, files, At, Local, In
<1>3. /\ Disturbs(p) \/ (Alone(p) /\ rows' = rows)
      /\ proc'[p].pc = "append" /\ proc'[p].calm = proc[p].calm
      /\ Rows' \ (proc'[p].todo \cup {proc'[p].rec}) \subseteq
           Rows \ (proc[p].todo \cup {proc[p].rec})
  <2>1. CASE Projects(p)
    <3>1. UNCHANGED rows
      BY <2>1 DEF Projects
    <3>2. /\ Alone(p) /\ proc'[p].pc = "append" /\ proc'[p].todo = proc[p].todo
          /\ proc'[p].calm = proc[p].calm
      BY <1>1, <2>1, ProjectsStep
    <3> QED BY <1>1, <1>2, <3>1, <3>2, RowsAre DEF Rows
  <2>2. CASE RecordsAttempt(p)
    <3>1. /\ Disturbs(p) /\ proc'[p].pc = "append" /\ proc'[p].todo = proc[p].todo
          /\ proc'[p].rec = rows + 1 /\ rows' = rows + 1 /\ proc'[p].calm = proc[p].calm
      BY <1>1, <2>2, RecordsAttemptStep
    <3>2. Rows' = Rows \cup {proc'[p].rec}
      BY <1>1, <3>1, RowsAre
    <3> QED BY <1>1, <1>2, <3>1, <3>2, RowsAre
  <2> QED BY <2>1, <2>2
<1>4. Indexed(p)'
  BY <1>1, <1>2, <1>3, SameLedger DEF Indexed, At, Covers, Clean
<1>5. proc[p].calm => \A q \in Procs \ {p} : ~At(q, "rest")'
  BY <1>1, <1>3 DEF Undisturbed, At, Alone, Disturbs, Disturbed
<1>6. proc[p].calm =>
        /\ Clean(active) /\ AllEnded(active)
        /\ Rows \ (proc[p].todo \cup {proc[p].rec}) \subseteq Archived \cup Attempts(active)
  BY <1>1, <1>2 DEF Undisturbed, In
<1>7. Undisturbed(p)'
  BY <1>2, <1>3, <1>5, <1>6, SameLedger DEF Undisturbed, In, At, Clean
<1> QED BY <1>2, <1>3, <1>4, <1>7, IndexStep

LEMMA IndexRecordsNote ==
  ASSUME IndexInv, LocalInv', NEW p \in Procs, RecordsNote(p)
  PROVE  IndexInv'
<1>1. Types /\ Local(p)
  BY IndexFacts
<1>2. UNCHANGED <<active, archives, rows, cache>> /\ ~proc[p].calm
  BY <1>1 DEF RecordsNote, files, At, Local
<1>3. Alone(p) /\ proc'[p].pc = "append" /\ proc'[p].calm = proc[p].calm
  BY <1>1, RecordsNoteStep
<1> QED BY <1>2, <1>3, IndexLooks

\* A step that ends an append and leaves the files alone.
LEMMA IndexEnded ==
  ASSUME IndexInv, LocalInv', NEW p \in Procs, Alone(p), Ends(p),
         UNCHANGED <<active, archives, rows>>,
         \A q \in Procs \ {p} : cache'[q] = cache[q],
         cache'[p] # None => Covers(active, cache'[p]),
         proc'[p].calm => /\ Clean(active) /\ AllEnded(active)
                          /\ Rows \ proc'[p].todo \subseteq Archived \cup Attempts(active)
  PROVE  IndexInv'
<1>1. Types /\ Local(p) /\ Indexed(p) /\ Undisturbed(p) /\ proc[p] \in Proc
  BY IndexFacts
<1>2. /\ proc'[p].pc \in {"idle", "ready"} /\ (proc'[p].calm => proc[p].calm)
  BY <1>1 DEF Ends, Proc
<1>3. Indexed(p)'
  BY <1>2, SameLedger DEF Indexed, At, Covers, Clean
<1>4. proc[p].calm => \A q \in Procs \ {p} : ~At(q, "rest")'
  BY <1>1 DEF Undisturbed, At, Alone
<1>5. Rows' = Rows
  BY DEF Rows
<1>6. Undisturbed(p)'
  BY <1>2, <1>4, <1>5, SameLedger DEF Undisturbed, In, At, Clean
<1> QED BY <1>2, <1>3, <1>6, IndexStep

LEMMA IndexAppends ==
  ASSUME IndexInv, LocalInv', NEW p \in Procs, Appends(p)
  PROVE  IndexInv'
<1>1. Types /\ Local(p) /\ Indexed(p) /\ Undisturbed(p) /\ LocalInv
  BY IndexFacts
<1>2. UNCHANGED <<active, archives, rows>> /\ proc[p].pc = "append"
  BY DEF Appends, files, At
<1>3. proc[p].calm =>
        /\ Clean(active) /\ AllEnded(active)
        /\ Rows \ (proc[p].todo \cup {proc[p].rec}) \subseteq Archived \cup Attempts(active)
  BY <1>1, <1>2 DEF Undisturbed, In
<1>4. cache[p] # None => Covers(active, cache[p])
  BY <1>1 DEF Indexed
<1>5. PICK S : S = Logged(p)
  OBVIOUS
<1>6. ASSUME cache[p] # None \/ (BadArchives = {} /\ ~Corrupt(active))
      PROVE  Covers(active, S)
  <2>1. CASE cache[p] # None
    BY <1>4, <1>5, <2>1 DEF Logged
  <2>2. CASE cache[p] = None
    <3>1. S = Archived \cup Attempts(active) /\ GoodArchived = Archived
      BY <1>5, <1>6, <2>2, CleanArchives DEF Logged
    <3> QED BY <3>1 DEF Covers
  <2> QED BY <2>1, <2>2
<1>7. ASSUME Alone(p), cache' = [cache EXCEPT ![p] = S], Covers(active, S)
      PROVE  /\ \A q \in Procs \ {p} : cache'[q] = cache[q]
             /\ cache'[p] = S
  BY <1>1, <1>7 DEF Types
<1>8. CASE Alone(p) /\ Ends(p) /\ BadArchives # {} /\ UNCHANGED cache
  <2>1. ~proc'[p].calm
    BY <1>3, <1>8 DEF Ends, Clean
  <2> QED BY <1>2, <1>4, <1>8, <2>1, IndexEnded
<1>9. CASE /\ Alone(p) /\ Ends(p) /\ cache' = [cache EXCEPT ![p] = S] /\ proc[p].rec \in S
           /\ Covers(active, S)
  <2>1. proc'[p].calm => Rows \ proc'[p].todo \subseteq Archived \cup Attempts(active)
    <3>1. SUFFICES ASSUME proc'[p].calm
                   PROVE  Rows \ proc'[p].todo \subseteq Archived \cup Attempts(active)
      OBVIOUS
    <3>2. /\ Clean(active) /\ proc'[p].todo = proc[p].todo \ {proc[p].rec}
          /\ Rows \ (proc[p].todo \cup {proc[p].rec}) \subseteq Archived \cup Attempts(active)
      BY <1>3, <1>9, <3>1 DEF Ends
    <3>3. proc[p].rec \in Archived \cup Attempts(active)
      BY <1>9, <3>2, ExactIndex
    <3> QED BY <3>2, <3>3
  <2>2. proc'[p].calm => Clean(active) /\ AllEnded(active)
    BY <1>3, <1>9 DEF Ends
  <2> QED BY <1>2, <1>7, <1>9, <2>1, <2>2, IndexEnded
<1>10. CASE /\ BadArchives = {} /\ Corrupt(active) /\ UNCHANGED cache
            /\ Alone(p) /\ SameData(p) /\ proc'[p].pc = "mend"
  <2>1. ~proc'[p].calm
    BY <1>3, <1>10 DEF Clean, SameData
  <2> QED BY <1>2, <1>10, <2>1, IndexLooks
<1>11. CASE /\ cache' = [cache EXCEPT ![p] = S] /\ proc[p].rec \notin S
            /\ Alone(p) /\ proc'[p].pc = "write" /\ Covers(active, S)
            /\ proc'[p].known = S /\ proc'[p].rec = proc[p].rec
            /\ proc'[p].todo = proc[p].todo /\ proc'[p].calm = proc[p].calm
  <2>1. \A q \in Procs \ {p} : cache'[q] \in {cache[q], None}
    BY <1>7, <1>11
  <2>2. Indexed(p)'
    BY <1>2, <1>7, <1>11, SameLedger DEF Indexed, At, Covers, Clean
  <2>3. proc[p].calm => \A q \in Procs \ {p} : ~At(q, "rest")'
    BY <1>1, <1>11 DEF Undisturbed, At, Alone
  <2>4. Rows' = Rows
    BY <1>2 DEF Rows
  <2>5. Undisturbed(p)'
    BY <1>2, <1>3, <1>11, <2>3, <2>4, SameLedger DEF Undisturbed, In, At, Clean
  <2> QED BY <1>2, <1>11, <2>1, <2>2, <2>5, IndexStep
<1> QED BY <1>1, <1>5, <1>6, <1>8, <1>9, <1>10, <1>11, AppendsStep

LEMMA IndexFails ==
  ASSUME IndexInv, LocalInv', NEW p \in Procs, Fails(p)
  PROVE  IndexInv'
<1>1. Types /\ Indexed(p)
  BY IndexFacts
<1>2. UNCHANGED <<active, archives, rows, cache>>
  BY DEF Fails, files
<1>3. Alone(p) /\ Ends(p) /\ ~proc'[p].calm
  BY <1>1, FailsStep
<1>4. cache'[p] # None => Covers(active, cache'[p])
  BY <1>1, <1>2 DEF Indexed
<1> QED BY <1>2, <1>3, <1>4, IndexEnded

LEMMA IndexLeaves ==
  ASSUME IndexInv, LocalInv', NEW p \in Procs, Crashes(p) \/ Leaves(p)
  PROVE  IndexInv'
<1>1. Types
  BY IndexFacts
<1>2. UNCHANGED <<active, archives, rows>>
  BY DEF Crashes, Leaves, files
<1>3. Alone(p) /\ proc'[p] = Idle /\ cache' = [cache EXCEPT ![p] = None]
  BY <1>1, EndsStep
<1>4. \A q \in Procs : cache'[q] \in {cache[q], None}
  BY <1>1, <1>3 DEF Types
<1> QED BY <1>2, <1>3, <1>4, IdleIs, IndexLooks

\* A ledger that is rotated takes its attempts along.
LEMMA RotatedArchives ==
  ASSUME archives' = archives \cup {active}
  PROVE  /\ Archived' = Archived \cup Attempts(active)
         /\ Corrupt(active) => Good' = Good /\ GoodArchived' = GoodArchived /\ BadArchives' # {}
         /\ ~Corrupt(active) => /\ Good' = Good \cup {active}
                                /\ GoodArchived' = GoodArchived \cup Attempts(active)
                                /\ BadArchives' = BadArchives
<1>1. Archived' = Archived \cup Attempts(active)
  BY DEF Archived
<1>2. ASSUME Corrupt(active)
      PROVE  Good' = Good /\ GoodArchived' = GoodArchived /\ BadArchives' # {}
  <2>1. Good' = Good /\ active \in BadArchives'
    BY <1>2 DEF Good, BadArchives
  <2> QED BY <2>1 DEF GoodArchived
<1>3. ASSUME ~Corrupt(active)
      PROVE  /\ Good' = Good \cup {active} /\ BadArchives' = BadArchives
             /\ GoodArchived' = GoodArchived \cup Attempts(active)
  <2>1. Good' = Good \cup {active} /\ BadArchives' = BadArchives
    BY <1>3 DEF Good, BadArchives
  <2> QED BY <2>1 DEF GoodArchived
<1> QED BY <1>1, <1>2, <1>3

LEMMA IndexRotates ==
  ASSUME IndexInv, LocalInv', NEW p \in Procs, Rotates(p)
  PROVE  IndexInv'
<1>1. Types /\ Local(p) /\ Indexed(p) /\ Undisturbed(p)
  BY IndexFacts
<1>2. /\ UNCHANGED rows /\ proc[p].pc = "write" /\ lock = p
      /\ archives' = archives \cup {active} /\ active' = <<>> /\ cache' = Forgotten
  BY <1>1 DEF Rotates, At, Local, In, Locked
<1>3. Disturbs(p) /\ proc'[p] = proc[p]
  BY <1>1, RotatesStep
<1>4. /\ Attempts(active') \cap GoodArchived' = {}
      /\ \A a, b \in Good' : a # b => Attempts(a) \cap Attempts(b) = {}
  <2>1. Attempts(active') \cap GoodArchived' = {}
    BY <1>2, EmptyLedger
  <2>2. CASE Corrupt(active)
    BY <1>2, <2>1, <2>2, RotatedArchives DEF IndexInv
  <2>3. CASE ~Corrupt(active)
    <3>1. \A a \in Good : Attempts(a) \cap Attempts(active) = {}
      BY DEF IndexInv, GoodArchived
    <3> QED BY <1>2, <2>1, <2>3, <3>1, RotatedArchives DEF IndexInv
  <2> QED BY <2>2, <2>3
<1>5. Covers(active, proc[p].known) /\ proc[p].rec \notin proc[p].known
  BY <1>1, <1>2 DEF Indexed, At
<1>6. /\ GoodArchived' \subseteq proc[p].known
      /\ BadArchives' = {} => proc[p].known = Archived'
  <2>1. CASE Corrupt(active)
    BY <1>2, <1>5, <2>1, RotatedArchives DEF Covers
  <2>2. CASE ~Corrupt(active)
    BY <1>2, <1>5, <2>2, RotatedArchives DEF Covers, Clean
  <2> QED BY <2>1, <2>2
<1>7. Indexed(p)'
  BY <1>2, <1>3, <1>5, <1>6, EmptyLedger DEF Indexed, At, Covers, Clean, Forgotten
<1>8. proc[p].calm => \A q \in Procs \ {p} : ~At(q, "rest")'
  BY <1>1, <1>3 DEF Undisturbed, At, Disturbs, Disturbed
<1>9. proc[p].calm =>
        /\ BadArchives' = {}
        /\ Rows \ (proc[p].todo \cup {proc[p].rec}) \subseteq Archived'
  BY <1>1, <1>2, RotatedArchives DEF Undisturbed, In, Clean
<1>10. Rows' = Rows
  BY <1>2 DEF Rows
<1>11. Undisturbed(p)'
  BY <1>2, <1>3, <1>8, <1>9, <1>10, EmptyLedger DEF Undisturbed, In, At, Clean
<1>12. \A q \in Procs \ {p} : cache'[q] = None
  BY <1>2 DEF Forgotten
<1> QED BY <1>2, <1>3, <1>4, <1>7, <1>11, <1>12, IndexChange

\* A record that is written is one the index does not have.
LEMMA IndexWrites ==
  ASSUME IndexInv, LocalInv', NEW p \in Procs, Writes(p)
  PROVE  IndexInv'
<1>1. Types /\ Local(p) /\ Indexed(p) /\ Undisturbed(p) /\ FileOK(active) /\ LocalInv
  BY IndexFacts
<1>2. /\ UNCHANGED <<rows, archives>> /\ proc[p].pc = "write" /\ lock = p
      /\ cache' = Forgotten /\ Len(active) < MaxLines /\ proc[p].rec \in Records
  BY <1>1, Room DEF Writes, At, Local, In, Locked
<1>3. Disturbs(p) /\ SameData(p) /\ proc'[p].pc = "rest"
  BY <1>1, WritesStep
<1>4. PICK text \in {Part, Whole(proc[p].rec, FALSE)} : active' = Joined(active, text)
  BY <1>1, WritesStep
<1>5. PICK r, k, d : r = proc[p].rec /\ k = proc[p].known /\ d = Completed(active', r)
  OBVIOUS
<1>6. Writing(active, r, text, active', d)
  BY <1>1, <1>2, <1>4, <1>5 DEF Writing
<1>7. /\ Attempts(active') \subseteq Attempts(active) \cup ({r} \cap Ids)
      /\ Attempts(d) \subseteq Attempts(active) \cup ({r} \cap Ids)
      /\ ~Corrupt(d) => ~Corrupt(active) /\ Attempts(d) = Attempts(active) \cup ({r} \cap Ids)
      /\ ~Corrupt(active) /\ AllEnded(active) /\ r \notin Attempts(active) =>
           ~Corrupt(d) /\ AllEnded(d)
  BY <1>6, WriteKeeps
<1>8. Covers(active, k) /\ r \notin k /\ Attempts(active) \cap GoodArchived = {}
  BY <1>1, <1>2, <1>5 DEF Indexed, At, IndexInv
<1>9. r \notin GoodArchived
  BY <1>8 DEF Covers
<1>10. /\ Attempts(active') \cap GoodArchived' = {}
       /\ \A a, b \in Good' : a # b => Attempts(a) \cap Attempts(b) = {}
  BY <1>2, <1>7, <1>8, <1>9, SameLedger DEF IndexInv
<1>11. /\ Done(p)' = d
       /\ proc'[p].known = k /\ proc'[p].rec = r /\ proc'[p].todo = proc[p].todo
       /\ proc'[p].calm = proc[p].calm
  BY <1>3, <1>5 DEF Done, SameData
<1>12. Covers(d, k \cup ({r} \cap Ids))
  <2>1. ~Corrupt(d) => ~Corrupt(active) /\ Attempts(d) \subseteq k \cup ({r} \cap Ids)
    BY <1>7, <1>8 DEF Covers
  <2>2. ASSUME Clean(d)
        PROVE  k \cup ({r} \cap Ids) = Archived \cup Attempts(d)
    <3>1. Clean(active) /\ Attempts(d) = Attempts(active) \cup ({r} \cap Ids)
      BY <1>7, <2>2 DEF Clean
    <3>2. k = Archived \cup Attempts(active)
      BY <1>8, <3>1 DEF Covers
    <3> QED BY <3>1, <3>2
  <2> QED BY <1>8, <2>1, <2>2 DEF Covers
<1>13. Indexed(p)'
  <2>1. cache'[p] = None
    BY <1>2 DEF Forgotten
  <2>2. Attempts(d) \cap GoodArchived' = {}
    BY <1>2, <1>7, <1>8, <1>9, SameLedger
  <2>3. Covers(Done(p), proc[p].known \cup ({proc[p].rec} \cap Ids))'
    BY <1>2, <1>11, <1>12, SameLedger DEF Covers, Clean
  <2> QED BY <1>3, <1>11, <2>1, <2>2, <2>3 DEF Indexed, At
<1>14. proc[p].calm => \A q \in Procs \ {p} : ~At(q, "rest")'
  BY <1>1, <1>3 DEF Undisturbed, At, Disturbs, Disturbed
<1>15. ASSUME proc[p].calm
       PROVE  /\ BadArchives' = {} /\ ~Corrupt(d) /\ AllEnded(d)
              /\ Rows' \ proc[p].todo \subseteq Archived' \cup Attempts(d) \cup {r}
  <2>1. /\ Clean(active) /\ AllEnded(active)
        /\ Rows \ (proc[p].todo \cup {r}) \subseteq Archived \cup Attempts(active)
    BY <1>1, <1>2, <1>5, <1>15 DEF Undisturbed, In
  <2>2. r \notin Attempts(active)
    BY <1>8, <2>1 DEF Covers, Clean
  <2>3. ~Corrupt(d) /\ AllEnded(d) /\ Attempts(active) \subseteq Attempts(d)
    BY <1>7, <2>1, <2>2 DEF Clean
  <2>4. Rows' = Rows
    BY <1>2 DEF Rows
  <2> QED BY <1>2, <2>1, <2>3, <2>4, SameLedger DEF Clean
<1>16. Undisturbed(p)'
  BY <1>3, <1>11, <1>14, <1>15 DEF Undisturbed, In, At, Clean
<1>17. \A q \in Procs \ {p} : cache'[q] = None
  BY <1>2 DEF Forgotten
<1> QED BY <1>2, <1>3, <1>10, <1>13, <1>16, <1>17, IndexChange

LEMMA IndexCompletes ==
  ASSUME IndexInv, LocalInv', NEW p \in Procs, Completes(p)
  PROVE  IndexInv'
<1>1. Types /\ Local(p) /\ Indexed(p) /\ Undisturbed(p) /\ proc[p] \in Proc /\ LocalInv
  BY IndexFacts
<1>2. UNCHANGED <<rows, archives>> /\ proc[p].pc = "rest" /\ lock = p
  BY <1>1 DEF Completes, At, Local, In, Locked
<1>3. /\ Disturbs(p) /\ Ends(p) /\ active' = Done(p)
      /\ cache' = [Forgotten EXCEPT ![p] = proc[p].known \cup ({proc[p].rec} \cap Ids)]
  BY <1>1, CompletesStep
<1>4. PICK S : S = proc[p].known \cup ({proc[p].rec} \cap Ids)
  OBVIOUS
<1>5. Attempts(active') \cap GoodArchived = {} /\ Covers(active', S)
  BY <1>1, <1>2, <1>3, <1>4 DEF Indexed, At
<1>6. cache'[p] = S /\ \A q \in Procs \ {p} : cache'[q] = None
  BY <1>3, <1>4 DEF Forgotten
<1>7. /\ Attempts(active') \cap GoodArchived' = {}
      /\ \A a, b \in Good' : a # b => Attempts(a) \cap Attempts(b) = {}
  BY <1>2, <1>5, SameLedger DEF IndexInv
<1>8. proc'[p].pc \in {"idle", "ready"} /\ (proc'[p].calm => proc[p].calm)
  BY <1>1, <1>3 DEF Ends, Proc
<1>9. Indexed(p)'
  BY <1>2, <1>5, <1>6, <1>8, SameLedger DEF Indexed, At, Covers, Clean
<1>10. proc[p].calm => \A q \in Procs \ {p} : ~At(q, "rest")'
  BY <1>1, <1>3 DEF Undisturbed, At, Disturbs, Disturbed
<1>11. ASSUME proc[p].calm
       PROVE  /\ BadArchives' = {} /\ ~Corrupt(active') /\ AllEnded(active')
              /\ Rows' \ proc'[p].todo \subseteq Archived' \cup Attempts(active')
  <2>1. /\ Clean(active') /\ AllEnded(active')
        /\ Rows \ proc[p].todo \subseteq Archived \cup Attempts(active') \cup {proc[p].rec}
    BY <1>1, <1>2, <1>3, <1>11 DEF Undisturbed, At
  <2>2. S = Archived \cup Attempts(active')
    BY <1>5, <2>1 DEF Covers
  <2>3. Rows' = Rows /\ Rows \subseteq Ids
    BY <1>1, <1>2, RowsAre DEF Rows
  <2>4. proc'[p].todo = proc[p].todo \ {proc[p].rec}
    BY <1>3 DEF Ends
  <2> QED BY <1>2, <1>4, <2>1, <2>2, <2>3, <2>4, SameLedger DEF Clean
<1>12. Undisturbed(p)'
  BY <1>8, <1>10, <1>11 DEF Undisturbed, In, At, Clean
<1> QED BY <1>2, <1>3, <1>6, <1>7, <1>9, <1>12, IndexChange

LEMMA IndexInitially == Init => IndexInv
<1> SUFFICES ASSUME Init PROVE IndexInv
  OBVIOUS
<1>1. LocalInv /\ archives = {} /\ active = <<>>
  BY LocalInitially DEF Init
<1>2. Good = {} /\ GoodArchived = {}
  BY <1>1 DEF Good, GoodArchived
<1>3. \A p \in Procs : proc[p] = Idle /\ cache[p] = None
  BY DEF Init, Forgotten
<1>4. \A p \in Procs : Indexed(p) /\ Undisturbed(p)
  BY <1>3, IdleIs DEF Indexed, Undisturbed, At
<1> QED BY <1>1, <1>2, <1>4 DEF IndexInv

LEMMA IndexInvariance == IndexInv /\ [Next]_vars => IndexInv'
<1> SUFFICES ASSUME IndexInv, [Next]_vars PROVE IndexInv'
  OBVIOUS
<1>1. LocalInv'
  BY LocalInvariance DEF IndexInv
<1>2. CASE UNCHANGED vars
  <2>1. UNCHANGED <<rows, active, archives, proc, cache>>
    BY <1>2 DEF vars, files
  <2>2. \A p \in Procs : Indexed(p)' /\ Undisturbed(p)'
    BY <2>1, SameLedger DEF IndexInv, Indexed, Undisturbed, At, In, Covers, Clean, Done, Rows
  <2> QED BY <1>1, <2>1, <2>2, SameLedger DEF IndexInv
<1>3. ASSUME NEW p \in Procs,
             \/ Syncs(p) \/ Recovers(p) \/ MendsArchives(p) \/ Mends(p) \/ Rewrites(p)
             \/ Lists(p) \/ Reads(p) \/ Projects(p) \/ RecordsAttempt(p) \/ RecordsNote(p)
             \/ Appends(p) \/ Rotates(p) \/ Writes(p) \/ Completes(p)
             \/ Fails(p) \/ Crashes(p) \/ Leaves(p)
      PROVE  IndexInv'
  BY <1>1, <1>3, IndexSyncs, IndexRecovers, IndexMendsArchives, IndexMends, IndexRewrites,
     IndexLists, IndexReads, IndexProjects, IndexRecordsNote, IndexAppends, IndexRotates,
     IndexWrites, IndexCompletes, IndexFails, IndexLeaves
<1> QED BY <1>2, <1>3 DEF Next

-----------------------------------------------------------------------------
(* Where a record is.                                                       *)

\* The whole line i of the file f is the record r.
IsPlace(r, f, i) == i \in DOMAIN f /\ f[i].kind = "whole" /\ f[i].of = {r}

LEMMA OnePlace ==
  ASSUME NEW r, NEW a \in archives \cup {active}, NEW i, IsPlace(r, a, i),
         \A b \in archives \cup {active} : \A j : IsPlace(r, b, j) => b = a /\ j = i
  PROVE  Cardinality(Places(r)) = 1
<1>1. <<a, i>> \in Places(r)
  BY DEF IsPlace, Places
<1>2. ASSUME NEW x \in Places(r) PROVE x = <<a, i>>
  <2>1. PICK b \in archives \cup {active} :
          x \in {b} \X {j \in DOMAIN b : b[j].kind = "whole" /\ b[j].of = {r}}
    BY <1>2 DEF Places
  <2>2. PICK j \in DOMAIN b : x = <<b, j>> /\ b[j].kind = "whole" /\ b[j].of = {r}
    BY <2>1
  <2> QED BY <2>2 DEF IsPlace
<1>3. Places(r) = {<<a, i>>}
  BY <1>1, <1>2
<1> QED BY <1>3, FS_Singleton

\* In a ledger without a malformed line an attempt has its line, and only one.
LEMMA AttemptPlace ==
  ASSUME NEW f, FileOK(f), ~Corrupt(f), NEW r \in Ids
  PROVE  /\ r \in Attempts(f) <=> \E i : IsPlace(r, f, i)
         /\ \A i, j : IsPlace(r, f, i) /\ IsPlace(r, f, j) => i = j
<1>1. Valid(f) = DOMAIN f
  BY DEF Corrupt
<1>2. \A i : IsPlace(r, f, i) => r \in Attempts(f)
  BY <1>1, AttemptsAre DEF IsPlace
<1>3. ASSUME r \in Attempts(f) PROVE \E i : IsPlace(r, f, i)
  <2>1. PICK i \in Valid(f) : r \in f[i].of
    BY <1>3, AttemptsAre
  <2>2. f[i].kind = "whole" /\ LineOK(f[i]) /\ i \in DOMAIN f
    BY DEF Valid, FileOK
  <2> QED BY <2>1, <2>2 DEF LineOK, IsPlace
<1>4. ASSUME NEW i, NEW j, IsPlace(r, f, i), IsPlace(r, f, j), i # j PROVE FALSE
  <2>1. i \in Valid(f) /\ j \in Valid(f) /\ r \in f[i].of \cap f[j].of \cap Ids
    BY <1>1, <1>4 DEF IsPlace
  <2> QED BY <1>4, <2>1, ValidApart
<1> QED BY <1>2, <1>3, <1>4

\* A synchronisation that nobody disturbs leaves every attempt in the ledger exactly once
\* and nothing malformed: what its index says is exact, because nothing was malformed when
\* it was made, and nobody has changed the ledger since.
THEOREM SyncsRepair == Spec => []SyncRepairs
<1>1. IndexInv => SyncRepairs
  <2> SUFFICES ASSUME IndexInv, NEW p \in Procs,
                      At(p, "ready"), proc[p].todo = {}, proc[p].calm
               PROVE  /\ BadArchives = {} /\ ~Corrupt(active)
                      /\ \A i \in Rows : Cardinality(Places(i)) = 1
    BY DEF SyncRepairs
  <2>1. Local(p) /\ Undisturbed(p) /\ LocalInv /\ FileOK(active)
    BY IndexFacts
  <2>2. proc[p].rec = None /\ None \notin Rows /\ Rows \subseteq Ids
    BY <2>1, RowsAre DEF Local, In, At
  <2>3. BadArchives = {} /\ ~Corrupt(active) /\ Rows \subseteq Archived \cup Attempts(active)
    BY <2>1, <2>2 DEF Undisturbed, In, At, Clean
  <2>4. /\ \A a \in archives \cup {active} : FileOK(a) /\ ~Corrupt(a)
        /\ Good = archives
    BY <2>1, <2>3, CleanArchives DEF LocalInv, BadArchives
  <2>5. \A a, b \in archives \cup {active} :
          a = b \/ Attempts(a) \cap Attempts(b) = {}
    <3>1. \A a \in archives : Attempts(a) \cap Attempts(active) = {}
      BY <2>4 DEF IndexInv, GoodArchived
    <3> QED BY <2>4, <3>1 DEF IndexInv
  <2>6. ASSUME NEW r \in Rows PROVE Cardinality(Places(r)) = 1
    <3>1. r \in Ids
      BY <2>2
    <3>2. PICK a \in archives \cup {active} : r \in Attempts(a)
      BY <2>3 DEF Archived
    <3>3. PICK i : IsPlace(r, a, i)
      BY <2>4, <3>1, <3>2, AttemptPlace
    <3>4. ASSUME NEW b \in archives \cup {active}, NEW j, IsPlace(r, b, j)
          PROVE  b = a /\ j = i
      <4>1. r \in Attempts(b)
        BY <2>4, <3>1, <3>4, AttemptPlace
      <4>2. b = a
        BY <2>5, <3>2, <4>1
      <4> QED BY <2>4, <3>1, <3>3, <3>4, <4>2, AttemptPlace
    <3> QED BY <3>3, <3>4, OnePlace
  <2> QED BY <2>3, <2>6
<1> QED BY <1>1, IndexInitially, IndexInvariance, PTL DEF Spec

-----------------------------------------------------------------------------
(* Without a fault.                                                         *)

LEMMA TextsAre ==
  ASSUME NEW f, NEW x
  PROVE  x \in Texts(f) <=> \E i \in DOMAIN f : x \in f[i].of
BY DEF Texts

LEMMA IntactClean ==
  ASSUME NEW f, FileOK(f), Intact(f)
  PROVE  /\ ~Corrupt(f) /\ AllEnded(f) /\ Canonical(f) = f /\ Valid(f) = DOMAIN f
         /\ Attempts(f) = Ids \cap Texts(f)
<1>1. DOMAIN f = 1 .. Len(f) /\ Len(f) \in Nat
  BY ValidLines
<1>2. ASSUME NEW i \in DOMAIN f PROVE i \in Valid(f)
  <2>1. ASSUME NEW j \in 1 .. i - 1 PROVE f[j].of \cap f[i].of = {}
    <3>1. j \in DOMAIN f /\ j # i
      BY <1>1
    <3> QED BY <3>1 DEF Intact
  <2> QED BY <1>2, <2>1 DEF Valid, Intact
<1>3. Valid(f) = DOMAIN f
  BY <1>2 DEF Valid
<1>4. ~Corrupt(f) /\ AllEnded(f) /\ Canonical(f) = f
  BY <1>3, CanonicalFixed DEF Corrupt, AllEnded, Intact
<1>5. Attempts(f) = Ids \cap Texts(f)
  BY <1>3 DEF Attempts, Texts
<1> QED BY <1>3, <1>4, <1>5

LEMMA FaultlessFacts ==
  ASSUME FaultlessInv, NEW p \in Procs
  PROVE  /\ IndexInv /\ LocalInv /\ Types /\ Local(p) /\ FileOK(active) /\ proc[p] \in Proc
         /\ faults = 0 => IntactArchives /\ IntactLedger /\ NotesOnce /\ BadArchives = {}
<1>1. /\ IndexInv /\ LocalInv /\ Types /\ Local(p) /\ FileOK(active) /\ proc[p] \in Proc
      /\ faults = 0 => IntactArchives /\ IntactLedger /\ NotesOnce
  BY IndexFacts DEF FaultlessInv
<1>2. faults = 0 => BadArchives = {}
  BY <1>1, IntactClean DEF IntactArchives, BadArchives, LocalInv
<1> QED BY <1>1, <1>2

\* The one who holds the lock finds the ledger complete, unless it is its own write that is
\* under way.
LEMMA HolderFinds ==
  ASSUME FaultlessInv, faults = 0, NEW p \in Procs, lock = p, ~At(p, "rest")
  PROVE  Holds(active, {}) /\ Canonical(active) = active /\ ~Corrupt(active)
         /\ Valid(active) = DOMAIN active
<1>1. \A q \in Procs : ~At(q, "rest")
  BY FaultlessFacts DEF Local, In, At, Locked
<1>2. Holds(active, {})
  BY <1>1, FaultlessFacts DEF IntactLedger
<1> QED BY <1>2, IntactClean, FaultlessFacts DEF Holds

\* A step that changes neither files nor acked.
LEMMA FaultlessMove ==
  ASSUME FaultlessInv, IndexInv', faults = 0, NEW p \in Procs, Alone(p) \/ Disturbs(p),
         UNCHANGED <<active, archives, quarantine, acked>>,
         proc[p].pc # "rest", proc'[p].pc # "rest",
         \/ proc'[p].rec = proc[p].rec \/ proc'[p].rec \notin Notes
         \/ proc'[p].rec \notin acked /\ \A q \in Procs : proc[q].rec # proc'[p].rec
  PROVE  FaultlessInv'
<1>1. IntactArchives /\ IntactLedger /\ NotesOnce
  BY FaultlessFacts
<1>2. \A q \in Procs \ {p} : proc'[q].pc = proc[q].pc /\ proc'[q].rec = proc[q].rec
  BY DEF Alone, Disturbs, Disturbed
<1>3. IntactArchives'
  BY <1>1 DEF IntactArchives
<1>4. Holds(active, {}) => Holds(active, {})'
  BY DEF Holds
<1>5. \A q \in Procs : At(q, "rest")' => At(q, "rest") /\ q # p
  BY <1>2 DEF At
<1>6. (\A q \in Procs : ~At(q, "rest")') => (\A q \in Procs : ~At(q, "rest"))
  BY <1>2 DEF At
<1>7. (\A q \in Procs : ~At(q, "rest")') => Holds(active, {})'
  BY <1>1, <1>4, <1>6 DEF IntactLedger
<1>8. ASSUME NEW q \in Procs, At(q, "rest")'
      PROVE  Holds(Done(q), {proc[q].rec})' /\ proc'[q].rec \notin acked'
  <2>1. At(q, "rest") /\ proc'[q].rec = proc[q].rec
    BY <1>2, <1>5, <1>8
  <2>2. Holds(Done(q), {proc[q].rec}) /\ proc[q].rec \notin acked
    BY <1>1, <2>1 DEF IntactLedger
  <2>3. Done(q)' = Done(q)
    BY <2>1 DEF Done
  <2> QED BY <2>1, <2>2, <2>3 DEF Holds
<1>9. NotesOnce'
  BY <1>1, <1>2 DEF NotesOnce
<1> QED BY <1>3, <1>7, <1>8, <1>9 DEF FaultlessInv, IntactLedger

LEMMA FaultlessMoves ==
  ASSUME FaultlessInv, IndexInv', faults = 0, NEW p \in Procs,
         \/ Syncs(p) \/ Recovers(p) \/ Lists(p) \/ Reads(p) \/ Projects(p)
         \/ RecordsAttempt(p) \/ RecordsNote(p) \/ Appends(p) \/ Leaves(p)
  PROVE  FaultlessInv'
<1>1. Types /\ Local(p) /\ proc[p] \in Proc
  BY FaultlessFacts
<1>2. UNCHANGED <<active, archives, quarantine, acked>> /\ proc[p].pc # "rest"
  BY DEF Syncs, Recovers, Lists, Reads, Projects, RecordsAttempt, RecordsNote, Appends, Leaves,
         files, At
<1>3. None \notin Notes /\ Ids \cap Notes = {}
  BY UsageAssumption DEF Ids
<1>4. CASE Syncs(p) \/ Recovers(p)
  BY <1>1, <1>2, <1>3, <1>4, SyncsStep, RecoversStep, FaultlessMove DEF SameData
<1>5. \A S : Misses(p, S) => Alone(p) /\ proc'[p].pc # "rest" /\ proc'[p].rec = proc[p].rec
  BY DEF Misses
<1>6. CASE Lists(p)
  BY <1>1, <1>2, <1>5, <1>6, ListsStep, FaultlessMove
<1>7. CASE Reads(p)
  BY <1>1, <1>2, <1>5, <1>7, ReadsStep, FaultlessMove
<1>8. CASE Projects(p)
  <2>1. proc[p].todo \subseteq Ids
    BY <1>1 DEF Proc
  <2> QED BY <1>1, <1>2, <1>3, <1>8, <2>1, ProjectsStep, FaultlessMove
<1>9. CASE RecordsAttempt(p)
  <2>1. Disturbs(p) /\ proc'[p].pc = "append" /\ proc'[p].rec \in Ids
    BY <1>1, <1>9, RecordsAttemptStep
  <2> QED BY <1>2, <1>3, <2>1, FaultlessMove
<1>10. CASE RecordsNote(p)
  <2>1. /\ Alone(p) /\ proc'[p].pc = "append" /\ proc'[p].rec \notin acked
        /\ \A q \in Procs : proc[q].rec # proc'[p].rec
    BY <1>1, <1>10, RecordsNoteStep
  <2> QED BY <1>2, <2>1, FaultlessMove
<1>11. CASE Appends(p)
  <2>1. Ends(p) => proc'[p].pc # "rest" /\ proc'[p].rec \notin Notes
    BY <1>1, <1>3 DEF Ends, Proc
  <2>2. /\ Alone(p) /\ proc'[p].pc # "rest"
        /\ proc'[p].rec = proc[p].rec \/ proc'[p].rec \notin Notes
    BY <1>1, <1>11, <2>1, AppendsStep DEF SameData
  <2> QED BY <1>2, <2>2, FaultlessMove
<1>12. CASE Leaves(p)
  <2>1. Alone(p) /\ proc'[p].pc = "idle" /\ proc'[p].rec = None
    BY <1>1, <1>12, EndsStep, IdleIs
  <2> QED BY <1>2, <1>3, <2>1, FaultlessMove
<1> QED BY <1>4, <1>6, <1>7, <1>8, <1>9, <1>10, <1>11, <1>12

\* There is nothing to mend, and nothing to rewrite.
LEMMA FaultlessMends ==
  ASSUME FaultlessInv, IndexInv', faults = 0, NEW p \in Procs,
         MendsArchives(p) \/ Mends(p) \/ Rewrites(p)
  PROVE  FaultlessInv'
<1>1. Types /\ Local(p) /\ BadArchives = {} /\ IntactArchives
  BY FaultlessFacts
<1>2. lock = p /\ ~At(p, "rest") /\ proc[p].pc # "rest"
  BY <1>1 DEF MendsArchives, Mends, Rewrites, Local, In, At, Locked
<1>3. Canonical(active) = active /\ ~Corrupt(active) /\ Valid(active) = DOMAIN active
  BY <1>2, HolderFinds
<1>4. CASE MendsArchives(p)
  <2>1. /\ UNCHANGED <<active, archives, quarantine>> /\ Alone(p) /\ SameData(p)
        /\ proc'[p].pc = "mend"
    BY <1>1, <1>4, MendsArchivesStep
  <2>2. acked' = acked
    BY <1>4 DEF MendsArchives
  <2> QED BY <1>2, <2>1, <2>2, FaultlessMove DEF SameData
<1>5. CASE Mends(p)
  <2>1. /\ UNCHANGED <<active, archives, acked>>
        /\ quarantine' = quarantine \cup {active[i] : i \in DOMAIN active \ Valid(active)}
    BY <1>5 DEF Mends
  <2>2. quarantine' = quarantine
    BY <1>3, <2>1
  <2>3. Alone(p) /\ SameData(p) /\ proc'[p].pc = "rewrite"
    BY <1>1, <1>3, <1>5, MendsStep
  <2> QED BY <1>2, <2>1, <2>2, <2>3, FaultlessMove DEF SameData
<1>6. CASE Rewrites(p)
  <2>1. active' = active /\ UNCHANGED <<archives, quarantine, acked>>
    BY <1>3, <1>6 DEF Rewrites
  <2>2. Alone(p) /\ SameData(p) /\ proc'[p].pc \in {"list", "append"}
    BY <1>1, <1>6, <2>1, RewritesStep
  <2> QED BY <1>2, <2>1, <2>2, FaultlessMove DEF SameData
<1> QED BY <1>4, <1>5, <1>6

LEMMA FaultlessRotates ==
  ASSUME FaultlessInv, IndexInv', faults = 0, NEW p \in Procs, Rotates(p)
  PROVE  FaultlessInv'
<1>1. Types /\ Local(p) /\ IntactArchives /\ NotesOnce
  BY FaultlessFacts
<1>2. /\ UNCHANGED <<quarantine, acked>> /\ proc[p].pc = "write" /\ lock = p /\ ~At(p, "rest")
      /\ archives' = archives \cup {active} /\ active' = <<>>
  BY <1>1 DEF Rotates, At, Local, In, Locked
<1>3. Disturbs(p) /\ proc'[p] = proc[p]
  BY <1>1, RotatesStep
<1>4. Holds(active, {})
  BY <1>2, HolderFinds
<1>5. \A q \in Procs : proc'[q].pc = proc[q].pc /\ proc'[q].rec = proc[q].rec
  BY <1>3 DEF Disturbs, Disturbed
<1>6. IntactArchives'
  BY <1>1, <1>2, <1>4 DEF IntactArchives, Holds, Apart
<1>7. Texts(<<>>) = {} /\ Intact(<<>>)
  BY DEF Texts, Intact
<1>8. Holds(active, {})'
  BY <1>2, <1>4, <1>7 DEF Holds, Apart
<1>9. \A q \in Procs : ~At(q, "rest")'
  BY <1>1, <1>2, <1>5, FaultlessFacts DEF At, Local, In, Locked
<1>10. IntactLedger'
  BY <1>8, <1>9 DEF IntactLedger
<1>11. NotesOnce'
  BY <1>1, <1>2, <1>5 DEF NotesOnce
<1> QED BY <1>6, <1>10, <1>11 DEF FaultlessInv

\* What is written is new: a note because it is written once, an attempt because the index
\* does not have it.
LEMMA NewRecord ==
  ASSUME FaultlessInv, faults = 0, NEW p \in Procs, At(p, "write")
  PROVE  proc[p].rec \notin acked
<1>1. /\ Local(p) /\ IndexInv /\ IntactArchives /\ NotesOnce /\ BadArchives = {} /\ LocalInv
      /\ FileOK(active)
  BY FaultlessFacts
<1>2. lock = p /\ ~At(p, "rest") /\ proc[p].rec \in Records
  BY <1>1 DEF Local, In, At, Locked
<1>3. Holds(active, {}) /\ ~Corrupt(active)
  BY <1>2, HolderFinds
<1>4. CASE proc[p].rec \in Notes
  BY <1>1, <1>4 DEF NotesOnce
<1>5. CASE proc[p].rec \in Ids
  <2>1. proc[p].rec \notin proc[p].known /\ Covers(active, proc[p].known)
    BY <1>1 DEF IndexInv, Indexed
  <2>2. proc[p].known = Archived \cup Attempts(active)
    BY <1>1, <1>3, <2>1 DEF Covers, Clean
  <2>3. Attempts(active) = Ids \cap Texts(active)
    BY <1>1, <1>3, IntactClean DEF Holds
  <2>4. \A a \in archives : Attempts(a) = Ids \cap Texts(a)
    BY <1>1, IntactClean DEF IntactArchives, LocalInv
  <2>5. Archived = Ids \cap UNION {Texts(a) : a \in archives}
    BY <2>4 DEF Archived
  <2>6. acked = Texts(active) \cup UNION {Texts(a) : a \in archives}
    BY <1>3 DEF Holds
  <2> QED BY <1>5, <2>1, <2>2, <2>3, <2>5, <2>6
<1> QED BY <1>2, <1>4, <1>5 DEF Records

\* A complete ledger gets one more line.
LEMMA IntactWrite ==
  ASSUME NEW f, NEW r, NEW text, NEW g, NEW d, Writing(f, r, text, g, d),
         Intact(f), r \notin Texts(f)
  PROVE  Intact(d) /\ Texts(d) = Texts(f) \cup {r}
<1> USE DEF Writing
<1>0. PICK n \in Nat, l \in Line, e \in Line : WriteShape(f, r, text, g, d, n, l, e)
  BY JoinedLine
<1>1. f \in Seq(Line)
  BY DEF FileOK
<1> HIDE DEF Writing
<1>2. ~Unended(f)
  <2>1. f # <<>> => Len(f) \in DOMAIN f
    BY <1>1
  <2> QED BY <2>1 DEF Unended, Last, Intact
<1>3. /\ d \in Seq(Line) /\ Len(d) = n + 1 /\ Len(f) = n
      /\ \A i \in 1 .. n : d[i] = f[i]
      /\ d[n + 1] = Whole(r, TRUE)
  BY <1>0, <1>2 DEF WriteShape
<1>4. DOMAIN f = 1 .. n /\ DOMAIN d = (1 .. n) \cup {n + 1} /\ n + 1 \notin 1 .. n
  BY <1>1, <1>3
<1>5. d[n + 1].of = {r} /\ d[n + 1].kind = "whole" /\ d[n + 1].ended
  BY <1>3 DEF Whole
<1>6. Texts(d) = Texts(f) \cup {r}
  <2>1. ASSUME NEW x \in Texts(d) PROVE x \in Texts(f) \cup {r}
    <3>1. PICK i \in DOMAIN d : x \in d[i].of
      BY <2>1, TextsAre
    <3> QED BY <1>3, <1>4, <1>5, <3>1, TextsAre
  <2>2. ASSUME NEW x \in Texts(f) PROVE x \in Texts(d)
    <3>1. PICK i \in DOMAIN f : x \in f[i].of
      BY <2>2, TextsAre
    <3> QED BY <1>3, <1>4, <3>1, TextsAre
  <2>3. r \in Texts(d)
    BY <1>4, <1>5, TextsAre
  <2> QED BY <2>1, <2>2, <2>3
<1>7. \A i \in 1 .. n : r \notin f[i].of
  BY <1>4 DEF Texts
<1>8. ASSUME NEW i \in DOMAIN d, NEW j \in DOMAIN d, i # j
      PROVE  d[i].of \cap d[j].of = {}
  <2>1. CASE i \in 1 .. n /\ j \in 1 .. n
    BY <1>3, <1>4, <1>8, <2>1 DEF Intact
  <2>2. CASE i \in 1 .. n /\ j = n + 1
    BY <1>3, <1>5, <1>7, <2>2
  <2>3. CASE i = n + 1 /\ j \in 1 .. n
    BY <1>3, <1>5, <1>7, <2>3
  <2> QED BY <1>4, <1>8, <2>1, <2>2, <2>3
<1>9. \A i \in DOMAIN d : d[i].kind = "whole" /\ d[i].ended
  BY <1>3, <1>4, <1>5 DEF Intact
<1> QED BY <1>6, <1>8, <1>9 DEF Intact

LEMMA FaultlessWrites ==
  ASSUME FaultlessInv, IndexInv', faults = 0, NEW p \in Procs, Writes(p)
  PROVE  FaultlessInv'
<1>1. /\ Types /\ Local(p) /\ IntactArchives /\ NotesOnce /\ FileOK(active) /\ LocalInv
  BY FaultlessFacts
<1>2. /\ UNCHANGED <<archives, quarantine, acked>> /\ At(p, "write") /\ lock = p
      /\ ~At(p, "rest") /\ Len(active) < MaxLines /\ proc[p].rec \in Records
  BY <1>1, Room DEF Writes, At, Local, In, Locked
<1>3. Disturbs(p) /\ SameData(p) /\ proc'[p].pc = "rest"
  BY <1>1, WritesStep
<1>4. PICK text \in {Part, Whole(proc[p].rec, FALSE)} : active' = Joined(active, text)
  BY <1>1, WritesStep
<1>5. PICK r, d : r = proc[p].rec /\ d = Completed(active', r)
  OBVIOUS
<1>6. Writing(active, r, text, active', d)
  BY <1>1, <1>2, <1>4, <1>5 DEF Writing
<1>7. Holds(active, {}) /\ r \notin acked
  BY <1>2, <1>5, HolderFinds, NewRecord
<1>8. /\ r \notin Texts(active) /\ \A a \in archives : r \notin Texts(a)
  BY <1>7 DEF Holds
<1>9. Intact(d) /\ Texts(d) = Texts(active) \cup {r}
  BY <1>6, <1>7, <1>8, IntactWrite DEF Holds
<1>10. Holds(d, {r})
  <2>1. \A a \in archives : Apart(d, a)
    BY <1>7, <1>8, <1>9 DEF Holds, Apart
  <2> QED BY <1>7, <1>9, <2>1 DEF Holds
<1>11. proc'[p].rec = r /\ Done(p)' = d
  BY <1>3, <1>5 DEF Done, SameData
<1>12. \A q \in Procs : proc'[q].rec = proc[q].rec /\ (q # p => ~At(q, "rest")')
  <2>1. \A q \in Procs \ {p} : ~At(q, "rest")
    BY <1>2, FaultlessFacts DEF Local, In, At, Locked
  <2> QED BY <1>3, <2>1 DEF Disturbs, Disturbed, SameData, At
<1>13. IntactArchives' /\ NotesOnce'
  BY <1>1, <1>2, <1>12 DEF IntactArchives, NotesOnce
<1>14. Holds(Done(p), {proc[p].rec})' /\ proc'[p].rec \notin acked'
  BY <1>2, <1>7, <1>10, <1>11 DEF Holds
<1>15. IntactLedger'
  BY <1>3, <1>12, <1>14 DEF IntactLedger, At
<1> QED BY <1>13, <1>15 DEF FaultlessInv

LEMMA FaultlessCompletes ==
  ASSUME FaultlessInv, IndexInv', faults = 0, NEW p \in Procs, Completes(p)
  PROVE  FaultlessInv'
<1>1. /\ Types /\ Local(p) /\ IntactArchives /\ IntactLedger /\ NotesOnce /\ proc[p] \in Proc
  BY FaultlessFacts
<1>2. /\ UNCHANGED <<archives, quarantine>> /\ acked' = acked \cup {proc[p].rec}
      /\ At(p, "rest") /\ lock = p
  BY <1>1 DEF Completes, At, Local, In, Locked
<1>3. Disturbs(p) /\ Ends(p) /\ active' = Done(p)
  BY <1>1, CompletesStep
<1>4. Holds(Done(p), {proc[p].rec})
  BY <1>1, <1>2 DEF IntactLedger
<1>6. Holds(active, {})'
  BY <1>2, <1>3, <1>4 DEF Holds
<1>7. \A q \in Procs : ~At(q, "rest")'
  <2>1. \A q \in Procs \ {p} : ~At(q, "rest")
    BY <1>2, FaultlessFacts DEF Local, In, At, Locked
  <2>2. ~At(p, "rest")'
    BY <1>1, <1>3 DEF Ends, Proc, At
  <2> QED BY <1>3, <2>1, <2>2 DEF Disturbs, Disturbed, At
<1>8. IntactLedger' /\ IntactArchives'
  BY <1>1, <1>2, <1>6, <1>7 DEF IntactLedger, IntactArchives
<1>9. NotesOnce'
  <2>1. proc'[p].rec = None /\ None \notin Notes
    BY <1>3, UsageAssumption DEF Ends
  <2>2. \A q \in Procs \ {p} : proc'[q].rec = proc[q].rec
    BY <1>3 DEF Disturbs, Disturbed
  <2> QED BY <1>1, <1>2, <2>1, <2>2 DEF NotesOnce
<1> QED BY <1>8, <1>9 DEF FaultlessInv

LEMMA FaultlessInitially == Init => FaultlessInv
<1> SUFFICES ASSUME Init PROVE FaultlessInv
  OBVIOUS
<1>1. IndexInv
  BY IndexInitially
<1>2. archives = {} /\ active = <<>> /\ quarantine = {} /\ acked = {}
  BY DEF Init
<1>3. \A p \in Procs : proc[p] = Idle
  BY DEF Init
<1>4. IntactArchives
  BY <1>2 DEF IntactArchives
<1>5. Holds(active, {})
  BY <1>2 DEF Holds, Intact, Texts
<1>6. IntactLedger /\ NotesOnce
  BY <1>3, <1>5, IdleIs, UsageAssumption DEF IntactLedger, NotesOnce, At
<1> QED BY <1>1, <1>4, <1>6 DEF FaultlessInv

LEMMA FaultlessInvariance == FaultlessInv /\ [Next]_vars => FaultlessInv'
<1> SUFFICES ASSUME FaultlessInv, [Next]_vars PROVE FaultlessInv'
  OBVIOUS
<1>1. IndexInv'
  BY IndexInvariance DEF FaultlessInv
<1>2. CASE UNCHANGED vars
  <2>1. UNCHANGED <<active, archives, quarantine, proc, acked, faults>>
    BY <1>2 DEF vars, files
  <2>2. /\ IntactArchives => IntactArchives'
        /\ NotesOnce => NotesOnce'
    BY <2>1 DEF IntactArchives, NotesOnce
  <2>3. IntactLedger => IntactLedger'
    BY <2>1 DEF IntactLedger, Holds, At, Done
  <2> QED BY <1>1, <2>1, <2>2, <2>3 DEF FaultlessInv
<1>3. ASSUME NEW p \in Procs, Fails(p) \/ Crashes(p)
      PROVE  FaultlessInv'
  <2>1. faults \in 0 .. MaxFaults /\ MaxFaults \in Nat
    BY <1>3, LocalFacts, FaultlessFacts
  <2>2. faults' # 0
    BY <1>3, <2>1 DEF Fails, Crashes, Fault
  <2> QED BY <1>1, <2>2 DEF FaultlessInv
<1>4. ASSUME NEW p \in Procs,
             \/ Syncs(p) \/ Recovers(p) \/ MendsArchives(p) \/ Mends(p) \/ Rewrites(p)
             \/ Lists(p) \/ Reads(p) \/ Projects(p) \/ RecordsAttempt(p) \/ RecordsNote(p)
             \/ Appends(p) \/ Rotates(p) \/ Writes(p) \/ Completes(p) \/ Leaves(p)
      PROVE  FaultlessInv'
  <2>1. faults' = faults
    BY <1>4 DEF Syncs, Recovers, MendsArchives, Mends, Rewrites, Lists, Reads, Projects,
                RecordsAttempt, RecordsNote, Appends, Rotates, Writes, Completes, Leaves
  <2>2. CASE faults # 0
    BY <1>1, <2>1, <2>2 DEF FaultlessInv
  <2>3. CASE faults = 0
    BY <1>1, <1>4, <2>3, FaultlessMoves, FaultlessMends, FaultlessRotates, FaultlessWrites,
       FaultlessCompletes
  <2> QED BY <2>2, <2>3
<1> QED BY <1>2, <1>3, <1>4 DEF Next

\* Without a fault nothing is ever quarantined: who looks for malformed lines does so under
\* the lock, where no write is under way.
THEOREM NothingIsQuarantined == Spec => []NothingQuarantined
<1>1. FaultlessInv => NothingQuarantined
  BY DEF FaultlessInv, IntactArchives, NothingQuarantined
<1> QED BY <1>1, FaultlessInitially, FaultlessInvariance, PTL DEF Spec

\* While a write is under way, the ledger is what it will be but for its last line.
LEMMA UnderWay ==
  ASSUME LocalInv, NEW p \in Procs, At(p, "rest")
  PROVE  /\ DOMAIN Done(p) = DOMAIN active /\ Len(active) \in DOMAIN active
         /\ \A i \in DOMAIN active : i # Len(active) => Done(p)[i] = active[i]
         /\ proc[p].rec \in Done(p)[Len(active)].of
         /\ active[Len(active)].of \subseteq Done(p)[Len(active)].of
<1>1. /\ FileOK(active) /\ active # <<>> /\ proc[p].rec \in Records
      /\ Last(active).kind = "whole" => Last(active).of = {proc[p].rec}
  BY LocalFacts DEF Local, In, At
<1>2. /\ FileOK(Done(p)) /\ Len(Done(p)) = Len(active) /\ Len(active) \in DOMAIN active
      /\ \A i \in DOMAIN active : active[i].of \subseteq Done(p)[i].of
      /\ proc[p].rec \in Done(p)[Len(active)].of
  BY <1>1, CompletedKeeps DEF Done
<1>3. DOMAIN Done(p) = DOMAIN active
  BY <1>1, <1>2, ValidLines
<1>4. \A i \in DOMAIN active : i # Len(active) => Done(p)[i] = active[i]
  BY DEF Done, Completed
<1> QED BY <1>2, <1>3, <1>4

\* Where a record is, when the ledger is or will be f.
LEMMA HeldOnce ==
  ASSUME IntactArchives, LocalInv, NEW f, FileOK(f), NEW S, Holds(f, S),
         NEW r \in acked \ S,
         \A i : IsPlace(r, active, i) <=> IsPlace(r, f, i)
  PROVE  Cardinality(Places(r)) = 1
<1>1. /\ \A a \in archives : FileOK(a) /\ Intact(a)
      /\ \A a, b \in archives : a # b => Apart(a, b)
      /\ Intact(f) /\ \A a \in archives : Apart(f, a)
  BY DEF IntactArchives, LocalInv, Holds
<1>2. ASSUME NEW a, FileOK(a), Intact(a), r \in Texts(a)
      PROVE  \E i : IsPlace(r, a, i)
  <2>1. PICK i \in DOMAIN a : r \in a[i].of
    BY <1>2, TextsAre
  <2>2. a[i].kind = "whole" /\ LineOK(a[i])
    BY <1>2 DEF Intact, FileOK
  <2> QED BY <2>1, <2>2 DEF LineOK, IsPlace
<1>3. \A a, i : IsPlace(r, a, i) => r \in Texts(a)
  BY TextsAre DEF IsPlace
<1>4. ASSUME NEW a, Intact(a), NEW i, NEW j, IsPlace(r, a, i), IsPlace(r, a, j), i # j
      PROVE  FALSE
  BY <1>4 DEF IsPlace, Intact
<1>5. r \in Texts(f) \/ \E a \in archives : r \in Texts(a)
  BY DEF Holds
<1>6. CASE r \in Texts(f)
  <2>1. PICK i : IsPlace(r, active, i) /\ IsPlace(r, f, i)
    BY <1>1, <1>2, <1>6
  <2>2. \A b \in archives : \A j : ~IsPlace(r, b, j)
    BY <1>1, <1>3, <1>6 DEF Apart
  <2>3. \A b \in archives \cup {active} : \A j : IsPlace(r, b, j) => b = active /\ j = i
    BY <1>1, <1>4, <2>1, <2>2
  <2> QED BY <2>1, <2>3, OnePlace
<1>7. CASE \E a \in archives : r \in Texts(a)
  <2>1. PICK a \in archives : r \in Texts(a)
    BY <1>7
  <2>2. PICK i : IsPlace(r, a, i)
    BY <1>1, <1>2, <2>1
  <2>3. \A b \in archives : \A j : IsPlace(r, b, j) => b = a
    BY <1>1, <1>3, <2>1 DEF Apart
  <2>4. \A j : ~IsPlace(r, active, j)
    BY <1>1, <1>3, <2>1 DEF Apart
  <2>5. \A b \in archives \cup {active} : \A j : IsPlace(r, b, j) => b = a /\ j = i
    BY <1>1, <1>4, <2>2, <2>3, <2>4
  <2> QED BY <2>2, <2>5, OnePlace
<1> QED BY <1>5, <1>6, <1>7

\* Without a fault, what is appended is in the ledger exactly once, whoever synchronises,
\* recovers or rotates meanwhile: the index that is consulted under the lock is exact, and the
\* archives, the ledger and the write under way have no record in common.
THEOREM IsLoggedOnce == Spec => []LoggedOnce
<1>1. FaultlessInv => LoggedOnce
  <2> SUFFICES ASSUME FaultlessInv, faults = 0, NEW r \in acked
               PROVE  Cardinality(Places(r)) = 1
    BY DEF LoggedOnce
  <2>1. IntactArchives /\ IntactLedger /\ LocalInv /\ FileOK(active)
    BY DEF FaultlessInv, IndexInv, LocalInv
  <2>2. CASE \A p \in Procs : ~At(p, "rest")
    <3>1. Holds(active, {})
      BY <2>1, <2>2 DEF IntactLedger
    <3> QED BY <2>1, <3>1, HeldOnce
  <2>3. CASE \E p \in Procs : At(p, "rest")
    <3>1. PICK p \in Procs : At(p, "rest")
      BY <2>3
    <3>2. PICK d, x : d = Done(p) /\ x = proc[p].rec
      OBVIOUS
    <3>3. Holds(d, {x}) /\ x \notin acked
      BY <2>1, <3>1, <3>2 DEF IntactLedger
    <3>4. /\ DOMAIN d = DOMAIN active
          /\ \A i \in DOMAIN active : i # Len(active) => d[i] = active[i]
          /\ x \in d[Len(active)].of /\ active[Len(active)].of \subseteq d[Len(active)].of
      BY <2>1, <3>1, <3>2, UnderWay
    <3>5. FileOK(d)
      <4>1. /\ active # <<>> /\ x \in Records
            /\ Last(active).kind = "whole" => Last(active).of = {x}
        BY <2>1, <3>1, <3>2, LocalFacts DEF Local, In, At
      <4> QED BY <2>1, <3>2, <4>1, CompletedKeeps DEF Done
    <3>6. r # x
      BY <3>3
    <3>7. r \notin d[Len(active)].of
      <4>1. Len(active) \in DOMAIN d
        BY <2>1, <3>1, <3>4, UnderWay
      <4>2. d[Len(active)].kind = "whole" /\ LineOK(d[Len(active)])
        BY <3>3, <3>5, <4>1 DEF Holds, Intact, FileOK
      <4> QED BY <3>4, <3>6, <4>2 DEF LineOK
    <3>8. \A i : IsPlace(r, active, i) <=> IsPlace(r, d, i)
      BY <3>4, <3>7 DEF IsPlace
    <3> QED BY <2>1, <3>3, <3>5, <3>6, <3>8, HeldOnce
  <2> QED BY <2>2, <2>3
<1> QED BY <1>1, FaultlessInitially, FaultlessInvariance, PTL DEF Spec
=============================================================================
