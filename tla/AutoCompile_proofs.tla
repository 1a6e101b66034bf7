-------------------------- MODULE AutoCompile_proofs --------------------------
(***************************************************************************)
(* Proofs about AutoCompile.                                               *)
(*                                                                         *)
(* A transaction is computed on a record d of the row, the runs and the    *)
(* taken keys.  The first part is about these computations, whoever        *)
(* commits them.  Good(d) says that the columns of the row fit together    *)
(* (Sound) and that the runs it links are runs of its generations (Says);  *)
(* it survives events on runs (Retells), and a run found by its key or     *)
(* created for a generation (Finds), whose id no link stands for.          *)
(*                                                                         *)
(* The second part is about the steps.  AutoInv has the logs and captures  *)
(* (WorldInv), Good(DB), what each process knows it is asked for           *)
(* (ProcInv), that nobody owns a request that failed (QuietInv), and the   *)
(* children (ChildInv).  There is one lemma for each action.               *)
(*                                                                         *)
(* The last part is about content.  ContentInv says what each fingerprint  *)
(* still tells of the log that it was read from: the one in the row, the   *)
(* pending one, and that of a coordinator, with the marker history that    *)
(* it launched its child with.  Fulfils is what a step then does: it keeps *)
(* ContentInv, and it ends a request or a status run only when the entries *)
(* that were counted are compiled (Delivers).                              *)
(***************************************************************************)
EXTENDS AutoCompile, FiniteSetTheorems, TLAPS

-----------------------------------------------------------------------------
(* What holds of a transaction, at each of its steps.                        *)

\* The columns of a row fit together, and an attempt is left unless it failed.
Sound(r) ==
  /\ r \in Row
  /\ (r.pend = None) = (r.ppre = None)
  /\ (r.cont = None) = (r.cpred = None)
  /\ r.status # "failed" => r.tries < MaxAttempts

\* Run i is one of the fingerprint of f.
IsRunOf(rs, i, f) == i \in RunIds /\ rs[i] # None /\ Alike(rs[i].fp, f)

\* The runs of a row are runs of its generations.
Says(r, rs) ==
  /\ IsRunOf(rs, r.run, r.fp)
  /\ r.prun # None => \E g \in Generations : IsRunOf(rs, r.prun, g) /\ r.pend \in {None, g}

Db == [row : Row \cup {None}, runs : [RunIds -> Run \cup {None}], keys : SUBSET Generations,
       id : RunIds \cup {None}, full : BOOLEAN]

IsDb(d) == d \in Db /\ (d.row # None => Sound(d.row))
Good(d) == IsDb(d) /\ (d.full \/ d.row = None \/ Says(d.row, d.runs))

\* From d to e every run goes on being one of its generation.
KeepsRuns(d, e) ==
  \A i \in RunIds : d.runs[i] # None => e.runs[i] # None /\ e.runs[i].fp = d.runs[i].fp

\* e is d with some events added to the timelines of runs.
Retells(d, e) ==
  /\ IsDb(e) /\ KeepsRuns(d, e)
  /\ e.row = d.row /\ e.id = d.id /\ e.full = d.full /\ e.keys = d.keys

\* Another row with the same owner, the same generations and the same status.
Wants(r, s) ==
  /\ s # None /\ s.token = r.token /\ s.status = r.status
  /\ s.fp = r.fp /\ s.pre = r.pre /\ s.pend = r.pend /\ s.ppre = r.ppre

\* Who watches r watches s, for as long.
Guards(r, s) == s.watcher = r.watcher /\ (r.wlive => s.wlive)

LEMMA RunOfAlike ==
  ASSUME NEW rs, NEW i, NEW f, NEW g, IsRunOf(rs, i, f), Alike(f, g) \/ Alike(g, f)
  PROVE  IsRunOf(rs, i, g)
BY DEF IsRunOf, Alike

-----------------------------------------------------------------------------
(* Least elements.                                                           *)

LEMMA LeastNat ==
  ASSUME NEW T \in SUBSET Nat, T # {}
  PROVE  Least(T) \in T
<1> DEFINE F == {0 .. n : n \in T}
           R == StrictSubsetOrdering(Nat)
           G == FiniteSubsetsOf(Nat)
<1>1. IsWellFoundedOn(R, G)
  BY FS_StrictSubsetOrderingWellFounded
<1>2. F # {} /\ F \subseteq G
  <2> SUFFICES ASSUME NEW n \in T PROVE 0 .. n \in FiniteSubsetsOf(Nat)
    OBVIOUS
  <2>1. IsFiniteSet(0 .. n) /\ 0 .. n \subseteq Nat
    BY FS_Interval
  <2> QED BY <2>1 DEF FiniteSubsetsOf
<1>3. /\ \A B \in F : \E m \in T : B = 0 .. m
      /\ \A n \in T : 0 .. n \in F
      /\ F \subseteq SUBSET Nat
  OBVIOUS
<1>4. \A A, B \in F : <<B, A>> \in R <=> B \subseteq A /\ B # A
  BY <1>3 DEF StrictSubsetOrdering
<1> HIDE DEF F, R, G
<1>5. PICK A \in F : \A B \in F : ~ (<<B, A>> \in R)
  BY <1>1, <1>2, WFMin
<1>6. PICK m \in T : A = 0 .. m
  BY <1>3
<1>7. ASSUME NEW n \in T, ~(m <= n) PROVE FALSE
  <2>1. 0 .. n \subseteq 0 .. m /\ m \notin 0 .. n /\ m \in 0 .. m
    BY <1>7
  <2>2. 0 .. n \in F /\ 0 .. n \subseteq A /\ 0 .. n # A
    BY <1>3, <1>6, <2>1
  <2>3. <<0 .. n, A>> \in R
    BY <1>4, <1>5, <2>2
  <2> QED BY <1>5, <2>2, <2>3
<1>8. \E x \in T : \A y \in T : x <= y
  BY <1>7
<1> QED BY <1>8 DEF Least

\* Two fresh tokens.
LEMMA TwoFresh ==
  ASSUME Cardinality(Fresh) >= 2
  PROVE  Fresh1 \in Fresh /\ Fresh2 \in Fresh /\ Fresh1 # Fresh2
<1>1. Fresh \in SUBSET Nat
  BY AutoAssumption DEF Fresh
<1>2. Fresh # {} /\ \A x : Fresh # {x}
  <2>1. Cardinality({}) = 0 /\ \A x : Cardinality({x}) = 1
    BY FS_EmptySet, FS_Singleton
  <2>2. ASSUME Fresh = {} PROVE FALSE
    BY <2>1, <2>2
  <2>3. ASSUME NEW x, Fresh = {x} PROVE FALSE
    <3>1. Cardinality({x}) = 1
      BY <2>1
    <3>2. Cardinality(Fresh) = 1
      BY <2>3, <3>1
    <3> QED BY <3>2
  <2> QED BY <2>2, <2>3
<1>3. Fresh1 \in Fresh
  BY <1>1, <1>2, LeastNat DEF Fresh1
<1>4. Fresh \ {Fresh1} # {}
  BY <1>2, <1>3
<1>5. Fresh2 \in Fresh \ {Fresh1}
  BY <1>1, <1>4, LeastNat DEF Fresh2
<1> QED BY <1>3, <1>5

-----------------------------------------------------------------------------
(* The runs.                                                                 *)

LEMMA ForcedRetells ==
  ASSUME NEW d, IsDb(d), NEW i \in RunIds, d.runs[i] # None,
         NEW s \in {"queued", "running", "retrying"} \cup Terminal
  PROVE  Retells(d, Forced(d, i, s))
<1> DEFINE r == [d.runs[i] EXCEPT !.state = s,
                                  !.ends = IF s \in Terminal THEN @ + 1 ELSE @]
           e == [d EXCEPT !.runs = [@ EXCEPT ![i] = r]]
<1>1. Forced(d, i, s) = e
  BY DEF Forced, IsDb, Db
<1>2. d \in Db /\ d.runs[i] \in Run /\ (d.row # None => Sound(d.row))
  BY DEF IsDb, Db
<1>3. r \in Run /\ r.fp = d.runs[i].fp
  <2>1. (IF s \in Terminal THEN d.runs[i].ends + 1 ELSE d.runs[i].ends) \in Nat
    BY <1>2 DEF Run
  <2> QED BY <1>2, <2>1 DEF Run
<1> HIDE DEF r
<1>31. r # None
  BY <1>3, AutoAssumption
<1>4. /\ e \in Db /\ e.row = d.row /\ e.id = d.id /\ e.full = d.full /\ e.keys = d.keys
      /\ e.runs = [d.runs EXCEPT ![i] = r]
  BY <1>2, <1>3 DEF Db
<1> HIDE DEF e
<1>5. KeepsRuns(d, e)
  BY <1>2, <1>3, <1>31, <1>4 DEF KeepsRuns, Db
<1> QED BY <1>1, <1>2, <1>4, <1>5 DEF Retells, IsDb

\* Any id may be asked for; one that is no run changes nothing.
LEMMA MovedRetells ==
  ASSUME NEW d, IsDb(d), NEW i \in RunIds \cup {None},
         NEW s \in {"queued", "running", "retrying"} \cup Terminal
  PROVE  Retells(d, Moved(d, i, s))
<1>1. CASE Open(d, i)
  <2>1. i \in RunIds /\ d.runs[i] # None
    BY <1>1 DEF Open
  <2> QED BY <1>1, <2>1, ForcedRetells DEF Moved
<1>2. CASE ~Open(d, i)
  BY <1>2 DEF Moved, Retells, KeepsRuns
<1> QED BY <1>1, <1>2

LEMMA RetellsOn ==
  ASSUME NEW d, NEW e, NEW g, IsDb(d), Retells(d, e), Retells(e, g)
  PROVE  Retells(d, g)
BY DEF Retells, KeepsRuns

LEMMA RetellsSame ==
  ASSUME NEW d, IsDb(d)
  PROVE  Retells(d, d)
BY DEF Retells, KeepsRuns

\* Events do not change what the row says.
LEMMA GoodRetold ==
  ASSUME NEW d, NEW e, Good(d), Retells(d, e)
  PROVE  Good(e)
BY DEF Good, Retells, KeepsRuns, Says, IsRunOf

\* A run is created, or found, that no other row or step can mean.
LEMMA CreatedIsRun ==
  ASSUME NEW d, IsDb(d), NEW f \in Generations
  PROVE  LET e == Created(d, f)
         IN  /\ IsDb(e) /\ e.row = d.row /\ (d.full => e.full)
             /\ ~e.full => /\ IsRunOf(e.runs, e.id, f)
                           /\ \A i \in RunIds : i # e.id => e.runs[i] = d.runs[i]
                           /\ e.id \in Links(d) \cup {d.id} => e.runs = d.runs
<1> DEFINE e == Created(d, f)
<1>0. d \in Db /\ (d.row # None => Sound(d.row))
  BY DEF IsDb
<1>1. CASE SameOpen(d, f) # {}
  <2> DEFINE i == Least(SameOpen(d, f))
  <2>1. SameOpen(d, f) \in SUBSET Nat
    BY AutoAssumption DEF SameOpen
  <2>2. i \in SameOpen(d, f)
    BY <1>1, <2>1, LeastNat
  <2>3. e = [d EXCEPT !.id = i]
    BY <1>1 DEF Created
  <2>4. i \in RunIds /\ d.runs[i] # None /\ d.runs[i].fp = f
    BY <2>2 DEF SameOpen, Open
  <2> HIDE DEF i, e
  <2>5. /\ e \in Db /\ e.row = d.row /\ e.runs = d.runs /\ e.id = i /\ e.full = d.full
    BY <1>0, <2>3, <2>4 DEF Db
  <2> QED BY <1>0, <2>4, <2>5 DEF IsDb, IsRunOf, Alike, e
<1>2. CASE SameOpen(d, f) = {} /\ FreeRuns(d) = {}
  <2>1. e = [d EXCEPT !.full = TRUE]
    BY <1>2 DEF Created
  <2> HIDE DEF e
  <2>2. e \in Db /\ e.row = d.row /\ e.full
    BY <1>0, <2>1 DEF Db
  <2> QED BY <1>0, <2>2 DEF IsDb, e
<1>3. CASE SameOpen(d, f) = {} /\ FreeRuns(d) # {}
  <2> DEFINE i == Least(FreeRuns(d))
             r == [fp |-> f, plain |-> f \notin d.keys, state |-> "queued", ends |-> 0,
                   fails |-> 0]
  <2>1. FreeRuns(d) \in SUBSET Nat
    BY AutoAssumption DEF FreeRuns
  <2>2. i \in FreeRuns(d)
    BY <1>3, <2>1, LeastNat
  <2>3. i \in RunIds /\ i \notin Links(d) \cup {d.id}
    BY <2>2 DEF FreeRuns
  <2>4. r \in Run /\ r.fp = f
    BY AutoAssumption DEF Run
  <2>5. e = CreatedAs(d, f, i)
    BY <1>3 DEF Created
  <2> HIDE DEF i
  <2>6. e = [d EXCEPT !.id = i, !.keys = d.keys \cup {f}, !.runs = [d.runs EXCEPT ![i] = r]]
    BY <1>0, <2>5 DEF CreatedAs, Db
  <2> HIDE DEF r, e
  <2>61. r # None
    BY <2>4, AutoAssumption
  <2>7. /\ e \in Db /\ e.row = d.row /\ e.id = i /\ e.full = d.full
        /\ e.runs = [d.runs EXCEPT ![i] = r]
    BY <1>0, <2>3, <2>4, <2>6 DEF Db
  <2>8. d.runs \in [RunIds -> Run \cup {None}]
    BY <1>0 DEF Db
  <2> QED BY <1>0, <2>3, <2>4, <2>61, <2>7, <2>8 DEF IsDb, IsRunOf, Alike, e
<1> QED BY <1>1, <1>2, <1>3

\* What was said of the runs of the row is still true.
LEMMA CreatedKeeps ==
  ASSUME NEW d, IsDb(d), NEW f \in Generations, ~Created(d, f).full,
         NEW i \in Links(d) \cup {d.id}, NEW g, IsRunOf(d.runs, i, g)
  PROVE  IsRunOf(Created(d, f).runs, i, g)
<1> DEFINE e == Created(d, f)
<1>1. /\ \A j \in RunIds : j # e.id => e.runs[j] = d.runs[j]
      /\ e.id \in Links(d) \cup {d.id} => e.runs = d.runs
  BY CreatedIsRun
<1> HIDE DEF e
<1>2. ~e.full /\ i \in RunIds
  BY DEF e, IsRunOf
<1>3. IsRunOf(e.runs, i, g)
  BY <1>1, <1>2 DEF IsRunOf
<1> QED BY <1>3 DEF e

LEMMA CreatedGood ==
  ASSUME NEW d, Good(d), NEW f \in Generations
  PROVE  Good(Created(d, f))
<1> DEFINE e == Created(d, f)
<1>1. IsDb(d) /\ IsDb(e) /\ e.row = d.row /\ (d.full => e.full)
  BY CreatedIsRun DEF Good
<1> HIDE DEF e
<1>2. CASE e.full
  BY <1>1, <1>2 DEF Good, e
<1>3. CASE d.row = None
  BY <1>1, <1>3 DEF Good, e
<1>4. CASE ~e.full /\ d.row # None
  <2>1. Says(d.row, d.runs) /\ d.row.run \in Links(d) /\ d.row.prun \in Links(d)
    BY <1>1, <1>4 DEF Good, Links
  <2>2. \A i \in Links(d) : \A g : IsRunOf(d.runs, i, g) => IsRunOf(e.runs, i, g)
    BY <1>1, <1>4, CreatedKeeps DEF e
  <2>3. Says(d.row, e.runs)
    BY <2>1, <2>2 DEF Says
  <2> QED BY <1>1, <2>3 DEF Good, e
<1> QED BY <1>2, <1>3, <1>4

-----------------------------------------------------------------------------
(* The row.                                                                  *)

\* A transaction gives the row the columns r.
LEMMA PutRow ==
  ASSUME NEW d, IsDb(d), NEW r, Sound(r), d.full \/ Says(r, d.runs)
  PROVE  LET e == [d EXCEPT !.row = r]
         IN  Good(e) /\ e.row = r /\ e.runs = d.runs /\ e.id = d.id /\ e.full = d.full
<1> DEFINE e == [d EXCEPT !.row = r]
<1>1. d \in Db /\ r \in Row
  BY DEF IsDb, Sound
<1>2. e \in Db /\ e.row = r /\ e.runs = d.runs /\ e.id = d.id /\ e.full = d.full
  BY <1>1 DEF Db
<1> HIDE DEF e
<1>3. Good(e)
  BY <1>2 DEF Good, IsDb
<1> QED BY <1>2, <1>3 DEF e

\* .. or takes the row away.
LEMMA NoRow ==
  ASSUME NEW d, IsDb(d)
  PROVE  LET e == [d EXCEPT !.row = None]
         IN  Good(e) /\ e.row = None /\ e.runs = d.runs /\ e.full = d.full
<1> DEFINE e == [d EXCEPT !.row = None]
<1>1. d \in Db
  BY DEF IsDb
<1>2. e \in Db /\ e.row = None /\ e.runs = d.runs /\ e.full = d.full
  BY <1>1 DEF Db
<1> HIDE DEF e
<1>3. Good(e)
  BY <1>2 DEF Good, IsDb
<1> QED BY <1>2, <1>3 DEF e

LEMMA SoundRun ==
  ASSUME NEW r, Sound(r), NEW i \in RunIds \cup {None}
  PROVE  LET s == [r EXCEPT !.run = i]
         IN  Sound(s) /\ Wants(r, s) /\ s.run = i /\ s.prun = r.prun /\ Guards(r, s)
BY AutoAssumption DEF Sound, Row, Wants, Guards

LEMMA SoundPendingRun ==
  ASSUME NEW r, Sound(r), NEW i \in RunIds \cup {None}
  PROVE  LET s == [r EXCEPT !.prun = i]
         IN  Sound(s) /\ Wants(r, s) /\ s.run = r.run /\ s.prun = i /\ Guards(r, s)
BY AutoAssumption DEF Sound, Row, Wants, Guards

LEMMA ActivatedGood ==
  ASSUME NEW d, IsDb(d), d.row # None,
         d.full \/ IsRunOf(d.runs, d.id, d.row.fp),
         d.full \/ (d.row.prun # None =>
                      \E g \in Generations : /\ IsRunOf(d.runs, d.row.prun, g)
                                             /\ d.row.pend \in {None, g})
  PROVE  LET e == Activated(d)
         IN  /\ Good(e) /\ e.row = [d.row EXCEPT !.run = d.id]
             /\ e.runs = d.runs /\ e.full = d.full
<1> DEFINE r == [d.row EXCEPT !.run = d.id]
<1>1. Sound(d.row) /\ d.id \in RunIds \cup {None} /\ d \in Db
  BY DEF IsDb, Db
<1>2. Sound(r) /\ Wants(d.row, r) /\ r.run = d.id /\ r.prun = d.row.prun
  BY <1>1, SoundRun
<1>3. Activated(d) = [d EXCEPT !.row = r]
  BY <1>1 DEF Activated, Db
<1> HIDE DEF r
<1>4. d.full \/ Says(r, d.runs)
  BY <1>2 DEF Says, Wants
<1>5. LET e == [d EXCEPT !.row = r]
      IN  Good(e) /\ e.row = r /\ e.runs = d.runs /\ e.full = d.full
  BY <1>2, <1>4, PutRow
<1> QED BY <1>2, <1>3, <1>5 DEF r

-----------------------------------------------------------------------------
(* Steps that find or create the run of a generation, and rows that take it.  *)

\* In e a run of generation f has been found; the runs that d links are kept.
Finds(d, e, f) ==
  /\ IsDb(e) /\ e.row = d.row /\ (d.full => e.full)
  /\ ~e.full => /\ IsRunOf(e.runs, e.id, f)
                /\ \A i \in Links(d) : \A g : IsRunOf(d.runs, i, g) => IsRunOf(e.runs, i, g)

LEMMA CreatedFinds ==
  ASSUME NEW d, IsDb(d), NEW f \in Generations
  PROVE  Finds(d, Created(d, f), f)
<1> DEFINE e == Created(d, f)
<1>1. /\ IsDb(e) /\ e.row = d.row /\ (d.full => e.full)
      /\ ~e.full => IsRunOf(e.runs, e.id, f)
  BY CreatedIsRun
<1>2. ASSUME ~e.full, NEW i \in Links(d), NEW g, IsRunOf(d.runs, i, g)
      PROVE  IsRunOf(e.runs, i, g)
  BY <1>2, CreatedKeeps
<1> HIDE DEF e
<1>3. Finds(d, e, f)
  BY <1>1, <1>2 DEF Finds
<1> QED BY <1>3 DEF e

LEMMA RetoldFinds ==
  ASSUME NEW d, NEW e, NEW g, NEW f, Retells(d, e), Finds(e, g, f)
  PROVE  Finds(d, g, f)
<1>1. Links(d) = Links(e)
  BY DEF Retells, Links
<1>2. ASSUME NEW i, NEW h, IsRunOf(d.runs, i, h) PROVE IsRunOf(e.runs, i, h)
  BY <1>2 DEF IsRunOf, Retells, KeepsRuns
<1> QED BY <1>1, <1>2 DEF Finds, Retells

\* A run of the generation is known by its id.
LEMMA KnownFinds ==
  ASSUME NEW d, NEW e, NEW f, IsDb(d), Retells(d, e), NEW i, IsRunOf(d.runs, i, f)
  PROVE  Finds(d, [e EXCEPT !.id = i], f)
<1> DEFINE g == [e EXCEPT !.id = i]
<1>1. IsDb(e) /\ e \in Db /\ i \in RunIds
  BY DEF Retells, IsDb, IsRunOf
<1>2. g \in Db /\ g.row = e.row /\ g.runs = e.runs /\ g.id = i /\ g.full = e.full
  BY <1>1 DEF Db
<1> HIDE DEF g
<1>3. ASSUME NEW j, NEW h, IsRunOf(d.runs, j, h) PROVE IsRunOf(g.runs, j, h)
  BY <1>2, <1>3 DEF IsRunOf, Retells, KeepsRuns
<1>4. Finds(d, g, f)
  BY <1>1, <1>2, <1>3 DEF Finds, IsDb, Retells
<1> QED BY <1>4 DEF g

\* The row takes the run that was found.
LEMMA FoundGood ==
  ASSUME NEW d, NEW e, NEW f, Good(d), Finds(d, e, f),
         NEW r, Sound(r), r.run = e.id, r.fp = f,
         r.prun # None =>
           /\ d.row # None /\ r.pend \in {d.row.pend, None}
           /\ r.prun = d.row.prun
  PROVE  LET g == [e EXCEPT !.row = r]
         IN  Good(g) /\ g.row = r /\ g.runs = e.runs /\ g.id = e.id /\ g.full = e.full
<1>1. ASSUME ~e.full, r.prun # None
      PROVE  \E g \in Generations : IsRunOf(e.runs, r.prun, g) /\ r.pend \in {None, g}
  <2>1. /\ d.row # None /\ r.prun \in Links(d) /\ ~d.full
        /\ \E g \in Generations : IsRunOf(d.runs, r.prun, g) /\ r.pend \in {None, g}
    BY <1>1 DEF Good, Finds, Says, Links
  <2> QED BY <1>1, <2>1 DEF Finds
<1>2. e.full \/ Says(r, e.runs)
  BY <1>1 DEF Finds, Says
<1>3. IsDb(e)
  BY DEF Finds
<1> QED BY <1>2, <1>3, PutRow

-----------------------------------------------------------------------------
(* The transactions.                                                         *)

LEMMA EnsuredRunGood ==
  ASSUME NEW d, Good(d), d.row # None
  PROVE  LET e == EnsuredRun(d)
         IN  Good(e) /\ Wants(d.row, e.row) /\ Guards(d.row, e.row)
<1> DEFINE c == Created(d, d.row.fp)
<1>1. Sound(d.row) /\ d.row \in Row /\ IsDb(d) /\ d.row.fp \in Generations
  BY DEF Good, IsDb, Sound, Row
<1>2. Finds(d, c, d.row.fp)
  BY <1>1, CreatedFinds
<1> HIDE DEF c
<1>3. c \in Db /\ c.row = d.row /\ c.id \in RunIds \cup {None}
  BY <1>2 DEF Finds, IsDb, Db
<1> DEFINE r == [d.row EXCEPT !.run = c.id]
<1>4. Sound(r) /\ Wants(d.row, r) /\ r.run = c.id /\ r.prun = d.row.prun
      /\ Guards(d.row, r)
  BY <1>1, <1>3, SoundRun
<1>5. Activated(c) = [c EXCEPT !.row = r]
  BY <1>3 DEF Activated, Db
<1> HIDE DEF r
<1>6. LET e == [c EXCEPT !.row = r] IN Good(e) /\ e.row = r
  BY <1>1, <1>2, <1>4, FoundGood DEF Wants
<1> QED BY <1>4, <1>5, <1>6 DEF EnsuredRun, c, Wants, Guards

LEMMA EnsuredPendingGood ==
  ASSUME NEW d, Good(d), d.row # None
  PROVE  LET e == EnsuredPending(d)
         IN  Good(e) /\ Wants(d.row, e.row) /\ Guards(d.row, e.row)
<1>1. Sound(d.row) /\ d.row \in Row /\ IsDb(d) /\ d \in Db
  BY DEF Good, IsDb, Sound
<1>2. CASE EnsuredPending(d) = d
  BY <1>2 DEF Wants, Guards
<1>3. CASE EnsuredPending(d) # d
  <2> DEFINE f == d.row.pend
             c == Created(d, f)
  <2>1. f # None /\ EnsuredPending(d) = Pended(c) /\ f \in Generations
    BY <1>1, <1>3 DEF EnsuredPending, Row
  <2>2. Finds(d, c, f)
    BY <1>1, <2>1, CreatedFinds
  <2> HIDE DEF c, f
  <2>3. c \in Db /\ c.row = d.row /\ c.id \in RunIds \cup {None} /\ IsDb(c)
    BY <2>2 DEF Finds, IsDb, Db
  <2> DEFINE r == [d.row EXCEPT !.prun = c.id]
  <2>4. Sound(r) /\ Wants(d.row, r) /\ r.run = d.row.run /\ r.prun = c.id
        /\ Guards(d.row, r)
    BY <1>1, <2>3, SoundPendingRun
  <2>5. Pended(c) = [c EXCEPT !.row = r]
    BY <2>3 DEF Pended, Db
  <2> HIDE DEF r
  <2>6. c.full \/ Says(r, c.runs)
    <3>1. ASSUME ~c.full
          PROVE  /\ IsRunOf(c.runs, c.id, f)
                 /\ IsRunOf(c.runs, d.row.run, d.row.fp)
      <4>1. ~d.full /\ Says(d.row, d.runs) /\ d.row.run \in Links(d)
        BY <3>1, <2>2 DEF Finds, Good, Links
      <4> QED BY <3>1, <4>1, <2>2 DEF Finds, Says
    <3>2. f \in Generations /\ r.prun = c.id /\ r.pend = f /\ r.run = d.row.run
          /\ r.fp = d.row.fp
      BY <2>1, <2>4 DEF f, Wants
    <3> QED BY <3>1, <3>2 DEF Says
  <2>7. LET e == [c EXCEPT !.row = r] IN Good(e) /\ e.row = r
    BY <2>3, <2>4, <2>6, PutRow
  <2> QED BY <2>1, <2>4, <2>5, <2>7
<1> QED BY <1>2, <1>3

LEMMA EnsuredGood ==
  ASSUME NEW d, Good(d)
  PROVE  LET e == Ensured(d)
         IN  /\ Good(e)
             /\ (e.row = None) = (d.row = None)
             /\ d.row # None => Wants(d.row, e.row) /\ Guards(d.row, e.row)
<1>1. CASE d.row = None
  BY <1>1 DEF Ensured
<1>2. CASE d.row # None
  BY <1>2, EnsuredRunGood, EnsuredPendingGood DEF Ensured, Wants, Guards
<1> QED BY <1>1, <1>2

LEMMA DeletedGood ==
  ASSUME NEW d, Good(d), d.row # None, NEW succeeded \in BOOLEAN
  PROVE  LET e == Deleted(d, succeeded)
         IN  Good(e) /\ e.row = None
<1> DEFINE s == IF succeeded THEN "succeeded" ELSE "failed"
           b == Moved(d, d.row.run, s)
           c == DroppedPending(b)
<1>1. IsDb(d) /\ d.row.run \in RunIds \cup {None} /\ d.row.prun \in RunIds \cup {None}
  BY DEF Good, IsDb, Sound, Row
<1>2. Retells(d, b)
  BY <1>1, MovedRetells DEF Terminal
<1>3. Deleted(d, succeeded) = [c EXCEPT !.row = None]
  BY DEF Deleted
<1> HIDE DEF b
<1>4. IsDb(b) /\ b.row = d.row
  BY <1>2 DEF Retells
<1>5. Retells(b, c)
  BY <1>1, <1>4, MovedRetells, RetellsSame DEF DroppedPending, Dropped, Terminal
<1> HIDE DEF c
<1>6. IsDb(c)
  BY <1>5 DEF Retells
<1> QED BY <1>3, <1>6, NoRow

\* A request of one's own, for the run that was found.
LEMMA RequestSound ==
  ASSUME NEW owner \in Tokens, NEW dog \in Tokens, NEW f \in Generations,
         NEW pre \in Histories, NEW i \in RunIds \cup {None},
         NEW r, \E live \in BOOLEAN : r = Request(owner, live, dog, f, pre, i)
  PROVE  /\ Sound(r) /\ r # None /\ r.run = i /\ r.fp = f /\ r.pend = None
         /\ r.prun = None /\ r.token = owner /\ r.status = None
         /\ r.watcher = dog /\ r.wlive
<1>0. PICK live \in BOOLEAN : r = Request(owner, live, dog, f, pre, i)
  OBVIOUS
<1>1. r \in Row
  BY <1>0, AutoAssumption DEF Request, Row
<1>2. /\ r.run = i /\ r.fp = f /\ r.pend = None /\ r.ppre = None /\ r.cont = None
      /\ r.cpred = None /\ r.prun = None /\ r.token = owner /\ r.status = None /\ r.tries = 0
      /\ r.watcher = dog /\ r.wlive
  BY <1>0 DEF Request
<1>3. Sound(r) /\ r # None
  BY <1>1, <1>2, AutoAssumption DEF Sound
<1> QED BY <1>2, <1>3

LEMMA NewRequestGood ==
  ASSUME NEW d, Good(d), NEW f \in Generations, NEW pre \in Histories,
         NEW owner \in Tokens, NEW dog \in Tokens, NEW r,
         \E live \in BOOLEAN : r = Request(owner, live, dog, f, pre, Created(d, f).id)
  PROVE  LET e == [Created(d, f) EXCEPT !.row = r]
         IN  Good(e) /\ e.row = r /\ r # None /\ r.status = None /\ r.watcher = dog /\ r.wlive
<1> DEFINE c == Created(d, f)
<1>1. Finds(d, c, f)
  BY CreatedFinds DEF Good
<1> HIDE DEF c
<1>2. c.id \in RunIds \cup {None}
  BY <1>1 DEF Finds, IsDb, Db
<1>3. \E live \in BOOLEAN : r = Request(owner, live, dog, f, pre, c.id)
  BY DEF c
<1>4. /\ Sound(r) /\ r # None /\ r.run = c.id /\ r.fp = f /\ r.pend = None
      /\ r.prun = None /\ r.status = None /\ r.watcher = dog /\ r.wlive
  BY <1>2, <1>3, RequestSound
<1>5. LET e == [c EXCEPT !.row = r] IN Good(e) /\ e.row = r
  BY <1>1, <1>4, FoundGood
<1> QED BY <1>4, <1>5 DEF c

\* The columns that watchdogs leave alone.
Same(r, s) == Wants(r, s) /\ s.run = r.run /\ s.prun = r.prun

LEMMA WatchesSound ==
  ASSUME NEW r, Sound(r), NEW dog \in Tokens
  PROVE  /\ Sound(Watches(r, dog)) /\ Same(r, Watches(r, dog))
         /\ Watches(r, dog).watcher \in {r.watcher, dog}
         /\ HasWatcher(r) => Guards(r, Watches(r, dog))
<1>1. r \in Row /\ dog # None
  BY AutoAssumption DEF Sound
<1>2. CASE Roles(r) = {"contender"}
  <2> DEFINE s == [r EXCEPT !.cont = dog, !.cpred = r.watcher, !.clive = TRUE]
  <2>1. HasWatcher(r) /\ Watches(r, dog) = s
    <3>1. {"contender"} # {"watchdog", "owner"} /\ {"contender"} # {"watchdog"}
      OBVIOUS
    <3> QED BY <1>2, <3>1 DEF Roles, Watches
  <2>2. s \in Row
    BY <1>1 DEF Row
  <2>3. Sound(s)
    BY <1>1, <2>1, <2>2 DEF Sound, HasWatcher, Row
  <2>4. s.watcher = r.watcher /\ s.wlive = r.wlive
    BY <1>1 DEF Row
  <2> QED BY <1>1, <2>1, <2>2, <2>3, <2>4, AutoAssumption DEF Same, Wants, Row, Guards
<1>3. CASE Roles(r) = {"watchdog"}
  <2> DEFINE s == [NoContender(r) EXCEPT !.watcher = dog, !.wlive = TRUE]
  <2>1. Watches(r, dog) = s
    <3>1. {"contender"} # {"watchdog"}
      OBVIOUS
    <3> QED BY <1>3, <3>1 DEF Watches
  <2>2. s \in Row
    BY <1>1 DEF Row, NoContender
  <2>3. Sound(s)
    BY <1>1, <2>2 DEF Sound, NoContender, Row
  <2>4. s.watcher = dog
    BY <1>1 DEF Row, NoContender
  <2>5. ~HasWatcher(r)
    <3>1. "watchdog" \in Roles(r)
      BY <1>3
    <3>2. "watchdog" # "contender" /\ r # None
      BY <1>1, AutoAssumption
    <3> QED BY <3>1, <3>2 DEF Roles
  <2> QED BY <1>1, <2>1, <2>2, <2>3, <2>4, <2>5, AutoAssumption DEF Same, Wants, Row, NoContender
<1>4. CASE Roles(r) # {"contender"} /\ Roles(r) # {"watchdog"}
  <2>1. Watches(r, dog) = r
    BY <1>4 DEF Watches
  <2> QED BY <1>1, <2>1, AutoAssumption DEF Same, Wants, Guards
<1> QED BY <1>2, <1>3, <1>4

LEMMA WithWatcherGood ==
  ASSUME NEW d, Good(d), d.row # None, NEW dog \in Tokens
  PROVE  LET e == WithWatcher(d, dog)
         IN  /\ Good(e) /\ Same(d.row, e.row)
             /\ e.row.watcher \in {d.row.watcher, dog}
             /\ HasWatcher(d.row) => Guards(d.row, e.row)
<1> DEFINE r == Watches(d.row, dog)
<1>1. IsDb(d) /\ Sound(r) /\ Same(d.row, r)
      /\ r.watcher \in {d.row.watcher, dog} /\ (HasWatcher(d.row) => Guards(d.row, r))
  BY WatchesSound DEF Good, IsDb
<1> HIDE DEF r
<1>2. d.full \/ Says(r, d.runs)
  BY <1>1 DEF Good, Says, Same, Wants
<1>3. LET e == [d EXCEPT !.row = r] IN Good(e) /\ e.row = r
  BY <1>1, <1>2, PutRow
<1> QED BY <1>1, <1>3 DEF WithWatcher, r

\* The run of generation f has been found in d, from c on: it becomes the pending one.
LEMMA AskedGood ==
  ASSUME NEW c, Good(c), c.row # None, NEW f \in Generations, NEW pre \in Histories,
         NEW d, Finds(c, d, f)
  PROVE  LET e == Asked(d, f, pre)
         IN  /\ Good(e) /\ e.row # None
             /\ e.row.token = c.row.token /\ e.row.status = c.row.status
             /\ e.row.fp = c.row.fp /\ e.row.pre = c.row.pre
             /\ e.row.pend = f /\ e.row.ppre = pre /\ Guards(c.row, e.row)
<1> DEFINE b == IF d.row.prun \in {None, d.id} THEN d ELSE Dropped(d, d.row.prun)
           r == [d.row EXCEPT !.pend = f, !.ppre = pre, !.prun = d.id]
<1>1. IsDb(d) /\ d.row = c.row /\ d.id \in RunIds \cup {None} /\ Sound(d.row) /\ d.row \in Row
  BY DEF Finds, IsDb, Db, Sound
<1>2. Retells(d, b)
  BY <1>1, MovedRetells, RetellsSame DEF Dropped, Terminal, Row
<1> HIDE DEF b
<1>3. IsDb(b) /\ b \in Db /\ b.row = d.row /\ b.id = d.id
  BY <1>2 DEF Retells, IsDb
<1>4. Asked(d, f, pre) = [b EXCEPT !.row = r]
  <2>1. Asked(d, f, pre) = [b EXCEPT !.row.pend = f, !.row.ppre = pre, !.row.prun = d.id]
    BY DEF Asked, b
  <2> QED BY <1>3, <2>1 DEF Db
<1>5. r \in Row /\ pre # None /\ f # None
  BY <1>1, AutoAssumption DEF Row
<1>6. /\ Sound(r) /\ r # None /\ r.run = d.row.run /\ r.fp = d.row.fp /\ r.pend = f
      /\ r.prun = d.id /\ r.token = d.row.token /\ r.status = d.row.status
      /\ r.pre = d.row.pre /\ r.ppre = pre
      /\ r.watcher = d.row.watcher /\ r.wlive = d.row.wlive
  BY <1>1, <1>5, AutoAssumption DEF Sound, Row
<1> HIDE DEF r
<1>7. b.full \/ Says(r, b.runs)
  <2>1. ASSUME ~d.full
        PROVE  IsRunOf(d.runs, d.id, f) /\ IsRunOf(d.runs, c.row.run, c.row.fp)
    <3>1. ~c.full /\ Says(c.row, c.runs) /\ c.row.run \in Links(c)
      BY <2>1 DEF Finds, Good, Links
    <3> QED BY <2>1, <3>1 DEF Finds, Says
  <2> QED BY <1>1, <1>2, <1>6, <2>1 DEF Retells, KeepsRuns, Says, IsRunOf
<1>8. LET e == [b EXCEPT !.row = r] IN Good(e) /\ e.row = r
  BY <1>3, <1>6, <1>7, PutRow
<1> QED BY <1>1, <1>4, <1>6, <1>8 DEF Guards

LEMMA RegisteredGood ==
  ASSUME NEW d, Good(d), d.row # None => d.row.status # "failed",
         NEW f \in Generations, NEW pre \in Histories, NEW owner \in Tokens, NEW dog \in Tokens
  PROVE  LET e == Registered(d, f, pre, owner, dog)
         IN  /\ Good(e) /\ e.row # None /\ e.row.status # "failed"
             /\ d.row = None =>
                  e.row.token = owner /\ e.row.fp = f /\ e.row.pre = pre /\ e.row.pend = None
                  /\ e.row.watcher = dog
             /\ d.row # None =>
                  /\ e.row.token = d.row.token /\ e.row.fp = d.row.fp /\ e.row.pre = d.row.pre
                  /\ e.row.pend = f /\ e.row.ppre = pre
                  /\ e.row.watcher \in {d.row.watcher, dog}
                  /\ HasWatcher(d.row) => Guards(d.row, e.row)
<1>1. CASE d.row = None
  <2> DEFINE c == Created(d, f)
             r == Request(owner, TRUE, dog, f, pre, c.id)
             e == [c EXCEPT !.row = r]
  <2>0. r.token = owner /\ r.fp = f /\ r.pre = pre /\ r.pend = None
        /\ r.watcher = dog
    BY DEF Request
  <2>1. Good(e) /\ e.row = r /\ r # None /\ r.status = None
    <3>1. \E live \in BOOLEAN : r = Request(owner, live, dog, f, pre, c.id)
      <4> WITNESS TRUE \in BOOLEAN
      <4> QED OBVIOUS
    <3> HIDE DEF r
    <3> QED BY <3>1, NewRequestGood
  <2>2. Registered(d, f, pre, owner, dog) = e
    BY <1>1 DEF Registered, NewRequest
  <2> HIDE DEF e, r
  <2> QED BY <1>1, <2>0, <2>1, <2>2, AutoAssumption
<1>2. CASE d.row # None
  <2> DEFINE c == IF Alike(d.row.fp, f) THEN [d EXCEPT !.id = d.row.run] ELSE Created(d, f)
             a == Asked(c, f, pre)
  <2>1. Finds(d, c, f)
    <3>1. CASE ~Alike(d.row.fp, f)
      BY <3>1, CreatedFinds DEF Good
    <3>2. CASE Alike(d.row.fp, f) /\ ~d.full
      <4>1. IsRunOf(d.runs, d.row.run, d.row.fp) /\ IsDb(d)
        BY <1>2, <3>2 DEF Good, Says
      <4>2. IsRunOf(d.runs, d.row.run, f)
        BY <3>2, <4>1, RunOfAlike
      <4> QED BY <3>2, <4>1, <4>2, KnownFinds, RetellsSame
    <3>3. CASE Alike(d.row.fp, f) /\ d.full
      <4>1. d \in Db /\ d.row.run \in RunIds \cup {None} /\ Sound(d.row)
        BY <1>2 DEF Good, IsDb, Sound, Row
      <4> DEFINE e == [d EXCEPT !.id = d.row.run]
      <4>2. e \in Db /\ e.row = d.row /\ e.full
        BY <3>3, <4>1 DEF Db
      <4> HIDE DEF e
      <4>3. Finds(d, e, f)
        BY <3>3, <4>1, <4>2 DEF Finds, IsDb
      <4> QED BY <3>3, <4>3 DEF e
    <3> QED BY <3>1, <3>2, <3>3 DEF Db
  <2> HIDE DEF c
  <2>2. /\ Good(a) /\ a.row # None /\ a.row.status = d.row.status
        /\ a.row.token = d.row.token /\ a.row.fp = d.row.fp /\ a.row.pre = d.row.pre
        /\ a.row.pend = f /\ a.row.ppre = pre /\ Guards(d.row, a.row)
    BY <1>2, <2>1, AskedGood
  <2>3. Registered(d, f, pre, owner, dog) = WithWatcher(a, dog)
    BY <1>2 DEF Registered, c
  <2> HIDE DEF a
  <2>4. HasWatcher(d.row) => HasWatcher(a.row)
    BY <2>2 DEF Guards, HasWatcher
  <2> DEFINE w == WithWatcher(a, dog)
  <2>5. /\ Good(w) /\ Same(a.row, w.row) /\ w.row.watcher \in {a.row.watcher, dog}
        /\ HasWatcher(a.row) => Guards(a.row, w.row)
    BY <2>2, WithWatcherGood
  <2> HIDE DEF w
  <2>6. HasWatcher(d.row) => Guards(d.row, w.row)
    BY <2>2, <2>4, <2>5 DEF Guards
  <2>7. w.row.watcher \in {d.row.watcher, dog}
    BY <2>2, <2>5 DEF Guards
  <2> QED BY <1>2, <2>2, <2>3, <2>5, <2>6, <2>7 DEF Same, Wants, w
<1> QED BY <1>1, <1>2

LEMMA SchedulingGood ==
  ASSUME Good(DB)
  PROVE  Good(Scheduling) /\ (Scheduling.row # None => Scheduling.row.status # "failed")
<1>1. DB.row = row
  BY DEF DB
<1>2. CASE row # None /\ row.status = "failed"
  BY <1>1, <1>2, DeletedGood DEF Scheduling
<1>3. CASE ~(row # None /\ row.status = "failed")
  BY <1>1, <1>3, EnsuredGood DEF Scheduling, Wants
<1> QED BY <1>2, <1>3

LEMMA DiscardedRetells ==
  ASSUME NEW d, NEW e, Retells(d, e), IsDb(d), NEW i \in RunIds \cup {None}
  PROVE  Retells(d, Discarded(e, d, i))
<1>1. IsDb(e)
  BY DEF Retells
<1>2. CASE Open(d, i)
  <2>1. i \in RunIds /\ e.runs[i] # None
    BY <1>2 DEF Open, Retells, KeepsRuns
  <2> DEFINE g == Forced(e, i, "failed")
  <2>2. Retells(e, g)
    BY <1>1, <2>1, ForcedRetells DEF Terminal
  <2>3. Discarded(e, d, i) = g
    BY <1>2 DEF Discarded
  <2> HIDE DEF g
  <2> QED BY <2>2, <2>3, RetellsOn
<1>3. CASE ~Open(d, i)
  BY <1>3 DEF Discarded
<1> QED BY <1>2, <1>3

LEMMA SupersededFinds ==
  ASSUME NEW d, Good(d), d.row # None, NEW f \in Generations
  PROVE  Finds(d, Superseded(d, f), f)
<1>1. IsDb(d) /\ d.row.run \in RunIds \cup {None} /\ d.row.prun \in RunIds \cup {None}
  BY DEF Good, IsDb, Sound, Row
<1> DEFINE b == Discarded(d, d, d.row.run)
           c == Discarded(b, d, d.row.prun)
<1>2. Retells(d, b)
  BY <1>1, RetellsSame, DiscardedRetells
<1> HIDE DEF b
<1>3. CASE Reused(d, f)
  <2>1. IsRunOf(d.runs, d.row.prun, f)
    BY <1>1, <1>3 DEF Reused, Open, Matches, IsRunOf, Alike
  <2>2. Superseded(d, f) = [b EXCEPT !.id = d.row.prun]
    BY <1>3 DEF Superseded, b
  <2> DEFINE i == d.row.prun
  <2> HIDE DEF i
  <2>3. Finds(d, [b EXCEPT !.id = i], f)
    BY <1>1, <1>2, <2>1, KnownFinds DEF i
  <2> QED BY <2>2, <2>3 DEF i
<1>4. CASE ~Reused(d, f)
  <2>1. Retells(d, c)
    BY <1>1, <1>2, DiscardedRetells
  <2>2. Superseded(d, f) = Created(c, f)
    BY <1>4 DEF Superseded, b
  <2> HIDE DEF c
  <2>3. Finds(c, Created(c, f), f)
    BY <2>1, CreatedFinds DEF Retells
  <2> QED BY <2>1, <2>2, <2>3, RetoldFinds
<1> QED BY <1>3, <1>4

-----------------------------------------------------------------------------
(* Which status runs succeed.                                                *)

\* From d to e no run has succeeded but those of W.
Succeeds(d, e, W) ==
  \A i \in RunIds :
    d.runs[i] # None =>
      /\ e.runs[i] # None
      /\ e.runs[i].state = "succeeded" => i \in W \/ d.runs[i].state = "succeeded"

LEMMA SucceedsOn ==
  ASSUME NEW d, NEW e, NEW g, NEW W, Succeeds(d, e, W), Succeeds(e, g, W)
  PROVE  Succeeds(d, g, W)
BY DEF Succeeds

LEMMA SucceedsSame ==
  ASSUME NEW d, NEW e, NEW W, e.runs = d.runs
  PROVE  Succeeds(d, e, W)
BY DEF Succeeds

LEMMA ForcedSucceeds ==
  ASSUME NEW d, IsDb(d), NEW i \in RunIds, d.runs[i] # None, NEW W,
         NEW s \in {"queued", "running", "retrying"} \cup Terminal,
         s # "succeeded" \/ i \in W
  PROVE  Succeeds(d, Forced(d, i, s), W)
<1> DEFINE e == Forced(d, i, s)
<1>1. d \in Db /\ d.runs[i] \in Run
  BY DEF IsDb, Db
<1>2. e.runs[i].state = s
  BY <1>1 DEF Forced, Db, Run
<1>3. \A j \in RunIds : j # i => e.runs[j] = d.runs[j]
  BY <1>1 DEF Forced, Db
<1>4. \A j \in RunIds : d.runs[j] # None => e.runs[j] # None
  BY ForcedRetells DEF Retells, KeepsRuns
<1> HIDE DEF e
<1>5. Succeeds(d, e, W)
  BY <1>2, <1>3, <1>4 DEF Succeeds
<1> QED BY <1>5 DEF e

LEMMA MovedSucceeds ==
  ASSUME NEW d, IsDb(d), NEW i \in RunIds \cup {None}, NEW W,
         NEW s \in {"queued", "running", "retrying"} \cup Terminal,
         s # "succeeded" \/ i \in W
  PROVE  Succeeds(d, Moved(d, i, s), W)
<1>1. CASE Open(d, i)
  <2>1. i \in RunIds /\ d.runs[i] # None
    BY <1>1 DEF Open
  <2> QED BY <1>1, <2>1, ForcedSucceeds DEF Moved
<1>2. CASE ~Open(d, i)
  BY <1>2, SucceedsSame DEF Moved
<1> QED BY <1>1, <1>2

LEMMA CreatedSucceeds ==
  ASSUME NEW d, IsDb(d), NEW f \in Generations, NEW W
  PROVE  Succeeds(d, Created(d, f), W)
<1> DEFINE e == Created(d, f)
<1>1. d \in Db
  BY DEF IsDb
<1>2. CASE SameOpen(d, f) # {} \/ FreeRuns(d) = {}
  <2>1. \/ e = [d EXCEPT !.id = Least(SameOpen(d, f))]
        \/ e = [d EXCEPT !.full = TRUE]
    BY <1>2 DEF Created
  <2> HIDE DEF e
  <2>2. e.runs = d.runs
    BY <1>1, <2>1 DEF Db
  <2> QED BY <2>2, SucceedsSame DEF e
<1>3. CASE SameOpen(d, f) = {} /\ FreeRuns(d) # {}
  <2> DEFINE i == Least(FreeRuns(d))
             r == [fp |-> f, plain |-> f \notin d.keys, state |-> "queued", ends |-> 0,
                   fails |-> 0]
  <2>1. e = CreatedAs(d, f, i)
    BY <1>3 DEF Created
  <2> HIDE DEF i
  <2>2. e.runs = [d.runs EXCEPT ![i] = r]
    BY <1>1, <2>1 DEF CreatedAs, Db
  <2>3. r \in Run /\ r.state = "queued"
    BY AutoAssumption DEF Run
  <2>4. r # None
    BY <2>3, AutoAssumption
  <2> HIDE DEF e, r
  <2>5. Succeeds(d, e, W)
    BY <1>1, <2>2, <2>3, <2>4 DEF Succeeds, Db
  <2> QED BY <2>5 DEF e
<1> QED BY <1>2, <1>3

LEMMA EnsuredSucceeds ==
  ASSUME NEW d, Good(d), NEW W
  PROVE  Succeeds(d, Ensured(d), W)
<1>1. ASSUME NEW b, Good(b), b.row # None
      PROVE  Succeeds(b, EnsuredRun(b), W) /\ Succeeds(b, EnsuredPending(b), W)
  <2>1. IsDb(b) /\ b.row.fp \in Generations /\ b.row.pend \in Generations \cup {None}
    BY <1>1 DEF Good, IsDb, Sound, Row
  <2>2. ASSUME NEW f \in Generations
        PROVE  Succeeds(b, Activated(Created(b, f)), W) /\ Succeeds(b, Pended(Created(b, f)), W)
    <3> DEFINE c == Created(b, f)
    <3>1. IsDb(c) /\ Succeeds(b, c, W)
      BY <2>1, CreatedIsRun, CreatedSucceeds
    <3> HIDE DEF c
    <3>2. c \in Db
      BY <3>1 DEF IsDb
    <3>3. Activated(c).runs = c.runs /\ Pended(c).runs = c.runs
      BY <3>2 DEF Activated, Pended, Db
    <3> QED BY <3>1, <3>3 DEF Succeeds, c
  <2> QED BY <2>1, <2>2, SucceedsSame DEF EnsuredRun, EnsuredPending
<1>2. CASE d.row = None
  BY <1>2, SucceedsSame DEF Ensured
<1>3. CASE d.row # None
  <2> DEFINE e == EnsuredRun(d)
  <2>1. Good(e) /\ e.row # None
    BY <1>3, EnsuredRunGood DEF Wants
  <2>2. Succeeds(d, e, W)
    BY <1>1, <1>3
  <2> HIDE DEF e
  <2>3. Succeeds(e, EnsuredPending(e), W)
    BY <1>1, <2>1
  <2> QED BY <1>3, <2>2, <2>3, SucceedsOn DEF Ensured, e
<1> QED BY <1>2, <1>3

LEMMA DeletedSucceeds ==
  ASSUME NEW d, Good(d), d.row # None, NEW succeeded \in BOOLEAN, NEW W,
         succeeded => d.row.run \in W
  PROVE  Succeeds(d, Deleted(d, succeeded), W)
<1> DEFINE s == IF succeeded THEN "succeeded" ELSE "failed"
           b == Moved(d, d.row.run, s)
           c == DroppedPending(b)
<1>1. IsDb(d) /\ d.row.run \in RunIds \cup {None} /\ d.row.prun \in RunIds \cup {None}
  BY DEF Good, IsDb, Sound, Row
<1>2. Retells(d, b)
  BY <1>1, MovedRetells DEF Terminal
<1>3. Succeeds(d, b, W)
  <2>1. s \in {"queued", "running", "retrying"} \cup Terminal /\ (s # "succeeded" \/ d.row.run \in W)
    BY DEF Terminal
  <2> HIDE DEF s
  <2> QED BY <1>1, <2>1, MovedSucceeds
<1>4. Deleted(d, succeeded) = [c EXCEPT !.row = None]
  BY DEF Deleted
<1> HIDE DEF b
<1>5. IsDb(b) /\ b.row = d.row
  BY <1>2 DEF Retells
<1>6. IsDb(c) /\ Succeeds(b, c, W)
  <2>1. CASE c = b
    BY <1>5, <2>1, SucceedsSame
  <2>2. CASE c = Moved(b, d.row.prun, "failed")
    BY <1>1, <1>5, <2>2, MovedRetells, MovedSucceeds DEF Retells, Terminal
  <2> QED BY <1>5, <2>1, <2>2 DEF DroppedPending, Dropped
<1> HIDE DEF c
<1>7. Succeeds(d, c, W)
  BY <1>3, <1>6, SucceedsOn
<1> DEFINE e == [c EXCEPT !.row = None]
<1>8. e.runs = c.runs
  BY <1>6, NoRow
<1> HIDE DEF e
<1>9. Succeeds(d, e, W)
  BY <1>7, <1>8 DEF Succeeds
<1> QED BY <1>4, <1>9 DEF e

\* The runs of e are those of d but for the ones of W that succeeded.
LEMMA SucceedsInto ==
  ASSUME NEW d, NEW e, NEW g, NEW W, Succeeds(d, e, W), g.runs = e.runs
  PROVE  Succeeds(d, g, W)
BY DEF Succeeds

LEMMA RegisteredSucceeds ==
  ASSUME NEW d, Good(d), NEW f \in Generations, NEW pre \in Histories,
         NEW owner \in Tokens, NEW dog \in Tokens, NEW W
  PROVE  Succeeds(d, Registered(d, f, pre, owner, dog), W)
<1>1. IsDb(d) /\ d \in Db
  BY DEF Good, IsDb
<1> DEFINE c == Created(d, f)
<1>2. IsDb(c) /\ c \in Db /\ Succeeds(d, c, W) /\ c.row = d.row
  BY <1>1, CreatedIsRun, CreatedSucceeds DEF IsDb
<1> HIDE DEF c
<1>3. CASE d.row = None
  <2> DEFINE r == Request(owner, TRUE, dog, f, pre, c.id)
             e == [c EXCEPT !.row = r]
  <2>1. Registered(d, f, pre, owner, dog) = e
    BY <1>3 DEF Registered, NewRequest, c
  <2> HIDE DEF r
  <2>2. e.runs = c.runs
    BY <1>2 DEF Db
  <2> HIDE DEF e
  <2> QED BY <1>2, <2>1, <2>2, SucceedsInto
<1>4. CASE d.row # None
  <2> DEFINE b == IF Alike(d.row.fp, f) THEN [d EXCEPT !.id = d.row.run] ELSE c
             g == IF b.row.prun \in {None, b.id} THEN b ELSE Dropped(b, b.row.prun)
             r == Asked(b, f, pre)
             e == WithWatcher(r, dog)
  <2>1. Registered(d, f, pre, owner, dog) = e
    BY <1>4 DEF Registered, c
  <2>2. b \in Db /\ IsDb(b) /\ Succeeds(d, b, W)
    <3> DEFINE x == [d EXCEPT !.id = d.row.run]
    <3>1. Sound(d.row)
      BY <1>1, <1>4 DEF IsDb
    <3>2. x \in Db /\ x.row = d.row /\ x.runs = d.runs
      BY <1>1, <3>1 DEF Db, Sound, Row
    <3> HIDE DEF x
    <3>3. IsDb(x) /\ Succeeds(d, x, W)
      BY <3>1, <3>2, SucceedsSame DEF IsDb
    <3> QED BY <1>2, <3>2, <3>3 DEF x
  <2>3. b.row # None /\ Sound(b.row) /\ b.row.prun \in RunIds \cup {None}
    <3>1. b.row = d.row
      BY <1>1, <1>2 DEF Db
    <3> QED BY <1>1, <1>4, <3>1 DEF IsDb, Sound, Row
  <2> HIDE DEF b
  <2>4. g \in Db /\ Succeeds(b, g, W)
    <3>1. CASE g = b
      BY <2>2, <3>1, SucceedsSame
    <3>2. CASE g = Moved(b, b.row.prun, "failed")
      BY <2>2, <2>3, <3>2, MovedRetells, MovedSucceeds DEF Retells, Terminal, IsDb
    <3> QED BY <3>1, <3>2 DEF Dropped
  <2>5. r = [g EXCEPT !.row.pend = f, !.row.ppre = pre, !.row.prun = b.id]
    BY DEF Asked
  <2> HIDE DEF g, r
  <2>6. r.runs = g.runs /\ e.runs = r.runs
    <3>1. r.runs = g.runs /\ r = [r EXCEPT !.row = r.row] /\ r = [row |-> r.row, runs |-> g.runs, keys |-> g.keys, id |-> g.id, full |-> g.full]
      BY <2>4, <2>5 DEF Db
    <3> QED BY <3>1 DEF WithWatcher
  <2> HIDE DEF e
  <2>7. Succeeds(d, g, W)
    BY <2>2, <2>4, SucceedsOn
  <2> QED BY <2>1, <2>6, <2>7, SucceedsInto
<1> QED BY <1>3, <1>4

LEMMA SchedulingSucceeds ==
  ASSUME Good(DB), NEW W
  PROVE  Succeeds(DB, Scheduling, W)
<1>1. DB.row = row
  BY DEF DB
<1>2. CASE row # None /\ row.status = "failed"
  <2>1. \E b \in BOOLEAN : ~b /\ Scheduling = Deleted(DB, b)
    <3> WITNESS FALSE \in BOOLEAN
    <3> QED BY <1>2 DEF Scheduling
  <2> QED BY <1>1, <1>2, <2>1, DeletedSucceeds
<1>3. CASE ~(row # None /\ row.status = "failed")
  BY <1>1, <1>3, EnsuredSucceeds DEF Scheduling
<1> QED BY <1>2, <1>3

LEMMA DiscardedSucceeds ==
  ASSUME NEW d, NEW e, IsDb(d), Retells(d, e), NEW i \in RunIds \cup {None}, NEW W,
         Succeeds(d, e, W)
  PROVE  Succeeds(d, Discarded(e, d, i), W)
<1>1. CASE Open(d, i)
  <2>1. IsDb(e) /\ i \in RunIds /\ e.runs[i] # None
    BY <1>1 DEF Open, Retells, KeepsRuns
  <2> DEFINE g == Forced(e, i, "failed")
  <2>2. Succeeds(e, g, W)
    BY <2>1, ForcedSucceeds DEF Terminal
  <2>3. Discarded(e, d, i) = g
    BY <1>1 DEF Discarded
  <2> HIDE DEF g
  <2> QED BY <2>2, <2>3, SucceedsOn
<1>2. CASE ~Open(d, i)
  BY <1>2 DEF Discarded
<1> QED BY <1>1, <1>2

LEMMA SupersededSucceeds ==
  ASSUME NEW d, Good(d), d.row # None, NEW f \in Generations, NEW W
  PROVE  Succeeds(d, Superseded(d, f), W)
<1>1. IsDb(d) /\ d.row.run \in RunIds \cup {None} /\ d.row.prun \in RunIds \cup {None}
  BY DEF Good, IsDb, Sound, Row
<1> DEFINE b == Discarded(d, d, d.row.run)
           c == Discarded(b, d, d.row.prun)
<1>2. Retells(d, b) /\ Succeeds(d, b, W)
  BY <1>1, RetellsSame, SucceedsSame, DiscardedRetells, DiscardedSucceeds
<1> HIDE DEF b
<1>3. Retells(d, c) /\ Succeeds(d, c, W)
  BY <1>1, <1>2, DiscardedRetells, DiscardedSucceeds
<1> HIDE DEF c
<1>4. CASE Reused(d, f)
  <2> DEFINE e == [b EXCEPT !.id = d.row.prun]
  <2>1. Superseded(d, f) = e
    BY <1>4 DEF Superseded, b
  <2>2. e.runs = b.runs
    BY <1>2 DEF Retells, IsDb, Db
  <2> HIDE DEF e
  <2> QED BY <1>2, <2>1, <2>2, SucceedsInto
<1>5. CASE ~Reused(d, f)
  <2>1. Superseded(d, f) = Created(c, f)
    BY <1>5 DEF Superseded, b, c
  <2>2. Succeeds(c, Created(c, f), W)
    BY <1>3, CreatedSucceeds DEF Retells
  <2> QED BY <1>3, <2>1, <2>2, SucceedsOn
<1> QED BY <1>4, <1>5


-----------------------------------------------------------------------------
(* Transactions that take a request over, or lead it on.                     *)

\* What an observation returns.
Seen == [fp : Generations, pre : Histories, pend : Generations \cup {None},
         ppre : Histories \cup {None}]
IsSeen(s) == s \in Seen /\ (s.pend = None) = (s.ppre = None)

LEMMA ClaimedGood ==
  ASSUME NEW d, Good(d), d.row # None, d.row.status # "failed",
         NEW t \in Tokens, NEW successor \in Tokens, NEW seen, IsSeen(seen)
  PROVE  LET e == Claimed(t, d, successor, seen)
         IN  /\ Good(e) /\ e.row # None /\ e.row.status = None /\ e.row.token = t
             /\ e.row.fp = seen.fp /\ e.row.pre = seen.pre
             /\ e.row.pend = seen.pend /\ e.row.ppre = seen.ppre
             /\ e.row.watcher = successor /\ e.row.wlive
             /\ \A W : Succeeds(d, e, W)
<1>1. /\ IsDb(d) /\ d \in Db /\ Sound(d.row) /\ d.row \in Row
      /\ seen.fp \in Generations /\ seen.pre \in Histories
      /\ seen.pend \in Generations \cup {None} /\ seen.ppre \in Histories \cup {None}
  BY DEF Good, IsDb, Sound, IsSeen, Seen
<1> DEFINE c == IF ~Alike(seen.fp, d.row.fp) THEN Superseded(d, seen.fp)
                ELSE [d EXCEPT !.id = d.row.run]
           n == IF ~Alike(seen.fp, d.row.fp) THEN 0 ELSE d.row.tries
           q == Request(t, TRUE, successor, seen.fp, seen.pre, c.id)
           r == [q EXCEPT !.pend = seen.pend, !.ppre = seen.ppre, !.tries = n]
           w == [c EXCEPT !.row = r]
<1>2. d.full \/ Finds(d, c, seen.fp)
  <2>1. CASE ~Alike(seen.fp, d.row.fp)
    BY <1>1, <2>1, SupersededFinds
  <2>2. CASE Alike(seen.fp, d.row.fp) /\ ~d.full
    <3>1. IsRunOf(d.runs, d.row.run, seen.fp)
      BY <2>2, RunOfAlike DEF Good, Says
    <3> QED BY <1>1, <2>2, <3>1, KnownFinds, RetellsSame
  <2> QED BY <2>1, <2>2 DEF Db
<1>3. IsDb(c) /\ c.id \in RunIds \cup {None} /\ (d.full => c.full)
  <2>1. CASE ~Alike(seen.fp, d.row.fp)
    BY <1>1, <2>1, SupersededFinds DEF Finds, IsDb, Db
  <2>2. CASE Alike(seen.fp, d.row.fp)
    <3> DEFINE x == [d EXCEPT !.id = d.row.run]
    <3>1. x \in Db /\ x.row = d.row /\ x.full = d.full /\ x.id \in RunIds \cup {None}
      BY <1>1 DEF Db, Row
    <3>2. c = x
      BY <2>2
    <3> HIDE DEF x, c
    <3> QED BY <1>1, <3>1, <3>2 DEF IsDb
  <2> QED BY <2>1, <2>2
<1>31. ASSUME NEW W
       PROVE  Succeeds(d, c, W)
  <2>1. CASE ~Alike(seen.fp, d.row.fp)
    BY <1>1, <2>1, SupersededSucceeds
  <2>2. CASE Alike(seen.fp, d.row.fp)
    <3> DEFINE x == [d EXCEPT !.id = d.row.run]
    <3>1. x.runs = d.runs
      BY <1>1 DEF Db
    <3>2. c = x
      BY <2>2
    <3> HIDE DEF x, c
    <3> QED BY <3>1, <3>2, SucceedsSame
  <2> QED BY <2>1, <2>2
<1> HIDE DEF c
<1>4. n \in 0 .. MaxAttempts /\ n < MaxAttempts
  BY <1>1, AutoAssumption DEF Sound, Row
<1> HIDE DEF n
<1>5. r \in Row
  BY <1>1, <1>3, <1>4, AutoAssumption DEF Row, Request
<1>6. /\ r.run = c.id /\ r.fp = seen.fp /\ r.prun = None /\ r.status = None
      /\ r.pend = seen.pend /\ r.ppre = seen.ppre /\ r.cont = None /\ r.cpred = None
      /\ r.tries = n /\ r.token = t /\ r.pre = seen.pre
      /\ r.watcher = successor /\ r.wlive
  BY DEF Request
<1> HIDE DEF r
<1>7. Sound(r) /\ r # None
  BY <1>4, <1>5, <1>6, AutoAssumption DEF Sound, IsSeen
<1>8. Good(w) /\ w.row = r
  <2>1. CASE d.full
    <3>1. c.full
      BY <1>3, <2>1
    <3> QED BY <1>3, <1>7, <3>1, PutRow
  <2>2. CASE ~d.full
    BY <1>1, <1>2, <1>6, <1>7, <2>2, FoundGood
  <2> QED BY <2>1, <2>2
<1>81. w.runs = c.runs
  BY <1>3 DEF IsDb, Db
<1>9. Claimed(t, d, successor, seen) = Recovered(w)
  BY DEF Claimed, WithRequest, c, n, r
<1> HIDE DEF w
<1>10. IsDb(w) /\ w.row.run \in RunIds \cup {None}
  BY <1>3, <1>6, <1>8 DEF Good
<1>11. Retells(w, Recovered(w))
  BY <1>10, MovedRetells DEF Recovered
<1>12. ASSUME NEW W
       PROVE  Succeeds(d, Recovered(w), W)
  <2>1. Succeeds(d, w, W)
    BY <1>31, <1>81, SucceedsInto
  <2>2. Succeeds(w, Recovered(w), W)
    BY <1>10, MovedSucceeds DEF Recovered
  <2> QED BY <2>1, <2>2, SucceedsOn
<1> QED BY <1>6, <1>7, <1>8, <1>9, <1>11, <1>12, GoodRetold DEF Retells

\* The row moves on to another generation, with the run that was found for it.
LEMMA WithNextGood ==
  ASSUME NEW d, Good(d), NEW e, NEW next, next.fp \in Generations, next.pre \in Histories,
         Finds(d, e, next.fp), NEW r, Sound(r),
         r.prun # None =>
           /\ d.row # None /\ r.pend \in {d.row.pend, None}
           /\ r.prun = d.row.prun
  PROVE  LET g == WithNext(e, next, r)
         IN  /\ Good(g) /\ g.row # None /\ g.row.fp = next.fp /\ g.row.pre = next.pre
             /\ g.row.token = r.token /\ g.row.status = r.status
             /\ g.row.pend = r.pend /\ g.row.ppre = r.ppre /\ g.runs = e.runs
             /\ Guards(r, g.row)
<1> DEFINE s == [r EXCEPT !.fp = next.fp, !.pre = next.pre, !.run = e.id, !.live = TRUE]
<1>1. e.id \in RunIds \cup {None} /\ r \in Row
  BY DEF Finds, IsDb, Db, Sound
<1>2. s \in Row
  BY <1>1 DEF Row
<1>3. /\ s.run = e.id /\ s.fp = next.fp /\ s.pend = r.pend /\ s.prun = r.prun
      /\ s.token = r.token /\ s.status = r.status /\ s.ppre = r.ppre /\ s.cont = r.cont
      /\ s.cpred = r.cpred /\ s.tries = r.tries /\ s.pre = next.pre
      /\ s.watcher = r.watcher /\ s.wlive = r.wlive
  BY <1>1 DEF Row
<1>4. WithNext(e, next, r) = [e EXCEPT !.row = s]
  BY DEF WithNext
<1> HIDE DEF s
<1>5. Sound(s) /\ s # None
  BY <1>2, <1>3, AutoAssumption DEF Sound
<1>6. LET g == [e EXCEPT !.row = s] IN Good(g) /\ g.row = s /\ g.runs = e.runs
  BY <1>3, <1>5, FoundGood
<1> QED BY <1>3, <1>4, <1>5, <1>6 DEF Guards

LEMMA NoPendingSound ==
  ASSUME NEW r, Sound(r), NEW i \in {r.prun, None}
  PROVE  LET s == [NoPending(r) EXCEPT !.prun = i]
         IN  /\ Sound(s) /\ s.pend = None /\ s.ppre = None /\ s.prun = i /\ s.token = r.token
             /\ s.status = r.status /\ s.run = r.run /\ s.fp = r.fp /\ Guards(r, s)
<1> DEFINE s == [NoPending(r) EXCEPT !.prun = i]
<1>1. r \in Row /\ i \in RunIds \cup {None}
  BY DEF Sound, Row
<1>2. s \in Row
  BY <1>1 DEF Row, NoPending
<1>3. /\ s.pend = None /\ s.prun = i /\ s.token = r.token /\ s.ppre = None
      /\ s.status = r.status /\ s.cont = r.cont /\ s.cpred = r.cpred /\ s.tries = r.tries
      /\ s.run = r.run /\ s.fp = r.fp /\ s.watcher = r.watcher /\ s.wlive = r.wlive
  BY <1>1 DEF Row, NoPending
<1> HIDE DEF s
<1>4. Sound(s)
  BY <1>2, <1>3 DEF Sound
<1> QED BY <1>3, <1>4 DEF s, Guards

LEMMA PromotedGood ==
  ASSUME NEW d, Good(d), ~d.full, d.row # None, d.row.pend # None
  PROVE  LET e == Promoted(d)
         IN  /\ Good(e) /\ e.row # None /\ e.row.fp = d.row.pend /\ e.row.pre = d.row.ppre
             /\ e.row.token = d.row.token /\ e.row.status = d.row.status
             /\ e.row.pend = None /\ Guards(d.row, e.row) /\ \A W : Succeeds(d, e, W)
<1>1. /\ IsDb(d) /\ Sound(d.row) /\ d.row \in Row /\ Says(d.row, d.runs)
      /\ d.row.run \in RunIds \cup {None} /\ d.row.pend \in Generations
      /\ d.row.ppre \in Histories
  BY DEF Good, IsDb, Sound, Row
<1> DEFINE b == Dropped(d, d.row.run)
           c == PromotedRun(b)
           f == d.row.pend
           next == Generation(f, d.row.ppre)
           s == [NoPending(d.row) EXCEPT !.prun = None]
<1>2. Retells(d, b) /\ b.row = d.row
  BY <1>1, MovedRetells DEF Dropped, Terminal, Retells
<1> HIDE DEF b
<1>3. Finds(d, c, f)
  <2>1. CASE d.row.prun # None
    <3> DEFINE i == d.row.prun
    <3>1. IsRunOf(d.runs, i, f)
      BY <1>1, <2>1 DEF Says
    <3> HIDE DEF i
    <3>2. Finds(d, [b EXCEPT !.id = i], f)
      BY <1>1, <1>2, <3>1, KnownFinds
    <3> QED BY <1>2, <2>1, <3>2 DEF PromotedRun, i
  <2>2. CASE d.row.prun = None
    <3> DEFINE e == Created(b, f)
    <3>1. Finds(b, e, f)
      BY <1>1, <1>2, CreatedFinds DEF Retells
    <3>2. c = e
      BY <1>2, <2>2 DEF PromotedRun
    <3> HIDE DEF e, c, f
    <3> QED BY <1>2, <3>1, <3>2, RetoldFinds
  <2> QED BY <2>1, <2>2
<1>31. ASSUME NEW W
       PROVE  Succeeds(d, c, W)
  <2>1. Succeeds(d, b, W)
    BY <1>1, MovedSucceeds DEF Dropped, Terminal, b
  <2>2. CASE d.row.prun # None
    <3> DEFINE x == [b EXCEPT !.id = d.row.prun]
    <3>1. x.runs = b.runs
      BY <1>2 DEF Retells, IsDb, Db
    <3>2. c = x
      BY <1>2, <2>2 DEF PromotedRun
    <3> HIDE DEF x, c
    <3> QED BY <2>1, <3>1, <3>2, SucceedsInto
  <2>3. CASE d.row.prun = None
    <3> DEFINE x == Created(b, f)
    <3>1. Succeeds(b, x, W)
      BY <1>1, <1>2, CreatedSucceeds DEF Retells
    <3>2. c = x
      BY <1>2, <2>3 DEF PromotedRun
    <3> HIDE DEF x, c
    <3> QED BY <2>1, <3>1, <3>2, SucceedsOn
  <2> QED BY <2>2, <2>3
<1> HIDE DEF c
<1>4. /\ Sound(s) /\ s.pend = None /\ s.prun = None /\ s.token = d.row.token
      /\ s.status = d.row.status /\ Guards(d.row, s)
  BY <1>1, NoPendingSound
<1>5. next.fp = f /\ next.pre = d.row.ppre
  BY DEF Generation
<1>6. Promoted(d) = WithNext(c, next, s)
  <2> DEFINE r == [NoPending(c.row) EXCEPT !.fp = c.row.pend, !.pre = c.row.ppre,
                                           !.run = c.id, !.prun = None, !.live = TRUE]
             q == [s EXCEPT !.fp = next.fp, !.pre = next.pre, !.run = c.id, !.live = TRUE]
  <2>1. c.row = d.row
    BY <1>3 DEF Finds
  <2>2. r = q
    BY <1>1, <1>5, <2>1 DEF NoPending, Row
  <2> HIDE DEF r, q
  <2>3. Promoted(d) = [c EXCEPT !.row = r]
    BY DEF Promoted, WithPromotion, r, c, b
  <2> QED BY <2>2, <2>3 DEF WithNext, q
<1> HIDE DEF s, next
<1>7. next.fp \in Generations /\ next.pre \in Histories /\ Finds(d, c, next.fp)
  BY <1>1, <1>3, <1>5
<1> DEFINE g == WithNext(c, next, s)
<1>8. /\ Good(g) /\ g.row # None /\ g.row.fp = next.fp /\ g.row.pre = next.pre
      /\ g.row.token = s.token /\ g.row.status = s.status /\ g.row.pend = s.pend
      /\ g.runs = c.runs /\ Guards(s, g.row)
  BY <1>4, <1>7, WithNextGood
<1> HIDE DEF g
<1>9. ASSUME NEW W
      PROVE  Succeeds(d, g, W)
  BY <1>8, <1>31, SucceedsInto
<1> QED BY <1>4, <1>5, <1>6, <1>8, <1>9 DEF g, Guards

\* A failure is counted and leaves the columns of the row together.
LEMMA RetriedSound ==
  ASSUME NEW r, Sound(r), r.status # "failed", NEW seen,
         seen.fp \in Generations, seen.pre \in Histories, NEW fresh \in BOOLEAN
  PROVE  LET s == Retried(r, seen, fresh)
         IN  /\ Sound(s) /\ s.run = r.run /\ s.prun = r.prun
             /\ s.fp = (IF Alike(seen.fp, r.fp) THEN r.fp ELSE seen.fp)
             /\ s.pend = r.pend /\ s.ppre = r.ppre /\ s.token = r.token /\ s.pre = seen.pre
             /\ Guards(r, s)
<1> DEFINE f == IF Alike(seen.fp, r.fp) THEN r.fp ELSE seen.fp
           q == [r EXCEPT !.fp = f, !.pre = seen.pre]
           n == Tries(r, fresh)
           s == WithTries(q, fresh, n)
<1>1. r \in Row /\ r.tries \in 0 .. MaxAttempts /\ r.tries < MaxAttempts /\ f \in Generations
  BY DEF Sound, Row
<1>11. q = [r EXCEPT !.fp = IF Alike(seen.fp, @) THEN @ ELSE seen.fp, !.pre = seen.pre]
  BY <1>1 DEF Row
<1> HIDE DEF f
<1>2. q \in Row
  BY <1>1 DEF Row
<1>3. /\ q.fp = f /\ q.run = r.run /\ q.prun = r.prun /\ q.pend = r.pend
      /\ q.token = r.token /\ q.ppre = r.ppre /\ q.cont = r.cont /\ q.cpred = r.cpred
      /\ q.pre = seen.pre /\ q.watcher = r.watcher /\ q.wlive = r.wlive
  BY <1>1 DEF Row
<1> HIDE DEF q
<1>4. n \in 0 .. MaxAttempts /\ (~Over(fresh, n) => n < MaxAttempts)
  BY <1>1, AutoAssumption DEF Tries, Over
<1> HIDE DEF n
<1>5. Over(fresh, n) \in BOOLEAN
  BY DEF Over
<1>6. s \in Row
  <2> DEFINE a == IF Over(fresh, n) THEN "failed" ELSE "retry_wait"
             b == ~fresh /\ ~Over(fresh, n)
             c == q.wlive \/ ~Over(fresh, n)
  <2>1. a \in Waits \cup {"failed"} /\ b \in BOOLEAN /\ c \in BOOLEAN
    BY DEF Waits
  <2>2. s = [q EXCEPT !.tries = n, !.status = a, !.live = b, !.wlive = c]
    BY <1>2 DEF WithTries, Row
  <2> HIDE DEF a, b, c, s
  <2>3. \A x \in Waits \cup {"failed"} : \A y, z \in BOOLEAN : \A m \in 0 .. MaxAttempts :
          [q EXCEPT !.tries = m, !.status = x, !.live = y, !.wlive = z] \in Row
    BY <1>2 DEF Row
  <2> QED BY <1>4, <2>1, <2>2, <2>3
<1>7. /\ s.fp = q.fp /\ s.run = q.run /\ s.prun = q.prun /\ s.pend = q.pend
      /\ s.token = q.token /\ s.ppre = q.ppre /\ s.cont = q.cont /\ s.cpred = q.cpred
      /\ s.tries = n /\ (s.status # "failed" => ~Over(fresh, n)) /\ s.pre = q.pre
  BY <1>2 DEF WithTries, Row
<1>71. s.watcher = q.watcher /\ (q.wlive => s.wlive)
  BY <1>2 DEF WithTries, Row
<1>8. s = Retried(r, seen, fresh)
  BY <1>11 DEF Retried, n
<1> HIDE DEF s
<1>9. Sound(s)
  BY <1>3, <1>4, <1>6, <1>7 DEF Sound
<1> QED BY <1>3, <1>7, <1>71, <1>8, <1>9 DEF f, Guards

LEMMA TidiedSound ==
  ASSUME NEW r, Sound(r), NEW l, NEW old
  PROVE  LET s == Tidied(l, old, r)
         IN  /\ Sound(s) /\ s.fp = r.fp /\ s.run = r.run /\ s.prun = r.prun
             /\ s.token = r.token /\ s.pend \in {r.pend, None} /\ s.pre = r.pre
             /\ s.pend # None => s.ppre = r.ppre /\ (s.fp = old \/ s.pend[1] # s.fp[1])
             /\ Guards(r, s)
<1>1. CASE r.fp = old \/ (Status(l) = "uncompiled" /\ OtherPending(r))
  BY <1>1 DEF Tidied, OtherPending, Guards
<1>2. CASE ~(r.fp = old \/ (Status(l) = "uncompiled" /\ OtherPending(r)))
  <2> DEFINE s == [NoPending(r) EXCEPT !.prun = r.prun]
  <2>1. /\ Sound(s) /\ s.pend = None /\ s.prun = r.prun /\ s.token = r.token
        /\ s.run = r.run /\ s.fp = r.fp /\ Guards(r, s)
    BY NoPendingSound
  <2>2. s = NoPending(r) /\ s.pre = r.pre
    BY DEF NoPending, Sound, Row
  <2> HIDE DEF s
  <2>3. Tidied(l, old, r) = NoPending(r)
    BY <1>2 DEF Tidied
  <2> QED BY <2>1, <2>2, <2>3
<1> QED BY <1>1, <1>2

LEMMA CountedRetells ==
  ASSUME NEW d, IsDb(d), d.row # None, d.row.run \in RunIds, d.runs[d.row.run] # None
  PROVE  Retells(d, Counted(d))
<1> DEFINE i == d.row.run
           n == IF d.runs[i].fails < MaxAttempts THEN d.runs[i].fails + 1
                ELSE d.runs[i].fails
           r == [d.runs[i] EXCEPT !.fails = n]
           e == [d EXCEPT !.runs = [d.runs EXCEPT ![i] = r]]
<1>1. d \in Db /\ i \in RunIds /\ d.runs[i] # None
  BY DEF IsDb
<1>2. d.runs[i] \in Run /\ d.runs[i].fails \in 0 .. MaxAttempts
  BY <1>1 DEF Db, Run
<1>3. n \in 0 .. MaxAttempts
  BY <1>2, AutoAssumption
<1>4. Counted(d) = e
  BY <1>1 DEF Counted, Db
<1> HIDE DEF n, i
<1>5. r \in Run /\ r.fp = d.runs[i].fp
  BY <1>2, <1>3 DEF Run
<1> HIDE DEF r
<1>6. r # None
  BY <1>5, AutoAssumption
<1>7. /\ e \in Db /\ e.row = d.row /\ e.id = d.id /\ e.full = d.full /\ e.keys = d.keys
      /\ e.runs = [d.runs EXCEPT ![i] = r]
  BY <1>1, <1>5 DEF Db
<1> HIDE DEF e
<1>8. KeepsRuns(d, e)
  BY <1>1, <1>5, <1>6, <1>7 DEF KeepsRuns, Db
<1> QED BY <1>4, <1>7, <1>8 DEF Retells, IsDb

LEMMA CountedSucceeds ==
  ASSUME NEW d, IsDb(d), d.row # None, d.row.run \in RunIds, d.runs[d.row.run] # None, NEW W
  PROVE  Succeeds(d, Counted(d), W)
<1> DEFINE i == d.row.run
           e == Counted(d)
<1>1. d \in Db /\ i \in RunIds /\ d.runs[i] \in Run
  BY DEF IsDb, Db
<1>2. e.runs[i].state = d.runs[i].state
  BY <1>1 DEF Counted, Db, Run
<1>3. \A j \in RunIds : j # i => e.runs[j] = d.runs[j]
  BY <1>1 DEF Counted, Db
<1>4. \A j \in RunIds : d.runs[j] # None => e.runs[j] # None
  BY CountedRetells DEF Retells, KeepsRuns
<1> HIDE DEF e, i
<1>5. Succeeds(d, e, W)
  BY <1>2, <1>3, <1>4 DEF Succeeds
<1> QED BY <1>5 DEF e

LEMMA ToldRetells ==
  ASSUME NEW d, IsDb(d), d.row # None
  PROVE  Retells(d, Told(d))
<1>1. CASE ~Open(d, d.row.run)
  BY <1>1, RetellsSame DEF Told
<1>2. CASE Open(d, d.row.run)
  <2> DEFINE s == IF d.row.status = "failed" THEN "dead" ELSE "retrying"
             m == Moved(d, d.row.run, s)
  <2>1. d.row.run \in RunIds \cup {None} /\ s \in {"retrying"} \cup Terminal
    BY DEF IsDb, Sound, Row, Terminal
  <2>2. Told(d) = Counted(m)
    BY <1>2 DEF Told
  <2> HIDE DEF s
  <2>3. Retells(d, m)
    BY <2>1, MovedRetells
  <2> HIDE DEF m
  <2>4. IsDb(m) /\ m.row = d.row
    BY <2>3 DEF Retells
  <2>5. m.row.run \in RunIds /\ m.runs[m.row.run] # None
    BY <1>2, <2>3, <2>4 DEF Open, Retells, KeepsRuns, IsDb, Sound, Row
  <2> QED BY <2>2, <2>3, <2>4, <2>5, CountedRetells, RetellsOn
<1> QED BY <1>1, <1>2

LEMMA ToldSucceeds ==
  ASSUME NEW d, IsDb(d), d.row # None, NEW W
  PROVE  Succeeds(d, Told(d), W)
<1>1. CASE ~Open(d, d.row.run)
  BY <1>1, SucceedsSame DEF Told
<1>2. CASE Open(d, d.row.run)
  <2> DEFINE s == IF d.row.status = "failed" THEN "dead" ELSE "retrying"
             m == Moved(d, d.row.run, s)
  <2>1. /\ d.row.run \in RunIds \cup {None} /\ s \in {"retrying"} \cup Terminal
        /\ s # "succeeded"
    BY DEF IsDb, Sound, Row, Terminal
  <2>2. Told(d) = Counted(m)
    BY <1>2 DEF Told
  <2> HIDE DEF s
  <2>3. Retells(d, m) /\ Succeeds(d, m, W)
    BY <2>1, MovedRetells, MovedSucceeds
  <2> HIDE DEF m
  <2>4. IsDb(m) /\ m.row = d.row
    BY <2>3 DEF Retells
  <2>5. m.row.run \in RunIds /\ m.runs[m.row.run] # None
    BY <1>2, <2>3, <2>4 DEF Open, Retells, KeepsRuns, IsDb, Sound, Row
  <2>6. Succeeds(m, Counted(m), W)
    BY <2>4, <2>5, CountedSucceeds
  <2> QED BY <2>2, <2>3, <2>6, SucceedsOn
<1> QED BY <1>1, <1>2

LEMMA FailedGood ==
  ASSUME NEW d, Good(d), ~d.full, d.row # None, d.row.status # "failed", NEW l,
         NEW seen, seen.fp \in Generations, seen.pre \in Histories, NEW reset \in BOOLEAN
  PROVE  LET e == Failed(d, l, seen, reset)
         IN  /\ Good(e) /\ e.row # None /\ e.row.token = d.row.token
             /\ e.row.fp = (IF Alike(seen.fp, d.row.fp) THEN d.row.fp ELSE seen.fp)
             /\ e.row.pend \in {d.row.pend, None} /\ e.row.pre = seen.pre
             /\ e.row.pend # None =>
                  /\ e.row.ppre = d.row.ppre
                  /\ e.row.fp = d.row.fp \/ e.row.pend[1] # e.row.fp[1]
             /\ Guards(d.row, e.row)
             /\ \A W : Succeeds(d, e, W)
<1> DEFINE fresh == reset /\ ~Alike(seen.fp, d.row.fp)
           f == IF Alike(seen.fp, d.row.fp) THEN d.row.fp ELSE seen.fp
           s == Retried(d.row, seen, fresh)
           r == Tidied(l, d.row.fp, s)
           q == [d EXCEPT !.row = r]
<1>1. d \in Db /\ IsDb(d) /\ Sound(d.row) /\ Says(d.row, d.runs) /\ fresh \in BOOLEAN
  BY DEF Good, IsDb
<1>11. f \in Generations
  BY <1>1 DEF Sound, Row
<1> HIDE DEF fresh
<1>2. /\ Sound(s) /\ s.fp = f /\ s.run = d.row.run /\ s.prun = d.row.prun
      /\ s.pend = d.row.pend /\ s.ppre = d.row.ppre /\ s.token = d.row.token
      /\ s.pre = seen.pre /\ Guards(d.row, s)
  BY <1>1, RetriedSound
<1> HIDE DEF s, f
<1>3. /\ Sound(r) /\ r.fp = f /\ r.run = d.row.run /\ r.prun = d.row.prun
      /\ r.token = d.row.token /\ r.pend \in {d.row.pend, None} /\ r # None
      /\ r.pre = seen.pre /\ (r.pend # None => r.ppre = d.row.ppre)
      /\ Guards(d.row, r) /\ (r.pend # None => f = d.row.fp \/ r.pend[1] # f[1])
  BY <1>2, TidiedSound, AutoAssumption DEF Sound, Guards
<1>4. Failed(d, l, seen, reset) = WithFailure(d, r)
  BY DEF Failed, r, s, fresh
<1> HIDE DEF r
<1>5. /\ q \in Db /\ q.row = r /\ q.runs = d.runs /\ q.full = d.full /\ IsDb(q)
  BY <1>1, <1>3 DEF Db, Sound, IsDb
<1>6. CASE r.fp = d.row.fp
  <2>1. Says(r, d.runs)
    BY <1>1, <1>3, <1>6 DEF Says
  <2>2. Good(q)
    BY <1>5, <2>1 DEF Good
  <2>3. WithFailure(d, r) = Told(q)
    BY <1>6 DEF WithFailure
  <2> HIDE DEF q
  <2>4. Retells(q, Told(q))
    BY <1>3, <1>5, ToldRetells
  <2>5. ASSUME NEW W
        PROVE  Succeeds(d, Told(q), W)
    <3>1. Succeeds(d, q, W)
      BY <1>5, SucceedsSame
    <3>2. Succeeds(q, Told(q), W)
      BY <1>3, <1>5, ToldSucceeds
    <3> QED BY <3>1, <3>2, SucceedsOn
  <2> QED BY <1>3, <1>4, <1>5, <2>2, <2>3, <2>4, <2>5, GoodRetold DEF Retells, f
<1>7. CASE r.fp # d.row.fp
  <2> DEFINE b == Dropped(q, d.row.run)
             c == Created(b, r.fp)
  <2>1. WithFailure(d, r) = Activated(c)
    BY <1>7 DEF WithFailure
  <2> HIDE DEF q
  <2>2. Retells(q, b)
    BY <1>1, <1>5, MovedRetells DEF Dropped, Terminal, Sound, Row
  <2>21. ASSUME NEW W
         PROVE  Succeeds(q, b, W)
    BY <1>1, <1>5, MovedSucceeds DEF Dropped, Terminal, Sound, Row
  <2> HIDE DEF b
  <2>3. Finds(b, c, r.fp)
    BY <1>11, <1>3, <2>2, CreatedFinds DEF Retells
  <2>31. ASSUME NEW W
         PROVE  Succeeds(d, c, W)
    <3>1. Succeeds(b, c, W) /\ Succeeds(d, q, W)
      BY <1>5, <1>11, <1>3, <2>2, CreatedSucceeds, SucceedsSame DEF Retells
    <3> QED BY <2>21, <3>1, SucceedsOn
  <2> HIDE DEF c
  <2>4. b.row = r /\ c.row = r /\ IsDb(c) /\ (~c.full => IsRunOf(c.runs, c.id, c.row.fp))
    BY <1>5, <2>2, <2>3 DEF Retells, Finds
  <2>5. ASSUME ~c.full, r.prun # None
        PROVE  \E g \in Generations : IsRunOf(c.runs, r.prun, g) /\ r.pend \in {None, g}
    <3>1. PICK g \in Generations : IsRunOf(q.runs, r.prun, g) /\ r.pend \in {None, g}
      BY <1>1, <1>3, <1>5, <2>5 DEF Says
    <3>2. IsRunOf(b.runs, r.prun, g) /\ r.prun \in Links(b)
      BY <1>3, <2>2, <2>4, <3>1 DEF Retells, KeepsRuns, IsRunOf, Links
    <3> QED BY <2>3, <2>5, <3>1, <3>2 DEF Finds
  <2>6. LET e == Activated(c) IN Good(e) /\ e.row = [r EXCEPT !.run = c.id] /\ e.runs = c.runs
    BY <1>3, <2>4, <2>5, ActivatedGood
  <2> DEFINE w == [r EXCEPT !.run = c.id]
  <2>7. Wants(r, w) /\ Guards(r, w)
    BY <1>3, <2>4, SoundRun DEF IsDb, Db
  <2> HIDE DEF w
  <2>8. ASSUME NEW W
        PROVE  Succeeds(d, Activated(c), W)
    BY <2>6, <2>31, SucceedsInto
  <2> QED BY <1>3, <1>4, <2>1, <2>6, <2>7, <2>8 DEF Wants, Guards, w, f
<1> QED BY <1>6, <1>7

LEMMA FinishedGood ==
  ASSUME NEW d, Good(d), ~d.full, d.row # None, NEW l,
         NEW next, next.fp \in Generations, next.pre \in Histories
  PROVE  LET e == Finished(d, l, next)
         IN  /\ Good(e)
             /\ e.row = None =>
                  \/ ~Switches(l, d.row) /\ Status(l) # "uncompiled"
                  \/ Alike(next.fp, d.row.fp)
             /\ e.row # None => /\ Switches(l, d.row) \/ Status(l) = "uncompiled"
                                /\ e.row.token = d.row.token /\ e.row.status = d.row.status
                                /\ e.row.fp = next.fp /\ e.row.pre = next.pre
                                /\ e.row.pend \in {d.row.pend, None}
                                /\ e.row.pend # None =>
                                     e.row.ppre = d.row.ppre /\ e.row.pend[1] # e.row.fp[1]
                                /\ Guards(d.row, e.row)
             /\ \A W : d.row.run \in W => Succeeds(d, e, W)
<1> DEFINE b == Succeeded(d)
           f == next.fp
           c == Linked(b, f)
           r == IF Status(l) = "uncompiled" /\ (d.row.pend = None \/ d.row.pend[1] # f[1])
                THEN d.row ELSE Unlinked(d.row)
           go == (Switches(l, d.row) \/ Status(l) = "uncompiled") /\ ~Alike(f, d.row.fp)
<1>1. IsDb(d) /\ Sound(d.row) /\ Says(d.row, d.runs) /\ d.row.run \in RunIds \cup {None}
  BY DEF Good, IsDb, Sound, Row
<1>2. Retells(d, b)
  BY <1>1, MovedRetells DEF Succeeded, Terminal
<1>3. Finished(d, l, next) = IF go THEN WithNext(c, next, r) ELSE Deleted(b, TRUE)
  BY DEF Finished
<1>21. ASSUME NEW W, d.row.run \in W
       PROVE  Succeeds(d, b, W)
  BY <1>1, <1>21, MovedSucceeds DEF Succeeded, Terminal
<1> HIDE DEF b, go
<1>4. b.row = d.row /\ IsDb(b) /\ Good(b)
  BY <1>2, GoodRetold DEF Retells
<1>5. Finds(d, c, f)
  <2>1. CASE Matches(b, d.row.prun, f)
    <3> DEFINE i == d.row.prun
    <3>1. c = [b EXCEPT !.id = i]
      BY <1>4, <2>1 DEF Linked
    <3>2. i # None /\ ~b.full /\ b.runs[i].fp = f
      BY <1>2, <2>1 DEF Matches, Retells
    <3>3. IsRunOf(b.runs, i, f)
      BY <1>4, <3>2 DEF Good, Says, IsRunOf, Alike
    <3> HIDE DEF i
    <3>4. Finds(b, [b EXCEPT !.id = i], f)
      BY <1>4, <3>3, KnownFinds, RetellsSame
    <3> HIDE DEF c
    <3> QED BY <1>2, <3>1, <3>4, RetoldFinds
  <2>2. CASE ~Matches(b, d.row.prun, f)
    <3>1. c = Created(b, f)
      BY <1>4, <2>2 DEF Linked
    <3> QED BY <1>2, <1>4, <3>1, CreatedFinds, RetoldFinds
  <2> QED BY <2>1, <2>2
<1>51. ASSUME NEW W, d.row.run \in W
       PROVE  Succeeds(d, c, W)
  <2>1. CASE Matches(b, d.row.prun, f)
    <3> DEFINE x == [b EXCEPT !.id = d.row.prun]
    <3>1. c = x
      BY <1>4, <2>1 DEF Linked
    <3>2. x.runs = b.runs
      BY <1>4 DEF IsDb, Db
    <3> HIDE DEF c, x
    <3> QED BY <1>21, <1>51, <3>1, <3>2, SucceedsInto
  <2>2. CASE ~Matches(b, d.row.prun, f)
    <3>1. c = Created(b, f)
      BY <1>4, <2>2 DEF Linked
    <3>2. Succeeds(b, Created(b, f), W)
      BY <1>4, CreatedSucceeds
    <3> HIDE DEF c
    <3> QED BY <1>21, <1>51, <3>1, <3>2, SucceedsOn
  <2> QED BY <2>1, <2>2
<1> HIDE DEF c
<1>6. Sound(r) /\ r.token = d.row.token /\ r.status = d.row.status
      /\ (r.prun # None => r.pend = d.row.pend /\ r.prun = d.row.prun)
      /\ r.pend \in {d.row.pend, None} /\ (r.pend # None => r.ppre = d.row.ppre)
      /\ Guards(d.row, r) /\ (r.pend # None => r.pend[1] # f[1])
  BY <1>1, NoPendingSound DEF Unlinked, Guards
<1> HIDE DEF r
<1>7. CASE go
  <2>1. LET g == WithNext(c, next, r)
        IN  /\ Good(g) /\ g.row # None /\ g.row.fp = next.fp /\ g.row.pre = next.pre
            /\ g.row.token = r.token /\ g.row.status = r.status
            /\ g.row.pend = r.pend /\ g.row.ppre = r.ppre /\ g.runs = c.runs
            /\ Guards(r, g.row)
    BY <1>5, <1>6, WithNextGood
  <2>2. ASSUME NEW W, d.row.run \in W
        PROVE  Succeeds(d, WithNext(c, next, r), W)
    BY <1>51, <2>1, <2>2, SucceedsInto
  <2>3. Switches(l, d.row) \/ Status(l) = "uncompiled"
    BY <1>7 DEF go
  <2> QED BY <1>3, <1>6, <1>7, <2>1, <2>2, <2>3 DEF Guards
<1>8. CASE ~go
  <2>1. ASSUME NEW W, d.row.run \in W
        PROVE  Succeeds(d, Deleted(b, TRUE), W)
    <3>1. Succeeds(b, Deleted(b, TRUE), W)
      BY <1>4, <2>1, DeletedSucceeds
    <3> QED BY <1>21, <2>1, <3>1, SucceedsOn
  <2> DEFINE g == Deleted(b, TRUE)
  <2>2. Good(g) /\ g.row = None
    BY <1>3, <1>4, DeletedGood
  <2> HIDE DEF g
  <2> QED BY <1>3, <1>4, <1>8, <2>1, <2>2 DEF go, g
<1> QED BY <1>7, <1>8

LEMMA ReplacedFinds ==
  ASSUME NEW w, IsDb(w), w.row # None, NEW d, Retells(w, d), NEW f \in Generations
  PROVE  Finds(w, Replaced(d, w, f), f)
<1>1. d.row = w.row /\ w.row.prun \in RunIds \cup {None} /\ IsDb(d)
  BY DEF Retells, IsDb, Sound, Row
<1>2. CASE Reused(w, f)
  <2> DEFINE i == w.row.prun
  <2>1. IsRunOf(w.runs, i, f)
    BY <1>1, <1>2 DEF Reused, Open, Matches, IsRunOf, Alike
  <2>2. Replaced(d, w, f) = [d EXCEPT !.id = i]
    BY <1>1, <1>2 DEF Replaced
  <2> HIDE DEF i
  <2>3. Finds(w, [d EXCEPT !.id = i], f)
    BY <2>1, KnownFinds
  <2> QED BY <2>2, <2>3
<1>3. CASE ~Reused(w, f)
  <2> DEFINE b == Dropped(d, d.row.prun)
  <2>1. Retells(d, b)
    BY <1>1, MovedRetells DEF Dropped, Terminal
  <2>2. Replaced(d, w, f) = Created(b, f)
    BY <1>3 DEF Replaced
  <2> HIDE DEF b
  <2>3. Retells(w, b) /\ IsDb(b)
    BY <2>1, RetellsOn DEF Retells
  <2>4. Finds(b, Created(b, f), f)
    BY <2>3, CreatedFinds
  <2> QED BY <2>2, <2>3, <2>4, RetoldFinds
<1> QED BY <1>2, <1>3

LEMMA ReplacedSucceeds ==
  ASSUME NEW w, IsDb(w), w.row # None, NEW d, Retells(w, d), NEW f \in Generations, NEW W,
         Succeeds(w, d, W)
  PROVE  Succeeds(w, Replaced(d, w, f), W)
<1>1. d.row = w.row /\ w.row.prun \in RunIds \cup {None} /\ IsDb(d)
  BY DEF Retells, IsDb, Sound, Row
<1>2. CASE Reused(w, f)
  <2> DEFINE e == [d EXCEPT !.id = d.row.prun]
  <2>1. Replaced(d, w, f) = e
    BY <1>2 DEF Replaced
  <2>2. e.runs = d.runs
    BY <1>1 DEF IsDb, Db
  <2> HIDE DEF e
  <2> QED BY <2>1, <2>2, SucceedsInto
<1>3. CASE ~Reused(w, f)
  <2> DEFINE b == Dropped(d, d.row.prun)
  <2>1. Retells(d, b) /\ Succeeds(d, b, W)
    BY <1>1, MovedRetells, MovedSucceeds DEF Dropped, Terminal
  <2>2. Replaced(d, w, f) = Created(b, f)
    BY <1>3 DEF Replaced
  <2> HIDE DEF b
  <2>3. Succeeds(b, Created(b, f), W)
    BY <2>1, CreatedSucceeds DEF Retells
  <2> QED BY <2>1, <2>2, <2>3, SucceedsOn
<1> QED BY <1>2, <1>3

LEMMA DeferredGood ==
  ASSUME NEW d, Good(d), ~d.full, d.row # None, NEW l,
         NEW next, next.fp \in Generations, next.pre \in Histories
  PROVE  LET e == Deferred(d, l, next)
         IN  /\ Good(e)
             /\ e.row = None => Status(l) = "covered" /\ ~OtherPending(d.row)
             /\ e.row # None => /\ Status(l) # "covered" \/ OtherPending(d.row)
                                /\ e.row.token = d.row.token /\ e.row.status = d.row.status
                                /\ e.row.fp = next.fp /\ e.row.pre = next.pre
                                /\ e.row.pend \in {d.row.pend, None}
                                /\ e.row.pend # None =>
                                     /\ e.row.ppre = d.row.ppre
                                     /\ \/ e.row.pend[1] # e.row.fp[1]
                                        \/ Alike(next.fp, d.row.fp)
                                /\ Guards(d.row, e.row)
             /\ \A W : Status(l) # "covered" \/ d.row.run \in W => Succeeds(d, e, W)
<1> DEFINE b == Succeeded(d)
           c == Dropped(d, d.row.run)
           f == next.fp
           r == Unlinked(d.row)
           q == [d.row EXCEPT !.prun = None]
<1>1. /\ IsDb(d) /\ Sound(d.row) /\ Says(d.row, d.runs) /\ d.row.run \in RunIds \cup {None}
      /\ d \in Db /\ d.row \in Row
  BY DEF Good, IsDb, Sound, Row
<1>2. Retells(d, b) /\ Retells(d, c)
  BY <1>1, MovedRetells DEF Succeeded, Dropped, Terminal
<1>21. ASSUME NEW W
       PROVE  (d.row.run \in W => Succeeds(d, b, W)) /\ Succeeds(d, c, W)
  BY <1>1, MovedSucceeds DEF Succeeded, Dropped, Terminal
<1> HIDE DEF b, c
<1>3. b.row = d.row /\ IsDb(b) /\ Good(b)
  BY <1>2, GoodRetold DEF Retells
<1>4. /\ Sound(r) /\ r.prun = None /\ r.token = d.row.token /\ r.status = d.row.status
      /\ Sound(q) /\ q.prun = None /\ q.token = d.row.token /\ q.status = d.row.status
      /\ r.pend = None /\ q.pend = d.row.pend /\ q.ppre = d.row.ppre
      /\ Guards(d.row, r) /\ Guards(d.row, q)
  <2>1. /\ Sound(r) /\ r.prun = None /\ r.token = d.row.token
        /\ r.status = d.row.status /\ r.pend = None /\ Guards(d.row, r)
    BY <1>1, NoPendingSound DEF Unlinked
  <2>2. Sound(q) /\ Wants(d.row, q) /\ q.prun = None /\ Guards(d.row, q)
    BY <1>1, SoundPendingRun
  <2> HIDE DEF r, q
  <2> QED BY <2>1, <2>2 DEF Wants
<1> HIDE DEF r, q
<1>5. CASE Status(l) = "covered" /\ ~OtherPending(d.row)
  <2>1. Deferred(d, l, next) = Deleted(b, TRUE)
    BY <1>5 DEF Deferred, b
  <2>2. ASSUME NEW W, d.row.run \in W
        PROVE  Succeeds(d, Deleted(b, TRUE), W)
    <3>1. Succeeds(b, Deleted(b, TRUE), W)
      BY <1>3, <2>2, DeletedSucceeds
    <3> QED BY <1>21, <2>2, <3>1, SucceedsOn
  <2> DEFINE g == Deleted(b, TRUE)
  <2>3. Good(g) /\ g.row = None
    BY <1>3, DeletedGood
  <2> HIDE DEF g
  <2> QED BY <1>3, <1>5, <2>1, <2>2, <2>3 DEF g
<1>6. CASE Status(l) = "covered" /\ OtherPending(d.row) /\ ~Alike(f, d.row.fp)
  <2> DEFINE x == Replaced(b, b, f)
             g == WithNext(x, next, r)
  <2>1. Finds(b, x, f)
    BY <1>3, ReplacedFinds, RetellsSame
  <2>11. ASSUME NEW W, d.row.run \in W
         PROVE  Succeeds(d, x, W)
    <3>1. Succeeds(b, x, W)
      BY <1>3, ReplacedSucceeds, RetellsSame, SucceedsSame
    <3> QED BY <1>21, <2>11, <3>1, SucceedsOn
  <2> HIDE DEF x
  <2>2. /\ Good(g) /\ g.row # None /\ g.row.fp = next.fp /\ g.row.pre = next.pre
        /\ g.row.token = r.token /\ g.row.status = r.status
        /\ g.row.pend = r.pend /\ g.row.ppre = r.ppre /\ g.runs = x.runs
        /\ Guards(r, g.row)
    BY <1>3, <1>4, <2>1, WithNextGood
  <2>3. Deferred(d, l, next) = g
    BY <1>6 DEF Deferred, b, x, r
  <2> HIDE DEF g
  <2>4. ASSUME NEW W, d.row.run \in W
        PROVE  Succeeds(d, g, W)
    BY <2>11, <2>2, <2>4, SucceedsInto
  <2> QED BY <1>4, <1>6, <2>2, <2>3, <2>4 DEF Guards
<1>7. CASE Status(l) # "covered" /\ ~Alike(f, d.row.fp)
  <2> DEFINE x == Replaced(c, d, f)
             p == IF OtherPending([d.row EXCEPT !.fp = f]) THEN q ELSE r
             g == WithNext(x, next, p)
  <2>1. Finds(d, x, f)
    BY <1>1, <1>2, ReplacedFinds
  <2>2. /\ Sound(p) /\ p.prun = None /\ p.token = d.row.token /\ p.status = d.row.status
        /\ p.pend \in {d.row.pend, None} /\ (p.pend # None => p.ppre = d.row.ppre)
        /\ Guards(d.row, p) /\ (p.pend # None => p.pend[1] # f[1])
    <3>1. OtherPending([d.row EXCEPT !.fp = f]) => d.row.pend # None /\ d.row.pend[1] # f[1]
      BY <1>1 DEF OtherPending, Row
    <3> QED BY <1>4, <3>1
  <2>3. Deferred(d, l, next) = g
    BY <1>7 DEF Deferred, c, q, r
  <2>31. ASSUME NEW W
         PROVE  Succeeds(d, x, W)
    BY <1>1, <1>2, <1>21, ReplacedSucceeds
  <2> HIDE DEF x, p
  <2>4. /\ Good(g) /\ g.row # None /\ g.row.fp = next.fp /\ g.row.pre = next.pre
        /\ g.row.token = p.token /\ g.row.status = p.status
        /\ g.row.pend = p.pend /\ g.row.ppre = p.ppre /\ g.runs = x.runs
        /\ Guards(p, g.row)
    BY <2>1, <2>2, WithNextGood
  <2> HIDE DEF g
  <2>5. ASSUME NEW W
        PROVE  Succeeds(d, g, W)
    BY <2>31, <2>4, SucceedsInto
  <2> QED BY <2>2, <2>3, <2>4, <2>5, <1>7 DEF Guards
<1>8. CASE ~(Status(l) = "covered" /\ ~OtherPending(d.row)) /\ Alike(f, d.row.fp)
  <2> DEFINE p == [d.row EXCEPT !.fp = next.fp, !.pre = next.pre, !.live = TRUE]
  <2>1. p \in Row
    BY <1>1 DEF Row
  <2>2. /\ p.run = d.row.run /\ p.fp = next.fp /\ p.pend = d.row.pend /\ p.prun = d.row.prun
        /\ p.token = d.row.token /\ p.status = d.row.status /\ p.ppre = d.row.ppre
        /\ p.cont = d.row.cont /\ p.cpred = d.row.cpred /\ p.tries = d.row.tries
        /\ p.pre = next.pre /\ p.watcher = d.row.watcher /\ p.wlive = d.row.wlive
    BY <1>1 DEF Row
  <2>3. Deferred(d, l, next) = [d EXCEPT !.row = p]
    <3>1. Deferred(d, l, next) =
            [d EXCEPT !.row.fp = next.fp, !.row.pre = next.pre, !.row.live = TRUE]
      BY <1>8 DEF Deferred
    <3> QED BY <1>1, <3>1 DEF Db
  <2> HIDE DEF p
  <2>4. Sound(p)
    BY <1>1, <2>1, <2>2 DEF Sound
  <2>41. Says(p, d.runs)
    BY <1>1, <1>8, <2>2, RunOfAlike DEF Says
  <2>5. LET e == [d EXCEPT !.row = p] IN Good(e) /\ e.row = p /\ e.runs = d.runs
    BY <1>1, <2>4, <2>41, PutRow
  <2>6. p # None
    BY <2>1, AutoAssumption
  <2>7. ASSUME NEW W
        PROVE  Succeeds(d, [d EXCEPT !.row = p], W)
    BY <2>5, SucceedsSame
  <2> QED BY <2>2, <2>3, <2>5, <2>6, <2>7, <1>8 DEF Guards
<1> QED BY <1>5, <1>6, <1>7, <1>8

-----------------------------------------------------------------------------
(* The inductive invariant.                                                  *)

Waiting == IF busy THEN 1 ELSE 0

\* Every capture writes at most one entry and is scheduled at most once.
WorldInv ==
  /\ log \in [Logs -> [n : Nat, c : Nat, m : Nat, e : Nat, ok : BOOLEAN]]
  /\ today \in Logs /\ busy \in BOOLEAN /\ jobs \in Nat /\ due \in Nat
  /\ \A l \in Logs : log[l].c <= log[l].n /\ log[l].n + jobs + Waiting <= MaxJobs
  /\ due + jobs + Waiting <= MaxJobs
  /\ sched \subseteq Generations \X Histories
  /\ faults \in 0 .. MaxFaults

\* A process knows what its next step asks for.
IsProc(p) ==
  /\ p \in Proc
  /\ p.pc = "boot" => p.own # None /\ p.fp # None /\ p.pre # None
  /\ p.pc \in Coordinating \cup {"owner"} => p.fp # None
  /\ p.pc \in Coordinating \ {"find"} => p.lp # None
  /\ p.pc = "promote" => p.pend # None

ProcInv ==
  /\ DOMAIN proc = Tokens /\ proc = [t \in Tokens |-> proc[t]]
  /\ \A t \in Tokens : IsProc(proc[t]) /\ proc[t].pred # t

\* A request that has failed has no owner any more: its attempts stay counted out.
QuietInv == row # None /\ row.status = "failed" => proc[row.token].pc = "none"

ChildInv == child \in [Tokens -> Compilation]

AutoInv == WorldInv /\ Good(DB) /\ ProcInv /\ QuietInv /\ ChildInv

LEMMA DBFields ==
  DB.row = row /\ DB.runs = runs /\ DB.keys = keys /\ DB.id = None /\ DB.full = FALSE
BY DEF DB

\* What a step does to the row ...
Calm == row' # None => \/ row'.status # "failed"
                       \/ row # None /\ row.status = "failed" /\ row'.token = row.token

LEMMA Committed ==
  ASSUME Good(DB), NEW d, Good(d), Commit(d)
  PROVE  Good(DB)' /\ row' = d.row
<1>1. d \in Db /\ ~d.full /\ (d.row # None => Sound(d.row) /\ Says(d.row, d.runs))
  BY DEF Good, IsDb, Commit
<1>2. row' = d.row /\ runs' = d.runs /\ keys' = d.keys
  BY DEF Commit
<1>3. /\ DB'.row = d.row /\ DB'.runs = d.runs /\ DB' \in Db
  BY <1>1, <1>2 DEF DB, Db
<1>4. Good(DB')
  BY <1>1, <1>3 DEF Good, IsDb
<1> QED BY <1>2, <1>4

LEMMA ReadOnly ==
  ASSUME Good(DB), ReadsRow
  PROVE  Good(DB)' /\ Calm
<1>1. DB' = DB /\ row' = row
  BY DEF ReadsRow, DB
<1>2. Good(DB')
  BY <1>1
<1> QED BY <1>1, <1>2 DEF Calm

\* A step on the columns of watchdogs and leases.
LEMMA RowStep ==
  ASSUME Good(DB), row # None, NEW r, Sound(r), row' = r, UNCHANGED <<runs, keys>>,
         r.run = row.run, r.fp = row.fp, r.pend = row.pend, r.prun = row.prun,
         r.token = row.token, r.status \in {row.status} \cup Waits
  PROVE  Good(DB)' /\ Calm
<1>1. DB \in Db /\ Says(row, runs) /\ r \in Row
  BY DBFields DEF Good, IsDb, Sound
<1>2. DB'.row = r /\ DB'.runs = runs /\ DB' \in Db
  BY <1>1 DEF DB, Db
<1>3. Good(DB')
  BY <1>1, <1>2 DEF Good, IsDb, Says
<1>4. Calm
  BY DEF Calm, Waits
<1> QED BY <1>3, <1>4

\* ... and to the processes.
Moves == \A u \in Tokens : proc'[u] # proc[u] => proc[u].pc # "none" \/ u \in Fresh

LEMMA Became ==
  ASSUME ProcInv, NEW t \in Tokens, proc[t].pc # "none",
         NEW p, IsProc(p), p.pred # t, Becomes(t, p)
  PROVE  ProcInv' /\ Moves
BY DEF ProcInv, Becomes, Moves

LEMMA StoodStill ==
  ASSUME ProcInv, UNCHANGED proc
  PROVE  ProcInv' /\ Moves
BY DEF ProcInv, Moves

LEMMA Quiet ==
  ASSUME Good(DB), QuietInv, Calm, Moves
  PROVE  QuietInv'
<1> SUFFICES ASSUME row' # None, row'.status = "failed" PROVE proc'[row'.token].pc = "none"
  BY DEF QuietInv
<1>1. row # None /\ row.status = "failed" /\ row'.token = row.token
  BY DEF Calm
<1>2. row.token \in Tokens
  BY <1>1, DBFields DEF Good, IsDb, Sound, Row
<1>3. proc[row.token].pc = "none" /\ row.token \notin Fresh
  BY <1>1 DEF QuietInv, Fresh
<1> QED BY <1>1, <1>2, <1>3 DEF Moves

-----------------------------------------------------------------------------
(* The processes.                                                            *)

LEMMA NobodyIs ==
  IsProc(Nobody) /\ Nobody.pred = None /\ Nobody.pc = "none"
BY DEF Nobody, IsProc, Proc, Coordinating

LEMMA WatcherIs ==
  ASSUME NEW pc \in {"watch", "contend"}, NEW pred \in Tokens \cup {None}
  PROVE  LET p == Watcher(pc, pred)
         IN  IsProc(p) /\ p.pred = pred /\ p.pc = pc
BY DEF Watcher, Nobody, IsProc, Proc, Coordinating

LEMMA ContenderIs ==
  ASSUME NEW pred \in Tokens \cup {None}
  PROVE  LET p == [Watcher("watch", pred) EXCEPT !.reg = TRUE]
         IN  IsProc(p) /\ p.pred = pred
BY DEF Watcher, Nobody, IsProc, Proc, Coordinating

LEMMA BootIs ==
  ASSUME NEW own \in Tokens, NEW f \in Generations, NEW pre \in Histories
  PROVE  LET p == [Nobody EXCEPT !.pc = "boot", !.own = own, !.fp = f, !.pre = pre]
         IN  IsProc(p) /\ p.pred = None
BY AutoAssumption DEF Nobody, IsProc, Proc, Coordinating

\* A coordinator, and what some of its states add.
LEMMA CoordinatorIs ==
  ASSUME NEW pc \in Coordinating \cup {"owner"}, NEW f \in Generations, NEW l \in Logs \cup {None}
  PROVE  LET p == Coordinator(pc, f, l)
         IN  /\ p \in Proc /\ p.pc = pc /\ p.fp = f /\ p.lp = l /\ p.pred = None
             /\ f # None
<1>1. Nobody \in Proc /\ Nobody.pred = None
  BY NobodyIs DEF IsProc
<1>2. f # None
  BY AutoAssumption
<1> HIDE DEF Nobody
<1> QED BY <1>1, <1>2 DEF Coordinator, Proc

LEMMA FailingIs ==
  ASSUME NEW f \in Generations, NEW l \in Logs, NEW reset \in BOOLEAN,
         NEW pre \in Histories \cup {None}
  PROVE  IsProc(Failing(f, l, reset, pre)) /\ Failing(f, l, reset, pre).pred = None
<1> DEFINE c == Coordinator("fail", f, l)
           p == [c EXCEPT !.reset = reset, !.pre = pre]
<1>1. c \in Proc /\ c.pc = "fail" /\ c.fp = f /\ c.lp = l /\ c.pred = None /\ f # None
  BY CoordinatorIs DEF Coordinating
<1> HIDE DEF c
<1>2. p \in Proc /\ p.pc = "fail" /\ p.fp = f /\ p.lp = l /\ p.pred = None
  BY <1>1 DEF Proc
<1>3. Failing(f, l, reset, pre) = p
  BY DEF Failing, c
<1> HIDE DEF p
<1> QED BY <1>1, <1>2, <1>3, AutoAssumption DEF IsProc, Coordinating

\* The ways in which the code makes a coordinator.
LEMMA Coordinators ==
  ASSUME NEW f \in Generations, NEW l \in Logs
  PROVE  /\ \A pc \in (Coordinating \cup {"owner"}) \ {"promote"} :
              \A x \in {l, None} :
                pc \in {"find", "owner"} \/ x = l =>
                  IsProc(Coordinator(pc, f, x)) /\ Coordinator(pc, f, x).pred = None
         /\ \A pc \in {"launch", "wait"} :
              \A pre \in Histories, rid \in RunIds \cup {None} :
                LET p == [Coordinator(pc, f, l) EXCEPT !.pre = pre, !.rid = rid]
                IN  IsProc(p) /\ p.pred = None
         /\ LET p == [Coordinator("finish", f, l) EXCEPT !.reset = TRUE]
            IN  IsProc(p) /\ p.pred = None
         /\ \A g \in Generations :
              LET p == [Coordinator("promote", f, l) EXCEPT !.pend = g]
              IN  IsProc(p) /\ p.pred = None
<1>1. ASSUME NEW pc \in (Coordinating \cup {"owner"}) \ {"promote"}, NEW x \in {l, None},
             pc \in {"find", "owner"} \/ x = l
      PROVE  IsProc(Coordinator(pc, f, x)) /\ Coordinator(pc, f, x).pred = None
  <2> DEFINE p == Coordinator(pc, f, x)
  <2>1. p \in Proc /\ p.pc = pc /\ p.fp = f /\ p.lp = x /\ p.pred = None /\ f # None
    BY CoordinatorIs
  <2> HIDE DEF p
  <2> QED BY <1>1, <2>1, AutoAssumption DEF IsProc, Coordinating, p
<1>2. ASSUME NEW pc \in {"launch", "wait"}, NEW pre \in Histories,
             NEW rid \in RunIds \cup {None}
      PROVE  LET p == [Coordinator(pc, f, l) EXCEPT !.pre = pre, !.rid = rid]
             IN  IsProc(p) /\ p.pred = None
  <2> DEFINE c == Coordinator(pc, f, l)
             p == [c EXCEPT !.pre = pre, !.rid = rid]
  <2>1. c \in Proc /\ c.pc = pc /\ c.fp = f /\ c.lp = l /\ c.pred = None /\ f # None
    BY CoordinatorIs DEF Coordinating
  <2> HIDE DEF c
  <2>2. p \in Proc /\ p.pc = pc /\ p.fp = f /\ p.lp = l /\ p.pred = None
    BY <2>1 DEF Proc
  <2> HIDE DEF p
  <2>3. IsProc(p)
    BY <2>1, <2>2, AutoAssumption DEF IsProc, Coordinating
  <2> QED BY <2>2, <2>3 DEF p, c
<1>3. LET p == [Coordinator("finish", f, l) EXCEPT !.reset = TRUE]
      IN  IsProc(p) /\ p.pred = None
  <2> DEFINE c == Coordinator("finish", f, l)
             p == [c EXCEPT !.reset = TRUE]
  <2>1. c \in Proc /\ c.pc = "finish" /\ c.fp = f /\ c.lp = l /\ c.pred = None /\ f # None
    BY CoordinatorIs DEF Coordinating
  <2> HIDE DEF c
  <2>2. p \in Proc /\ p.pc = "finish" /\ p.fp = f /\ p.lp = l /\ p.pred = None
    BY <2>1 DEF Proc
  <2> HIDE DEF p
  <2>3. IsProc(p)
    BY <2>1, <2>2, AutoAssumption DEF IsProc, Coordinating
  <2> QED BY <2>2, <2>3 DEF p, c
<1>4. ASSUME NEW g \in Generations
      PROVE  LET p == [Coordinator("promote", f, l) EXCEPT !.pend = g]
             IN  IsProc(p) /\ p.pred = None
  <2> DEFINE c == Coordinator("promote", f, l)
             p == [c EXCEPT !.pend = g]
  <2>1. c \in Proc /\ c.pc = "promote" /\ c.fp = f /\ c.lp = l /\ c.pred = None /\ f # None
    BY CoordinatorIs DEF Coordinating
  <2> HIDE DEF c
  <2>2. p \in Proc /\ p.pc = "promote" /\ p.fp = f /\ p.lp = l /\ p.pred = None /\ p.pend = g
    BY <2>1 DEF Proc
  <2> HIDE DEF p
  <2>3. IsProc(p)
    BY <2>1, <2>2, AutoAssumption DEF IsProc, Coordinating
  <2> QED BY <2>2, <2>3 DEF p, c
<1> QED BY <1>1, <1>2, <1>3, <1>4

LEMMA CoordinatorOf ==
  ASSUME NEW pc \in {"find", "owner", "owned", "finish", "defer"}, NEW f \in Generations,
         NEW l \in Logs \cup {None}, pc \in {"find", "owner"} \/ l \in Logs
  PROVE  IsProc(Coordinator(pc, f, l)) /\ Coordinator(pc, f, l).pred = None
<1>1. PICK k \in Logs : l \in {k, None} /\ (pc \in {"find", "owner"} \/ l = k)
  BY AutoAssumption
<1>2. pc \in (Coordinating \cup {"owner"}) \ {"promote"}
  BY DEF Coordinating
<1>3. \A q \in (Coordinating \cup {"owner"}) \ {"promote"} : \A x \in {k, None} :
        q \in {"find", "owner"} \/ x = k =>
          IsProc(Coordinator(q, f, x)) /\ Coordinator(q, f, x).pred = None
  BY Coordinators
<1> QED BY <1>1, <1>2, <1>3

-----------------------------------------------------------------------------
(* The world.                                                                *)

LEMMA LogFacts ==
  ASSUME WorldInv, NEW l \in Logs
  PROVE  /\ Status(l) \in {"unreadable", "covered", "uncompiled"}
         /\ Stamp(l) \in Generations /\ Marks(l) \in Histories
         /\ \A a \in Logs : Filed(a, l) \in Generations
         /\ \A pre \in Histories : Required(l, pre) \in Histories
<1>1. /\ log[l].n \in Nat /\ log[l].c \in Nat /\ log[l].m \in Nat /\ log[l].e \in Nat
      /\ log[l].ok \in BOOLEAN
  BY DEF WorldInv
<1>2. \A a \in Logs : Filed(a, l) \in Generations
  BY <1>1 DEF Filed, Generations
<1>3. Marks(l) \in Histories
  <2>1. <<l, log[l].e>> \in Nat \X Nat /\ <<0, 0>> \in Nat \X Nat
    BY <1>1, AutoAssumption
  <2> QED BY <1>1, <2>1 DEF Marks, Histories
<1> QED BY <1>2, <1>3 DEF Status, Stamp, Required

LEMMA FaultBound ==
  ASSUME WorldInv, UNCHANGED faults \/ \E k : Fault(k)
  PROVE  faults' \in 0 .. MaxFaults
BY AutoAssumption DEF WorldInv, Fault

LEMMA WorldStands ==
  ASSUME WorldInv, UNCHANGED world, UNCHANGED faults \/ \E k : Fault(k)
  PROVE  WorldInv'
<1>1. faults' \in 0 .. MaxFaults
  BY FaultBound
<1> QED BY <1>1 DEF WorldInv, world, Waiting

\* The markers of a log change, or whether it can be read.
LEMMA LogEdited ==
  ASSUME WorldInv, UNCHANGED <<today, busy, jobs, due, sched>>,
         UNCHANGED faults \/ \E k : Fault(k),
         NEW l \in Logs, NEW x, x \in [n : Nat, c : Nat, m : Nat, e : Nat, ok : BOOLEAN],
         x.n = log[l].n, x.c <= x.n, log' = [log EXCEPT ![l] = x]
  PROVE  WorldInv'
<1>1. faults' \in 0 .. MaxFaults
  BY FaultBound
<1>2. /\ log' \in [Logs -> [n : Nat, c : Nat, m : Nat, e : Nat, ok : BOOLEAN]]
      /\ \A k \in Logs : log'[k].n = log[k].n /\ log'[k].c <= log'[k].n
  BY DEF WorldInv
<1> QED BY <1>1, <1>2 DEF WorldInv, Waiting

LEMMA LogType ==
  ASSUME WorldInv, NEW l \in Logs
  PROVE  /\ log[l] \in [n : Nat, c : Nat, m : Nat, e : Nat, ok : BOOLEAN]
         /\ log[l].c <= log[l].n
BY DEF WorldInv

LEMMA MarksEdited ==
  ASSUME NEW y \in [n : Nat, c : Nat, m : Nat, e : Nat, ok : BOOLEAN],
         NEW c \in Nat, NEW m \in Nat, NEW e \in Nat
  PROVE  /\ LET x == [y EXCEPT !.c = c, !.m = m]
            IN  /\ x \in [n : Nat, c : Nat, m : Nat, e : Nat, ok : BOOLEAN]
                /\ x.n = y.n /\ x.c = c
         /\ LET x == [y EXCEPT !.c = c, !.m = m, !.e = e]
            IN  /\ x \in [n : Nat, c : Nat, m : Nat, e : Nat, ok : BOOLEAN]
                /\ x.n = y.n /\ x.c = c
OBVIOUS

LEMMA MarkedWorld ==
  ASSUME WorldInv, UNCHANGED <<today, busy, jobs, due, sched>>, UNCHANGED faults,
         NEW l \in Logs, log' = [log EXCEPT ![l].c = log[l].n, ![l].m = @ + 1]
  PROVE  WorldInv'
<1> DEFINE x == [log[l] EXCEPT !.c = log[l].n, !.m = @ + 1]
<1>1. /\ log[l] \in [n : Nat, c : Nat, m : Nat, e : Nat, ok : BOOLEAN]
      /\ log[l].n \in Nat /\ log[l].m + 1 \in Nat
  BY LogType
<1>2. /\ x \in [n : Nat, c : Nat, m : Nat, e : Nat, ok : BOOLEAN]
      /\ x.n = log[l].n /\ x.c = log[l].n /\ x.n \in Nat
  BY <1>1, MarksEdited
<1>3. log' = [log EXCEPT ![l] = x]
  BY DEF WorldInv
<1> HIDE DEF x
<1>4. x.c <= x.n
  BY <1>2
<1> QED BY <1>2, <1>3, <1>4, LogEdited

LEMMA UserWorld ==
  ASSUME WorldInv, User
  PROVE  WorldInv'
<1>1. CASE NewDay
  BY <1>1 DEF NewDay, WorldInv, Waiting
<1>2. ASSUME NEW l \in Logs, ManualCompile(l) PROVE WorldInv'
  BY <1>2, MarkedWorld DEF ManualCompile
<1>3. ASSUME NEW l \in Logs, RemoveMarkers(l) PROVE WorldInv'
  <2> DEFINE x == [log[l] EXCEPT !.c = 0, !.m = 0, !.e = @ + 1]
  <2>1. /\ log[l] \in [n : Nat, c : Nat, m : Nat, e : Nat, ok : BOOLEAN]
        /\ log[l].n \in Nat /\ log[l].e + 1 \in Nat
    BY LogType
  <2>2. /\ x \in [n : Nat, c : Nat, m : Nat, e : Nat, ok : BOOLEAN]
        /\ x.n = log[l].n /\ x.c = 0 /\ 0 <= log[l].n
    <3> DEFINE y == log[l]
               e == log[l].e + 1
    <3>1. x = [y EXCEPT !.c = 0, !.m = 0, !.e = e]
      BY DEF y, e
    <3>2. y \in [n : Nat, c : Nat, m : Nat, e : Nat, ok : BOOLEAN] /\ e \in Nat /\ y.n \in Nat
      BY <2>1
    <3> HIDE DEF y, e, x
    <3>3. 0 \in Nat
      OBVIOUS
    <3>4. LET z == [y EXCEPT !.c = 0, !.m = 0, !.e = e]
          IN  /\ z \in [n : Nat, c : Nat, m : Nat, e : Nat, ok : BOOLEAN]
              /\ z.n = y.n /\ z.c = 0
      BY <3>2, <3>3, MarksEdited
    <3>5. 0 <= y.n
      BY <3>2
    <3> QED BY <3>1, <3>4, <3>5 DEF y
  <2>3. log' = [log EXCEPT ![l] = x]
    BY <1>3 DEF WorldInv, RemoveMarkers
  <2> HIDE DEF x
  <2> QED BY <1>3, <2>2, <2>3, LogEdited DEF RemoveMarkers
<1>4. ASSUME NEW l \in Logs, Unreadable(l) \/ Readable(l) PROVE WorldInv'
  <2> PICK b \in BOOLEAN : log' = [log EXCEPT ![l].ok = b]
    BY <1>4 DEF Unreadable, Readable
  <2> DEFINE x == [log[l] EXCEPT !.ok = b]
  <2>1. /\ log[l] \in [n : Nat, c : Nat, m : Nat, e : Nat, ok : BOOLEAN]
        /\ log[l].c <= log[l].n
    BY LogType
  <2>2. /\ x \in [n : Nat, c : Nat, m : Nat, e : Nat, ok : BOOLEAN]
        /\ x.n = log[l].n /\ x.c <= x.n
    BY <2>1
  <2>3. log' = [log EXCEPT ![l] = x]
    BY DEF WorldInv
  <2> HIDE DEF x
  <2> QED BY <1>4, <2>2, <2>3, LogEdited DEF Unreadable, Readable
<1> QED BY <1>1, <1>2, <1>3, <1>4 DEF User

LEMMA WorkerWorld ==
  ASSUME WorldInv, Worker
  PROVE  WorldInv'
<1>1. CASE Enqueue
  BY <1>1 DEF Enqueue, WorldInv, Waiting
<1>2. ASSUME NEW wrote \in BOOLEAN, Drain(wrote) PROVE WorldInv'
  <2>1. CASE ~wrote
    <3>1. busy /\ ~busy' /\ UNCHANGED <<log, today, jobs, due, sched, faults>> /\ busy' \in BOOLEAN
      BY <1>2, <2>1 DEF Drain
    <3>2. ASSUME NEW l \in Logs PROVE log[l].n + jobs + 0 <= MaxJobs
      <4>1. log[l].n \in Nat /\ jobs \in Nat /\ log[l].n + jobs + 1 <= MaxJobs
        BY <3>1, LogType DEF WorldInv, Waiting
      <4> QED BY <4>1, AutoAssumption
    <3>3. due + jobs + 0 <= MaxJobs /\ Waiting' = 0
      BY <3>1, AutoAssumption DEF WorldInv, Waiting
    <3> QED BY <3>1, <3>2, <3>3 DEF WorldInv
  <2>2. CASE wrote
    <3> DEFINE x == [log[today] EXCEPT !.n = @ + 1]
    <3>1. /\ log[today] \in [n : Nat, c : Nat, m : Nat, e : Nat, ok : BOOLEAN]
          /\ log[today].c <= log[today].n
      BY LogType DEF WorldInv
    <3>2. /\ x \in [n : Nat, c : Nat, m : Nat, e : Nat, ok : BOOLEAN]
          /\ x.n = log[today].n + 1 /\ x.c = log[today].c
      BY <3>1
    <3>3. log' = [log EXCEPT ![today] = x] /\ due' = due + 1 /\ busy /\ ~busy'
      BY <1>2, <2>2 DEF Drain, WorldInv
    <3> HIDE DEF x
    <3>4. /\ log' \in [Logs -> [n : Nat, c : Nat, m : Nat, e : Nat, ok : BOOLEAN]]
          /\ log'[today] = x
          /\ \A l \in Logs : l # today => log'[l] = log[l]
      BY <3>2, <3>3 DEF WorldInv
    <3>5. ASSUME NEW l \in Logs
          PROVE  log'[l].c <= log'[l].n /\ log'[l].n + jobs + 0 <= MaxJobs
      <4>1. log[l].c \in Nat /\ log[l].n \in Nat
        BY LogType
      <4>2. log[l].c <= log[l].n /\ log[l].n + jobs + 1 <= MaxJobs /\ jobs \in Nat
        BY <3>3 DEF WorldInv, Waiting
      <4> QED BY <3>1, <3>2, <3>4, <4>1, <4>2, AutoAssumption
    <3>6. due' \in Nat /\ due' + jobs + 0 <= MaxJobs
      BY <3>3, AutoAssumption DEF WorldInv, Waiting
    <3>7. UNCHANGED <<today, jobs, sched, faults>> /\ Waiting' = 0 /\ busy' \in BOOLEAN
      BY <1>2, <3>3 DEF Drain, Waiting
    <3> QED BY <3>4, <3>5, <3>6, <3>7 DEF WorldInv
  <2> QED BY <2>1, <2>2
<1>3. ASSUME NEW asks \in BOOLEAN, Trigger(asks) PROVE WorldInv'
  <2>1. <<Stamp(today), Marks(today)>> \in Generations \X Histories
    BY LogFacts DEF WorldInv
  <2> QED BY <1>3, <2>1, AutoAssumption DEF Trigger, WorldInv, Waiting
<1>4. ASSUME NEW s \in sched, Schedule(s) \/ ScheduleAborts(s) PROVE WorldInv'
  <2>1. faults' \in 0 .. MaxFaults
    BY <1>4, FaultBound DEF Schedule, ScheduleAborts
  <2> QED BY <1>4, <2>1 DEF Schedule, ScheduleAborts, WorldInv, Waiting
<1> QED BY <1>1, <1>2, <1>3, <1>4 DEF Worker

LEMMA ChildAppliesWorld ==
  ASSUME WorldInv, NEW t \in Tokens, NEW ok \in BOOLEAN, ChildApplies(t, ok)
  PROVE  WorldInv'
<1> DEFINE l == child[t].read[1]
<1>1. \/ log' = [log EXCEPT ![l].c = log[l].n, ![l].m = @ + 1]
      \/ log' = log
  BY DEF ChildApplies
<1>2. UNCHANGED <<today, busy, jobs, due, sched, faults>>
  BY DEF ChildApplies
<1> HIDE DEF l
<1>3. CASE log' = log
  BY <1>2, <1>3, WorldStands DEF world
<1>4. CASE l \in Logs /\ log' = [log EXCEPT ![l].c = log[l].n, ![l].m = @ + 1]
  BY <1>2, <1>4, MarkedWorld
<1>5. CASE l \notin Logs /\ log' = [log EXCEPT ![l].c = log[l].n, ![l].m = @ + 1]
  <2>1. log' = log
    BY <1>5 DEF WorldInv
  <2> QED BY <1>3, <2>1
<1> QED BY <1>1, <1>3, <1>4, <1>5

LEMMA OthersWorld ==
  ASSUME WorldInv, NEW t \in Tokens, Process(t) \/ Child(t) \/ Mishap(t)
  PROVE  WorldInv'
<1>1. CASE Process(t)
  <2>1. UNCHANGED world /\ UNCHANGED faults
    BY <1>1 DEF Process, OwnerStarts, ContenderStarts, Bootstrap, PollKeeps, PollWaits, PollClaims,
         Find, Promote, Owned, Launch, LaunchRefused, Reap, RenewalLost, Fail, Finish, Defer
  <2> QED BY <2>1, WorldStands
<1>2. CASE Mishap(t)
  <2>1. UNCHANGED world /\ \E k : Fault(k)
    BY <1>2 DEF Mishap, ClaimAborts, SessionOpen, LaunchAborts, ChildMeetsProbe, ChildRaises, Crash
  <2> QED BY <2>1, WorldStands
<1>3. CASE ChildStarts(t) \/ ChildReads(t) \/ ChildEnds(t)
  BY <1>3, WorldStands DEF ChildStarts, ChildReads, ChildEnds
<1>4. ASSUME NEW ok \in BOOLEAN, ChildApplies(t, ok) PROVE WorldInv'
  BY <1>4, ChildAppliesWorld
<1> QED BY <1>1, <1>2, <1>3, <1>4 DEF Child

LEMMA WorldKept ==
  ASSUME WorldInv, Next
  PROVE  WorldInv'
<1>1. CASE Expiry \/ Rest
  <2>1. UNCHANGED world
    BY <1>1 DEF Expiry, OwnerExpires, WatcherExpires, ContenderExpires, Rest, vars, world
  <2>2. UNCHANGED faults \/ \E k : Fault(k)
    BY <1>1 DEF Expiry, OwnerExpires, WatcherExpires, ContenderExpires, Rest, vars, NoFault
  <2> QED BY <2>1, <2>2, WorldStands
<1> QED BY <1>1, WorkerWorld, UserWorld, OthersWorld DEF Next

-----------------------------------------------------------------------------
(* The children.                                                             *)

LEMMA ChildSet ==
  ASSUME ChildInv, NEW t \in Tokens, NEW c \in Compilation, child' = [child EXCEPT ![t] = c]
  PROVE  ChildInv'
BY DEF ChildInv

LEMMA NoChildIs ==
  /\ NoChild \in Compilation
  /\ \A code \in {"ok", "bad", "held"} : [NoChild EXCEPT !.pc = code] \in Compilation
BY DEF NoChild, Compilation

LEMMA Ended ==
  ASSUME ChildInv, NEW t \in Tokens, NEW code \in {"ok", "bad", "held"}, Ends(t, code)
  PROVE  ChildInv'
BY NoChildIs, ChildSet DEF Ends, ChildBecomes

LEMMA ChildActs ==
  ASSUME WorldInv, ChildInv, NEW t \in Tokens,
         Child(t) \/ ChildMeetsProbe(t) \/ ChildRaises(t)
  PROVE  ChildInv'
<1> DEFINE c == child[t]
<1>0. c \in Compilation
  BY DEF ChildInv
<1>1. CASE ChildStarts(t)
  <2>1. CASE LockHeld
    BY <1>1, <2>1, Ended DEF ChildStarts
  <2>2. CASE ~LockHeld
    <3> DEFINE todo == {l \in Logs : Status(l) = "uncompiled"}
               x == [c EXCEPT !.pc = "work", !.todo = todo]
    <3>1. todo \in SUBSET Logs
      OBVIOUS
    <3> HIDE DEF todo
    <3>2. x \in Compilation
      BY <1>0, <3>1 DEF Compilation
    <3>3. child' = [child EXCEPT ![t] = x]
      BY <1>1, <2>2 DEF ChildStarts, ChildBecomes, todo
    <3> HIDE DEF x
    <3> QED BY <3>2, <3>3, ChildSet
  <2> QED BY <2>1, <2>2
<1>2. CASE ChildReads(t)
  <2> DEFINE l == Least(c.todo)
             read == IF Status(l) = "uncompiled" THEN Stamp(l) ELSE None
             todo == IF Status(l) = "uncompiled" THEN c.todo ELSE c.todo \ {l}
             x == [c EXCEPT !.read = read, !.todo = todo]
  <2>1. c.todo # {} /\ c.todo \in SUBSET Logs /\ c.todo \in SUBSET Nat
    BY <1>0, <1>2, AutoAssumption DEF ChildReads, Compilation
  <2>2. l \in Logs
    BY <2>1, LeastNat
  <2>3. child' = [child EXCEPT ![t] = x]
    BY <1>0, <1>2 DEF ChildReads, ChildBecomes, Compilation
  <2> HIDE DEF l
  <2>4. read \in Generations \cup {None} /\ todo \in SUBSET Logs
    BY <2>1, <2>2, LogFacts
  <2> HIDE DEF read, todo
  <2>5. x \in Compilation
    BY <1>0, <2>4 DEF Compilation
  <2> HIDE DEF x
  <2> QED BY <2>3, <2>5, ChildSet
<1>3. ASSUME NEW ok \in BOOLEAN, ChildApplies(t, ok) PROVE ChildInv'
  <2> DEFINE l == c.read[1]
             todo == c.todo \ {l}
             x == [c EXCEPT !.read = None, !.todo = todo]
  <2>1. child' = [child EXCEPT ![t] = x]
    BY <1>0, <1>3 DEF ChildApplies, ChildBecomes, Compilation
  <2>2. todo \in SUBSET Logs
    BY <1>0 DEF Compilation
  <2> HIDE DEF todo
  <2>3. x \in Compilation
    BY <1>0, <2>2 DEF Compilation
  <2> HIDE DEF x
  <2> QED BY <2>1, <2>3, ChildSet
<1>4. CASE ChildEnds(t) \/ ChildMeetsProbe(t) \/ ChildRaises(t)
  BY <1>4, Ended DEF ChildEnds, ChildMeetsProbe, ChildRaises
<1> QED BY <1>1, <1>2, <1>3, <1>4 DEF Child

-----------------------------------------------------------------------------
(* The actions, one by one.                                                  *)

Kept == Good(DB)' /\ ProcInv' /\ QuietInv' /\ ChildInv'

LEMMA KeptBy ==
  ASSUME AutoInv, Good(DB)', Calm, ProcInv', Moves, ChildInv'
  PROVE  Kept
BY Quiet DEF Kept, AutoInv

LEMMA ChildStands ==
  ASSUME AutoInv, UNCHANGED child
  PROVE  ChildInv'
BY DEF AutoInv, ChildInv

LEMMA RowFacts ==
  ASSUME AutoInv, row # None
  PROVE  Sound(row) /\ row \in Row /\ Says(row, runs)
BY DBFields DEF AutoInv, Good, IsDb, Sound

LEMMA GenerationLog ==
  ASSUME NEW f \in Generations
  PROVE  f[1] \in Logs /\ f[2] \in Logs /\ f # None
BY AutoAssumption DEF Generations

LEMMA ProcFacts ==
  ASSUME AutoInv, NEW t \in Tokens
  PROVE  LET p == proc[t]
         IN  /\ p \in Proc /\ t # None
             /\ p.pc = "boot" => p.own \in Tokens /\ p.fp \in Generations /\ p.pre \in Histories
             /\ p.pc \in Coordinating \cup {"owner"} => p.fp \in Generations
             /\ p.pc \in Coordinating \ {"find"} => p.lp \in Logs
             /\ p.pc = "promote" => p.pend \in Generations
             /\ p.pre \in Histories \cup {None}
             /\ p.reset \in BOOLEAN
             /\ p.pred \in Tokens \cup {None}
             /\ p.rid \in RunIds \cup {None}
<1>1. IsProc(proc[t]) /\ t # None
  BY AutoAssumption DEF AutoInv, ProcInv
<1> QED BY <1>1 DEF IsProc, Proc

LEMMA ExpiryKeeps ==
  ASSUME AutoInv, Expiry
  PROVE  Kept
<1>1. row # None /\ UNCHANGED <<runs, keys, proc, child>>
  BY DEF Expiry, OwnerExpires, WatcherExpires, ContenderExpires
<1>2. Sound(row) /\ row \in Row
  BY <1>1, RowFacts
<1>3. ASSUME NEW r, row' = r, r \in Row, r.run = row.run, r.fp = row.fp, r.pend = row.pend,
             r.prun = row.prun, r.token = row.token, r.status = row.status, r.ppre = row.ppre,
             r.cont = row.cont, r.cpred = row.cpred, r.tries = row.tries
      PROVE  Kept
  <2>1. Sound(r)
    BY <1>2, <1>3 DEF Sound
  <2>2. Good(DB)' /\ Calm
    BY <1>1, <1>3, <2>1, RowStep DEF AutoInv
  <2> QED BY <1>1, <2>2, StoodStill, ChildStands, KeptBy DEF AutoInv
<1>4. CASE row' = [row EXCEPT !.live = FALSE]
  <2> DEFINE r == [row EXCEPT !.live = FALSE]
  <2>1. r \in Row
    BY <1>2 DEF Row
  <2> QED BY <1>2, <1>3, <1>4, <2>1 DEF Row
<1>5. CASE row' = [row EXCEPT !.wlive = FALSE]
  <2> DEFINE r == [row EXCEPT !.wlive = FALSE]
  <2>1. r \in Row
    BY <1>2 DEF Row
  <2> QED BY <1>2, <1>3, <1>5, <2>1 DEF Row
<1>6. CASE row' = [row EXCEPT !.clive = FALSE]
  <2> DEFINE r == [row EXCEPT !.clive = FALSE]
  <2>1. r \in Row
    BY <1>2 DEF Row
  <2> QED BY <1>2, <1>3, <1>6, <2>1 DEF Row
<1> QED BY <1>4, <1>5, <1>6 DEF Expiry, OwnerExpires, WatcherExpires, ContenderExpires

\* A step of process t that leaves the row and the children alone.
LEMMA OnlyProc ==
  ASSUME AutoInv, NEW t \in Tokens, proc[t].pc # "none", ReadsRow, UNCHANGED child,
         NEW p, IsProc(p), p.pred # t, Becomes(t, p)
  PROVE  Kept
BY ReadOnly, Became, ChildStands, KeptBy DEF AutoInv

LEMMA ExitIs ==
  ASSUME NEW t \in Tokens
  PROVE  IsProc(Nobody) /\ Nobody.pred # t
BY NobodyIs, AutoAssumption

LEMMA OwnerStartsKeeps ==
  ASSUME AutoInv, NEW t \in Tokens, OwnerStarts(t)
  PROVE  Kept
<1>1. proc[t].pc = "owner" /\ proc[t].fp \in Generations /\ t # None
  BY ProcFacts DEF OwnerStarts
<1> DEFINE p == Coordinator("find", proc[t].fp, None)
<1>2. IsProc(p) /\ p.pred = None
  <2>1. PICK l : l \in Logs
    BY AutoAssumption
  <2> QED BY <1>1, <2>1, Coordinators DEF Coordinating
<1> HIDE DEF p
<1>3. Becomes(t, p) \/ Becomes(t, Nobody)
  BY DEF OwnerStarts, Exits, p
<1> QED BY <1>1, <1>2, <1>3, ExitIs, OnlyProc DEF OwnerStarts

LEMMA ContenderStartsKeeps ==
  ASSUME AutoInv, NEW t \in Tokens, ContenderStarts(t)
  PROVE  Kept
<1> DEFINE p == [Watcher("watch", proc[t].pred) EXCEPT !.reg = TRUE]
<1>1. proc[t].pc = "contend" /\ proc[t].pred \in Tokens \cup {None} /\ proc[t].pred # t
  BY ProcFacts DEF ContenderStarts, AutoInv, ProcInv
<1>2. IsProc(p) /\ p.pred # t
  BY <1>1, ContenderIs
<1> HIDE DEF p
<1>3. Becomes(t, p) \/ Becomes(t, Nobody)
  BY DEF ContenderStarts, Exits, p
<1> QED BY <1>1, <1>2, <1>3, ExitIs, OnlyProc DEF ContenderStarts

LEMMA BootstrapKeeps ==
  ASSUME AutoInv, NEW t \in Tokens, Bootstrap(t)
  PROVE  Kept
<1> DEFINE p == proc[t]
           c == Created(DB, p.fp)
           r == Request(p.own, FALSE, t, p.fp, p.pre, c.id)
           d == [c EXCEPT !.row = r]
           w == Watcher("watch", None)
<1>1. p.pc = "boot" /\ p.own \in Tokens /\ p.fp \in Generations /\ p.pre \in Histories
  BY ProcFacts DEF Bootstrap
<1>2. IsProc(w) /\ w.pred # t
  <2>1. IsProc(w) /\ w.pred = None
    BY WatcherIs
  <2> QED BY <2>1, AutoAssumption
<1>3. \/ (Becomes(t, Nobody) \/ Becomes(t, w)) /\ ReadsRow
      \/ Commit(d) /\ Becomes(t, w)
  BY DEF Bootstrap, Exits
<1>4. Good(d) /\ d.row # None /\ d.row.status = None
  <2>1. /\ p.own \in Tokens /\ p.fp \in Generations /\ p.pre \in Histories
        /\ Good(DB)
    BY <1>1 DEF AutoInv
  <2>2. \E live \in BOOLEAN : r = Request(p.own, live, t, p.fp, p.pre, c.id)
    <3> WITNESS FALSE \in BOOLEAN
    <3> QED OBVIOUS
  <2> HIDE DEF r, p
  <2>3. Good(d) /\ d.row = r /\ r # None /\ r.status = None
    BY <2>1, <2>2, NewRequestGood
  <2> QED BY <2>3
<1> HIDE DEF w, d
<1>5. UNCHANGED child
  BY DEF Bootstrap
<1>6. CASE (Becomes(t, Nobody) \/ Becomes(t, w)) /\ ReadsRow
  BY <1>1, <1>2, <1>5, <1>6, ExitIs, OnlyProc
<1>7. CASE Commit(d) /\ Becomes(t, w)
  <2>1. Good(DB)' /\ row' = d.row
    BY <1>4, <1>7, Committed DEF AutoInv
  <2>2. Calm
    BY <1>4, <2>1, AutoAssumption DEF Calm
  <2>3. ProcInv' /\ Moves
    BY <1>1, <1>2, <1>7, Became DEF AutoInv
  <2> QED BY <1>5, <2>1, <2>2, <2>3, ChildStands, KeptBy
<1> QED BY <1>3, <1>6, <1>7

\* A step of process t that commits the transaction d.
LEMMA CommitKeeps ==
  ASSUME AutoInv, NEW t \in Tokens, proc[t].pc # "none", NEW d, Good(d), Commit(d),
         d.row # None => \/ d.row.status # "failed"
                         \/ row # None /\ row.status = "failed" /\ d.row.token = row.token,
         NEW p, IsProc(p), p.pred # t, Becomes(t, p), ChildInv'
  PROVE  Kept
<1>1. Good(DB)' /\ row' = d.row
  BY Committed DEF AutoInv
<1>2. Calm
  BY <1>1 DEF Calm
<1>3. ProcInv' /\ Moves
  BY Became DEF AutoInv
<1> QED BY <1>1, <1>2, <1>3, KeptBy

LEMMA YieldsCalm ==
  ASSUME AutoInv, row # None, row.status # "failed", NEW live \in BOOLEAN, NEW reason \in Waits,
         row' = [row EXCEPT !.live = live, !.status = reason], UNCHANGED <<runs, keys>>
  PROVE  Good(DB)' /\ Calm
<1> DEFINE r == [row EXCEPT !.live = live, !.status = reason]
<1>1. Sound(row) /\ row \in Row
  BY RowFacts
<1>2. r \in Row
  BY <1>1 DEF Row, Waits
<1>3. /\ r.run = row.run /\ r.fp = row.fp /\ r.pend = row.pend /\ r.prun = row.prun
      /\ r.token = row.token /\ r.status = reason /\ r.ppre = row.ppre
      /\ r.cont = row.cont /\ r.cpred = row.cpred /\ r.tries = row.tries
  BY <1>1 DEF Row
<1>4. row' = r
  OBVIOUS
<1> HIDE DEF r
<1>5. Sound(r)
  BY <1>1, <1>2, <1>3 DEF Sound
<1> QED BY <1>3, <1>4, <1>5, RowStep DEF AutoInv

LEMMA ExitKeeps ==
  ASSUME AutoInv, NEW t \in Tokens, proc[t].pc # "none", ReadsRow, UNCHANGED child, Exits(t)
  PROVE  Kept
BY ExitIs, OnlyProc DEF Exits

LEMMA PollKeepsKeeps ==
  ASSUME AutoInv, NEW t \in Tokens, PollKeeps(t)
  PROVE  Kept
<1>1. proc[t].pc = "watch" /\ UNCHANGED child
  BY DEF PollKeeps
<1>2. CASE Exits(t) /\ ReadsRow
  BY <1>1, <1>2, ExitKeeps
<1>3. CASE /\ Standing(t) = "queued"
           /\ row' = [Takes(t) EXCEPT !.clive = TRUE]
           /\ UNCHANGED <<runs, keys, proc>>
  <2>1. row # None
    BY <1>3 DEF Standing
  <2>2. Sound(row) /\ row \in Row
    BY <2>1, RowFacts
  <2>3. CASE ~Inherits(t)
    <3> DEFINE r == [row EXCEPT !.clive = TRUE]
    <3>1. row' = r
      BY <1>3, <2>3 DEF Takes
    <3>2. r \in Row
      BY <2>2 DEF Row
    <3>3. /\ r.run = row.run /\ r.fp = row.fp /\ r.pend = row.pend /\ r.prun = row.prun
          /\ r.token = row.token /\ r.status = row.status /\ r.ppre = row.ppre
          /\ r.cont = row.cont /\ r.cpred = row.cpred /\ r.tries = row.tries
      BY <2>2 DEF Row
    <3> HIDE DEF r
    <3>4. Sound(r)
      BY <2>2, <3>2, <3>3 DEF Sound
    <3>5. Good(DB)' /\ Calm
      BY <1>3, <2>1, <3>1, <3>3, <3>4, RowStep DEF AutoInv
    <3> QED BY <1>1, <1>3, <3>5, StoodStill, ChildStands, KeptBy DEF AutoInv
  <2>4. CASE Inherits(t)
    <3> DEFINE r == [[row EXCEPT !.cont = t, !.clive = TRUE] EXCEPT !.clive = TRUE]
    <3>1. row' = r
      BY <1>3, <2>4 DEF Takes
    <3>2. r \in Row
      BY <2>2 DEF Row
    <3>3. /\ r.run = row.run /\ r.fp = row.fp /\ r.pend = row.pend /\ r.prun = row.prun
          /\ r.token = row.token /\ r.status = row.status /\ r.ppre = row.ppre
          /\ r.cont = t /\ r.cpred = row.cpred /\ r.tries = row.tries
      BY <2>2 DEF Row
    <3>4. row.cont # None /\ t # None
      BY <2>4, AutoAssumption DEF Inherits
    <3> HIDE DEF r
    <3>5. Sound(r)
      BY <2>2, <3>2, <3>3, <3>4 DEF Sound
    <3>6. Good(DB)' /\ Calm
      BY <1>3, <2>1, <3>1, <3>3, <3>5, RowStep DEF AutoInv
    <3> QED BY <1>1, <1>3, <3>6, StoodStill, ChildStands, KeptBy DEF AutoInv
  <2> QED BY <2>3, <2>4
<1> QED BY <1>2, <1>3 DEF PollKeeps

LEMMA PolledFacts ==
  ASSUME AutoInv, row # None, NEW t \in Tokens
  PROVE  LET r == Polled(t)
         IN  /\ Sound(r) /\ Same(row, r)
<1>1. Sound(row) /\ row \in Row
  BY RowFacts
<1>2. CASE Standing(t) = "registered"
  BY <1>1, <1>2 DEF Polled, Same, Wants
<1>3. CASE Standing(t) # "registered"
  <2> DEFINE r == [NoContender(row) EXCEPT !.watcher = t]
  <2>1. Polled(t) = r
    BY <1>3 DEF Polled
  <2>2. r \in Row
    BY <1>1 DEF Row, NoContender
  <2>3. /\ r.run = row.run /\ r.fp = row.fp /\ r.pend = row.pend /\ r.prun = row.prun
        /\ r.token = row.token /\ r.status = row.status /\ r.ppre = row.ppre
        /\ r.pre = row.pre
        /\ r.cont = None /\ r.cpred = None /\ r.tries = row.tries
    BY <1>1 DEF Row, NoContender
  <2> HIDE DEF r
  <2>4. Sound(r) /\ r # None
    BY <1>1, <2>2, <2>3, AutoAssumption DEF Sound
  <2> QED BY <2>1, <2>3, <2>4 DEF Same, Wants
<1> QED BY <1>2, <1>3

LEMMA PollWaitsKeeps ==
  ASSUME AutoInv, NEW t \in Tokens, PollWaits(t)
  PROVE  Kept
<1> DEFINE r == Polled(t)
<1>1. proc[t].pc = "watch" /\ row # None /\ UNCHANGED <<child, runs, keys>>
  BY DEF PollWaits
<1>2. Sound(r) /\ Same(row, r) /\ r \in Row
  BY <1>1, PolledFacts DEF Sound
<1>3. \/ row' = [r EXCEPT !.watcher = None, !.wlive = FALSE] /\ Exits(t)
      \/ /\ \E s \in {r.status, "read_wait"} : row' = [r EXCEPT !.wlive = TRUE, !.status = s]
         /\ r.status # "failed" /\ UNCHANGED proc
  <2>1. row' = [r EXCEPT !.wlive = TRUE,
                         !.status = IF busy \/ r.live \/ LockHeld THEN @ ELSE "read_wait"]
        => \E s \in {r.status, "read_wait"} : row' = [r EXCEPT !.wlive = TRUE, !.status = s]
    <3> HIDE DEF r
    <3> QED BY <1>2 DEF Row
  <2> QED BY <2>1 DEF PollWaits
<1> HIDE DEF r
<1>4. CASE row' = [r EXCEPT !.watcher = None, !.wlive = FALSE] /\ Exits(t)
  <2> DEFINE q == [r EXCEPT !.watcher = None, !.wlive = FALSE]
  <2>1. q \in Row
    BY <1>2 DEF Row
  <2>2. /\ q.run = r.run /\ q.fp = r.fp /\ q.pend = r.pend /\ q.prun = r.prun
        /\ q.token = r.token /\ q.status = r.status /\ q.ppre = r.ppre
        /\ q.cont = r.cont /\ q.cpred = r.cpred /\ q.tries = r.tries
    BY <1>2 DEF Row
  <2>3. row' = q
    BY <1>4
  <2> HIDE DEF q
  <2>4. Sound(q)
    BY <1>2, <2>1, <2>2 DEF Sound
  <2>5. Good(DB)' /\ Calm
    BY <1>1, <1>2, <2>2, <2>3, <2>4, RowStep DEF AutoInv, Same, Wants
  <2>6. ProcInv' /\ Moves
    BY <1>1, <1>4, ExitIs, Became DEF AutoInv, Exits
  <2> QED BY <1>1, <2>5, <2>6, ChildStands, KeptBy
<1>5. ASSUME NEW s \in {r.status, "read_wait"}, row' = [r EXCEPT !.wlive = TRUE, !.status = s],
             r.status # "failed", UNCHANGED proc
      PROVE  Kept
  <2> DEFINE q == [r EXCEPT !.wlive = TRUE, !.status = s]
  <2>1. q \in Row
    BY <1>2 DEF Row, Waits
  <2>2. /\ q.run = r.run /\ q.fp = r.fp /\ q.pend = r.pend /\ q.prun = r.prun
        /\ q.token = r.token /\ q.status = s /\ q.ppre = r.ppre
        /\ q.cont = r.cont /\ q.cpred = r.cpred /\ q.tries = r.tries
    BY <1>2 DEF Row
  <2>3. row' = q
    BY <1>5
  <2> HIDE DEF q
  <2>4. Sound(q)
    BY <1>2, <1>5, <2>1, <2>2 DEF Sound
  <2>5. Good(DB)' /\ Calm
    BY <1>1, <1>2, <2>2, <2>3, <2>4, RowStep DEF AutoInv, Same, Wants, Waits
  <2> QED BY <1>1, <1>5, <2>5, StoodStill, ChildStands, KeptBy DEF AutoInv
<1> QED BY <1>3, <1>4, <1>5

LEMMA ObservedIsSeen ==
  ASSUME AutoInv, NEW r, Sound(r), ~Covered(r), ~CannotRead(r)
  PROVE  IsSeen(Observed(r))
<1> DEFINE a == r.fp[1]
           ended == Status(a) = "covered"
           rest == r.pend # None /\ Status(r.pend[1]) = "uncompiled"
           other == rest /\ r.pend[1] # a
           first == ~Extends(Marks(a), r.pre) \/ (ended /\ ~Progressed(a, r.pre))
           s == [fp |-> Stamp(r.pend[1]), pre |-> r.ppre, pend |-> None, ppre |-> None]
           p == IF other THEN Stamp(r.pend[1]) ELSE None
           q == IF other THEN r.ppre ELSE None
           u == [fp |-> Stamp(a), pre |-> Required(a, r.pre), pend |-> p, ppre |-> q]
<1>1. /\ r \in Row /\ r.fp \in Generations /\ r.pre \in Histories
      /\ r.pend \in Generations \cup {None} /\ r.ppre \in Histories \cup {None}
      /\ (r.pend = None) = (r.ppre = None)
  BY DEF Sound, Row
<1>2. a \in Logs /\ (r.pend # None => r.pend[1] \in Logs)
  BY <1>1, GenerationLog
<1>3. /\ Stamp(a) \in Generations /\ Required(a, r.pre) \in Histories
      /\ r.pend # None => Stamp(r.pend[1]) \in Generations
  BY <1>1, <1>2, LogFacts DEF AutoInv
<1>4. Observed(r) = IF first THEN Retained(r) ELSE IF ended THEN s ELSE u
  BY DEF Observed
<1>5. CASE first
  BY <1>1, <1>4, <1>5 DEF Retained, IsSeen, Seen
<1>6. CASE ~first /\ ended
  <2>1. r.pend # None
    <3>1. Status(a) = "covered" /\ Progressed(a, r.pre)
      BY <1>6
    <3> QED BY <3>1 DEF Covered
  <2>2. Observed(r) = s
    BY <1>4, <1>6
  <2> HIDE DEF first, ended, a
  <2> QED BY <1>1, <1>3, <2>1, <2>2 DEF IsSeen, Seen
<1>7. CASE ~first /\ ~ended
  <2>1. /\ p \in Generations \cup {None} /\ q \in Histories \cup {None}
        /\ (p = None) = (q = None)
    BY <1>1, <1>3, GenerationLog
  <2>2. Observed(r) = u
    BY <1>4, <1>7
  <2> HIDE DEF first, ended, p, q, a
  <2> QED BY <1>1, <1>3, <2>1, <2>2 DEF IsSeen, Seen
<1> QED BY <1>5, <1>6, <1>7

\* A watchdog is spawned, and takes over from t.
LEMMA SuccessorIs ==
  ASSUME AutoInv, NEW t \in Tokens, CanClaim(t)
  PROVE  /\ Fresh1 \in Fresh /\ Fresh1 \in Tokens /\ Fresh1 # t
         /\ IsProc(Watcher("watch", t)) /\ Watcher("watch", t).pred = t
<1>1. Fresh # {} /\ Fresh \in SUBSET Nat /\ proc[t].pc = "watch"
  BY AutoAssumption DEF CanClaim, Fresh
<1>2. Fresh1 \in Fresh
  BY <1>1, LeastNat DEF Fresh1
<1>3. Fresh1 \in Tokens /\ Fresh1 # t
  BY <1>1, <1>2 DEF Fresh
<1> QED BY <1>2, <1>3, WatcherIs

LEMMA Relieved ==
  ASSUME AutoInv, NEW t \in Tokens, CanClaim(t), NEW p, IsProc(p), p.pred # t,
         proc' = [proc EXCEPT ![t] = p, ![Fresh1] = Watcher("watch", t)]
  PROVE  ProcInv' /\ Moves
<1> DEFINE w == Watcher("watch", t)
<1>1. Fresh1 \in Fresh /\ Fresh1 \in Tokens /\ Fresh1 # t /\ IsProc(w) /\ w.pred = t
  BY SuccessorIs
<1>2. proc[t].pc # "none"
  BY DEF CanClaim
<1> HIDE DEF w
<1>3. proc' = [u \in Tokens |-> IF u = Fresh1 THEN w ELSE IF u = t THEN p ELSE proc[u]]
  BY <1>1 DEF AutoInv, ProcInv, w
<1>4. ProcInv'
  BY <1>1, <1>3 DEF AutoInv, ProcInv
<1>5. Moves
  BY <1>1, <1>2, <1>3 DEF Moves
<1> QED BY <1>4, <1>5

LEMMA PollClaimsKeeps ==
  ASSUME AutoInv, NEW t \in Tokens, PollClaims(t)
  PROVE  Kept
<1> DEFINE r == Polled(t)
           d == [DB EXCEPT !.row = r]
<1>1. CanClaim(t) /\ UNCHANGED child /\ row # None /\ proc[t].pc = "watch"
  BY DEF PollClaims, CanClaim
<1>2. r.status # "failed" /\ ~CannotRead(r)
  BY <1>1 DEF CanClaim
<1>3. Sound(r) /\ Same(row, r) /\ Says(row, runs)
  BY <1>1, PolledFacts, RowFacts
<1>4. \/ Covered(d.row) /\ Commit(Deleted(d, TRUE)) /\ Exits(t)
      \/ ~Covered(d.row) /\ LET seen == Observed(d.row)
                            IN  /\ Commit(Claimed(t, d, Fresh1, seen))
                                /\ proc' = [proc EXCEPT ![t] = Coordinator("find", seen.fp, None),
                                                        ![Fresh1] = Watcher("watch", t)]
  BY DEF PollClaims
<1>5. Good(d) /\ d.row = r
  <2>1. Says(r, DB.runs) /\ IsDb(DB)
    BY <1>3, DBFields DEF AutoInv, Good, Says, Same, Wants
  <2> HIDE DEF r
  <2> QED BY <1>3, <2>1, PutRow
<1>6. r # None
  BY <1>3 DEF Same, Wants
<1> HIDE DEF d, r
<1>7. CASE Covered(d.row) /\ Commit(Deleted(d, TRUE)) /\ Exits(t)
  <2> DEFINE e == Deleted(d, TRUE)
  <2>1. Good(e) /\ e.row = None
    BY <1>5, <1>6, DeletedGood
  <2> HIDE DEF e
  <2>2. ChildInv' /\ Commit(e)
    BY <1>1, <1>7, ChildStands DEF e
  <2> QED BY <1>1, <1>7, <2>1, <2>2, ExitIs, CommitKeeps DEF Exits
<1>8. CASE ~Covered(d.row) /\ LET seen == Observed(d.row)
                              IN  /\ Commit(Claimed(t, d, Fresh1, seen))
                                  /\ proc' = [proc EXCEPT ![t] = Coordinator("find", seen.fp, None),
                                                          ![Fresh1] = Watcher("watch", t)]
  <2> DEFINE seen == Observed(d.row)
             e == Claimed(t, d, Fresh1, seen)
             p == Coordinator("find", seen.fp, None)
  <2>1. IsSeen(seen) /\ seen.fp \in Generations
    BY <1>2, <1>3, <1>5, <1>8, ObservedIsSeen DEF IsSeen, Seen
  <2>2. Commit(e) /\ proc' = [proc EXCEPT ![t] = p, ![Fresh1] = Watcher("watch", t)]
    BY <1>8
  <2>3. Fresh1 \in Tokens
    BY <1>1, SuccessorIs
  <2> HIDE DEF seen
  <2>4. Good(e) /\ e.row # None /\ e.row.status = None
    BY <1>2, <1>5, <1>6, <2>1, <2>3, ClaimedGood
  <2>5. IsProc(p) /\ p.pred = None
    <3>1. PICK l : l \in Logs
      BY AutoAssumption
    <3> QED BY <2>1, <3>1, Coordinators DEF Coordinating
  <2> HIDE DEF e, p
  <2>6. Good(DB)' /\ row' = e.row
    BY <2>2, <2>4, Committed DEF AutoInv
  <2>7. Calm
    BY <2>4, <2>6, AutoAssumption DEF Calm
  <2>8. ProcInv' /\ Moves
    BY <1>1, <2>2, <2>5, AutoAssumption, Relieved
  <2> QED BY <1>1, <2>6, <2>7, <2>8, ChildStands, KeptBy
<1> QED BY <1>4, <1>7, <1>8

LEMMA ClaimAbortsKeeps ==
  ASSUME AutoInv, NEW t \in Tokens, ClaimAborts(t)
  PROVE  Kept
<1>1. CanClaim(t) /\ ReadsRow /\ UNCHANGED child
  BY DEF ClaimAborts
<1>2. PICK p \in {proc[t], Nobody} :
        proc' = [proc EXCEPT ![t] = p, ![Fresh1] = Watcher("watch", t)]
  BY DEF ClaimAborts
<1>3. IsProc(p) /\ p.pred # t
  BY ExitIs DEF AutoInv, ProcInv
<1>4. ProcInv' /\ Moves
  BY <1>1, <1>2, <1>3, Relieved
<1>5. Good(DB)' /\ Calm
  BY <1>1, ReadOnly DEF AutoInv
<1> QED BY <1>1, <1>4, <1>5, ChildStands, KeptBy

LEMMA EnsuredRow ==
  ASSUME AutoInv
  PROVE  LET d == Ensured(DB)
         IN  /\ Good(d) /\ (d.row = None) = (row = None)
             /\ d.row # None => /\ Sound(d.row) /\ Wants(row, d.row)
                                /\ \/ d.row.status # "failed"
                                   \/ /\ row # None /\ row.status = "failed"
                                      /\ d.row.token = row.token
<1> DEFINE d == Ensured(DB)
<1>1. /\ Good(d)
      /\ (d.row = None) = (DB.row = None)
      /\ DB.row # None => Wants(DB.row, d.row)
  BY EnsuredGood DEF AutoInv
<1> HIDE DEF d
<1>2. d.row # None => Sound(d.row)
  BY <1>1 DEF Good, IsDb
<1>3. DB.row = row
  BY DBFields
<1>4. /\ (d.row = None) = (row = None)
      /\ d.row # None => Wants(row, d.row)
  BY <1>1, <1>3
<1>5. d.row # None => \/ d.row.status # "failed"
                      \/ row # None /\ row.status = "failed" /\ d.row.token = row.token
  BY <1>4 DEF Wants
<1> QED BY <1>1, <1>2, <1>4, <1>5 DEF d

LEMMA LooksIs ==
  ASSUME AutoInv, NEW f \in Generations, NEW a \in Logs, NEW r, Sound(r)
  PROVE  IsProc(Looks(f, a, r)) /\ Looks(f, a, r).pred = None
<1>1. /\ r \in Row /\ r.pend \in Generations \cup {None} /\ r.pre \in Histories
      /\ r.pend # None => r.pend[1] \in Logs
      /\ Status(a) \in {"unreadable", "covered", "uncompiled"}
  BY GenerationLog, LogFacts DEF Sound, Row, AutoInv
<1>2. /\ IsProc(Failing(f, a, TRUE, None)) /\ Failing(f, a, TRUE, None).pred = None
      /\ IsProc(Failing(f, a, FALSE, r.pre)) /\ Failing(f, a, FALSE, r.pre).pred = None
  BY <1>1, FailingIs
<1>3. LET p == [Coordinator("finish", f, a) EXCEPT !.reset = TRUE]
      IN  IsProc(p) /\ p.pred = None
  BY Coordinators
<1>4. ASSUME r.pend # None
      PROVE  /\ IsProc(Failing(f, r.pend[1], TRUE, None))
             /\ Failing(f, r.pend[1], TRUE, None).pred = None
             /\ LET p == [Coordinator("promote", f, a) EXCEPT !.pend = r.pend]
                IN  IsProc(p) /\ p.pred = None
  <2>1. r.pend \in Generations /\ r.pend[1] \in Logs
    BY <1>1, <1>4
  <2>2. IsProc(Failing(f, r.pend[1], TRUE, None)) /\ Failing(f, r.pend[1], TRUE, None).pred = None
    BY <2>1, FailingIs
  <2>3. LET p == [Coordinator("promote", f, a) EXCEPT !.pend = r.pend]
        IN  IsProc(p) /\ p.pred = None
    BY <2>1, Coordinators
  <2> QED BY <2>2, <2>3
<1>5. \/ Looks(f, a, r) \in {Nobody, Failing(f, a, TRUE, None), Failing(f, a, FALSE, r.pre),
                             [Coordinator("finish", f, a) EXCEPT !.reset = TRUE]}
      \/ r.pend # None /\ Looks(f, a, r) \in {Nobody, Failing(f, r.pend[1], TRUE, None),
                                              [Coordinator("promote", f, a) EXCEPT !.pend = r.pend]}
  BY <1>1 DEF Looks, NoProgress
<1> QED BY <1>2, <1>3, <1>4, <1>5, NobodyIs

LEMMA FindKeeps ==
  ASSUME AutoInv, NEW t \in Tokens, Find(t)
  PROVE  Kept
<1> DEFINE f == proc[t].fp
           d == Ensured(DB)
           c == Coordinator("owned", f, f[2])
           p == IF Lost(t, d) THEN Nobody ELSE Looks(f, d.row.fp[1], d.row)
<1>1. proc[t].pc = "find" /\ f \in Generations /\ f[2] \in Logs /\ t # None /\ UNCHANGED child
  BY ProcFacts, GenerationLog DEF Find, Coordinating
<1>2. \/ ReadsRow /\ Becomes(t, c)
      \/ Commit(d) /\ Becomes(t, p)
  BY DEF Find
<1>3. IsProc(c) /\ c.pred # t
  BY <1>1, Coordinators DEF Coordinating
<1>4. /\ Good(d)
      /\ d.row # None => /\ Sound(d.row)
                         /\ \/ d.row.status # "failed"
                            \/ /\ row # None /\ row.status = "failed"
                               /\ d.row.token = row.token
  BY EnsuredRow
<1>5. IsProc(p) /\ p.pred # t
  <2>1. CASE Lost(t, d)
    BY <2>1, ExitIs
  <2>2. CASE ~Lost(t, d)
    <3>1. Sound(d.row) /\ d.row.fp[1] \in Logs
      BY <1>4, <2>2, GenerationLog DEF Lost, Sound, Row
    <3> QED BY <1>1, <2>2, <3>1, LooksIs
  <2> QED BY <2>1, <2>2
<1> HIDE DEF d, p, c
<1>6. CASE ReadsRow /\ Becomes(t, c)
  BY <1>1, <1>3, <1>6, OnlyProc
<1>7. CASE Commit(d) /\ Becomes(t, p)
  <2>1. ChildInv'
    BY <1>1, ChildStands
  <2> QED BY <1>1, <1>4, <1>5, <1>7, <2>1, CommitKeeps
<1> QED BY <1>2, <1>6, <1>7

LEMMA OwnedKeeps ==
  ASSUME AutoInv, NEW t \in Tokens, Owned(t)
  PROVE  Kept
<1> DEFINE d == Ensured(DB)
           c == [Coordinator("launch", proc[t].fp, proc[t].lp) EXCEPT
                   !.pre = d.row.pre, !.rid = d.row.run]
           p == IF Lost(t, d) THEN Nobody ELSE c
<1>1. /\ proc[t].pc = "owned" /\ proc[t].fp \in Generations /\ proc[t].lp \in Logs
      /\ t # None /\ UNCHANGED child
  BY ProcFacts DEF Owned, Coordinating
<1>2. Commit(d) /\ Becomes(t, p)
  BY DEF Owned
<1>3. /\ Good(d)
      /\ d.row # None => /\ Sound(d.row)
                         /\ \/ d.row.status # "failed"
                            \/ /\ row # None /\ row.status = "failed"
                               /\ d.row.token = row.token
  BY EnsuredRow
<1>4. IsProc(p) /\ p.pred # t
  <2>1. CASE Lost(t, d)
    BY <2>1, ExitIs
  <2>2. CASE ~Lost(t, d)
    <3>1. d.row.pre \in Histories /\ d.row.run \in RunIds \cup {None}
      BY <1>3, <2>2 DEF Lost, Sound, Row
    <3> HIDE DEF d
    <3> QED BY <1>1, <2>2, <3>1, Coordinators
  <2> QED BY <2>1, <2>2
<1> HIDE DEF d, p, c
<1>5. ChildInv'
  BY <1>1, ChildStands
<1> QED BY <1>1, <1>2, <1>3, <1>4, <1>5, CommitKeeps

LEMMA PromoteKeeps ==
  ASSUME AutoInv, NEW t \in Tokens, Promote(t)
  PROVE  Kept
<1> DEFINE p == proc[t]
           again == Coordinator("find", p.fp, None)
           onward == Coordinator("owned", p.pend, p.pend[1])
           mine == Holds(t) /\ row.pend = p.pend
<1>1. /\ p.pc = "promote" /\ p.fp \in Generations /\ p.lp \in Logs /\ p.pend \in Generations
      /\ p.pend[1] \in Logs /\ p.pend # None /\ t # None /\ UNCHANGED child
  BY ProcFacts, GenerationLog DEF Promote, Coordinating
<1>2. IsProc(again) /\ again.pred # t /\ IsProc(onward) /\ onward.pred # t
  <2>1. IsProc(again) /\ again.pred = None
    BY <1>1, CoordinatorOf
  <2>2. IsProc(onward) /\ onward.pred = None
    BY <1>1, CoordinatorOf
  <2> QED BY <1>1, <2>1, <2>2
<1>3. \/ ReadsRow /\ Becomes(t, again)
      \/ /\ mine /\ Becomes(t, again)
         /\ \E s \in {"queue_wait", "read_wait"} : Yields(s)
      \/ mine /\ Commit(Promoted(DB)) /\ Becomes(t, onward)
  BY DEF Promote
<1> HIDE DEF again, onward
<1>4. CASE ReadsRow /\ Becomes(t, again)
  BY <1>1, <1>2, <1>4, OnlyProc
<1>5. ASSUME mine PROVE row # None /\ row.token = t /\ row.status # "failed" /\ row.pend # None
  BY <1>1, <1>5 DEF Holds, OwnedBy, AutoInv, QuietInv
<1>6. ASSUME mine, Becomes(t, again), NEW s \in {"queue_wait", "read_wait"}, Yields(s)
      PROVE  Kept
  <2>1. Good(DB)' /\ Calm
    BY <1>5, <1>6, YieldsCalm DEF Yields, Waits
  <2>2. ProcInv' /\ Moves
    BY <1>1, <1>2, <1>6, Became DEF AutoInv
  <2> QED BY <1>1, <2>1, <2>2, ChildStands, KeptBy
<1>7. CASE mine /\ Commit(Promoted(DB)) /\ Becomes(t, onward)
  <2> DEFINE d == Promoted(DB)
  <2>1. row # None /\ row.status # "failed" /\ row.pend # None
    BY <1>5, <1>7
  <2>2. Good(d) /\ d.row # None /\ d.row.status = row.status
    BY <2>1, PromotedGood, DBFields DEF AutoInv
  <2>3. ChildInv' /\ Commit(d) /\ Becomes(t, onward)
    BY <1>1, <1>7, ChildStands
  <2> HIDE DEF d
  <2> QED BY <1>1, <1>2, <2>1, <2>2, <2>3, CommitKeeps
<1> QED BY <1>3, <1>4, <1>6, <1>7

LEMMA RunMoves ==
  ASSUME AutoInv, NEW i \in RunIds \cup {None}
  PROVE  LET d == Moved(DB, i, "running")
         IN  Good(d) /\ d.row = row
<1> DEFINE d == Moved(DB, i, "running")
<1>1. Good(DB) /\ IsDb(DB) /\ DB.row = row
  BY DBFields DEF AutoInv, Good
<1>2. Retells(DB, d)
  BY <1>1, MovedRetells
<1> HIDE DEF d
<1>3. Good(d) /\ d.row = row
  BY <1>1, <1>2, GoodRetold DEF Retells
<1> QED BY <1>3 DEF d

LEMMA StartedIs ==
  ASSUME AutoInv, NEW t \in Tokens, child' = Started(t)
  PROVE  ChildInv'
<1> DEFINE c == [NoChild EXCEPT !.pc = "start", !.run = proc[t].rid]
<1>1. proc[t].rid \in RunIds \cup {None}
  BY ProcFacts
<1>2. c \in Compilation
  BY <1>1 DEF NoChild, Compilation
<1>3. child' = [child EXCEPT ![t] = c]
  BY DEF Started
<1> HIDE DEF c
<1> QED BY <1>2, <1>3, ChildSet DEF AutoInv

LEMMA LaunchKeeps ==
  ASSUME AutoInv, NEW t \in Tokens, Launch(t)
  PROVE  Kept
<1> DEFINE p == proc[t]
           d == Moved(DB, row.run, "running")
           pre == Marks(p.lp)
           q == [Coordinator("wait", p.fp, p.lp) EXCEPT !.pre = pre, !.rid = p.rid]
<1>1. /\ p.pc = "launch" /\ p.fp \in Generations /\ p.lp \in Logs /\ t # None
      /\ p.rid \in RunIds \cup {None} /\ row # None
  BY ProcFacts DEF Launch, MayLaunch, Holds, OwnedBy, Coordinating
<1>2. Commit(d) /\ Becomes(t, q) /\ child' = Started(t)
  BY DEF Launch
<1>3. Good(d) /\ d.row = row
  BY <1>1, RowFacts, RunMoves DEF Row
<1>4. pre \in Histories
  BY <1>1, LogFacts DEF AutoInv
<1>5. ChildInv'
  BY <1>2, StartedIs
<1> HIDE DEF d, pre
<1>6. IsProc(q) /\ q.pred # t
  BY <1>1, <1>4, Coordinators
<1> HIDE DEF q
<1> QED BY <1>1, <1>2, <1>3, <1>5, <1>6, CommitKeeps

LEMMA LaunchRefusedKeeps ==
  ASSUME AutoInv, NEW t \in Tokens, LaunchRefused(t)
  PROVE  Kept
<1> DEFINE p == proc[t]
           a == Failing(p.fp, p.lp, TRUE, None)
           b == Failing(p.fp, p.lp, FALSE, p.pre)
           c == Coordinator("find", p.fp, None)
<1>1. /\ p.pc = "launch" /\ p.fp \in Generations /\ p.lp \in Logs /\ t # None
      /\ p.pre \in Histories \cup {None} /\ UNCHANGED child
  BY ProcFacts DEF LaunchRefused, Coordinating
<1>2. /\ IsProc(a) /\ a.pred # t /\ IsProc(b) /\ b.pred # t
      /\ IsProc(c) /\ c.pred # t
  <2>1. IsProc(a) /\ a.pred = None /\ IsProc(b) /\ b.pred = None
    BY <1>1, FailingIs
  <2>2. IsProc(c) /\ c.pred = None
    BY <1>1, CoordinatorOf
  <2> QED BY <1>1, <2>1, <2>2
<1>3. \/ Exits(t) /\ ReadsRow
      \/ Holds(t) /\ Yields("queue_wait") /\ Exits(t)
      \/ ReadsRow /\ (Becomes(t, a) \/ Becomes(t, b) \/ Becomes(t, c))
  BY DEF LaunchRefused
<1> HIDE DEF a, b, c
<1>4. CASE Holds(t) /\ Yields("queue_wait") /\ Exits(t)
  <2>1. row # None /\ row.status # "failed"
    BY <1>1, <1>4 DEF Holds, OwnedBy, AutoInv, QuietInv
  <2>2. Good(DB)' /\ Calm
    BY <1>4, <2>1, YieldsCalm DEF Yields, Waits
  <2>3. ProcInv' /\ Moves
    BY <1>1, <1>4, ExitIs, Became DEF AutoInv, Exits
  <2> QED BY <1>1, <2>2, <2>3, ChildStands, KeptBy
<1> QED BY <1>1, <1>2, <1>3, <1>4, ExitKeeps, OnlyProc

LEMMA LaunchAbortsKeeps ==
  ASSUME AutoInv, NEW t \in Tokens, LaunchAborts(t)
  PROVE  Kept
<1> DEFINE p == proc[t]
           a == Failing(p.fp, p.lp, TRUE, None)
<1>1. p.pc = "launch" /\ p.fp \in Generations /\ p.lp \in Logs /\ t # None
  BY ProcFacts DEF LaunchAborts, MayLaunch, Coordinating
<1>2. IsProc(a) /\ a.pred # t
  BY <1>1, FailingIs
<1>3. (Becomes(t, a) \/ Becomes(t, Nobody)) /\ ReadsRow
  BY DEF LaunchAborts
<1> HIDE DEF a
<1>4. ChildInv'
  BY StartedIs, ChildStands DEF LaunchAborts
<1>5. ProcInv' /\ Moves
  BY <1>1, <1>2, <1>3, ExitIs, Became DEF AutoInv
<1>6. Good(DB)' /\ Calm
  BY <1>3, ReadOnly DEF AutoInv
<1> QED BY <1>4, <1>5, <1>6, KeptBy

LEMMA ReapKeeps ==
  ASSUME AutoInv, NEW t \in Tokens, Reap(t)
  PROVE  Kept
<1> DEFINE p == proc[t]
           l == p.lp
           reset == Marks(l) = p.pre
           pre == IF Status(l) = "covered" THEN p.pre ELSE None
           a == Coordinator("defer", p.fp, l)
           b == Failing(p.fp, l, TRUE, None)
           c == Failing(p.fp, l, reset, pre)
           e == Coordinator("finish", p.fp, l)
<1>1. /\ p.pc = "wait" /\ p.fp \in Generations /\ l \in Logs /\ t # None
      /\ pre \in Histories \cup {None} /\ reset \in BOOLEAN
  BY ProcFacts DEF Reap, Coordinating
<1>2. \E q \in {a, b, c, e} : Becomes(t, q)
  BY DEF Reap
<1>3. child' = [child EXCEPT ![t] = NoChild] /\ ReadsRow
  BY DEF Reap
<1> HIDE DEF l, reset, pre
<1>4. /\ IsProc(a) /\ a.pred # t /\ IsProc(e) /\ e.pred # t
      /\ IsProc(b) /\ b.pred # t /\ IsProc(c) /\ c.pred # t
  <2>1. IsProc(a) /\ a.pred = None /\ IsProc(e) /\ e.pred = None
    BY <1>1, CoordinatorOf
  <2>2. IsProc(b) /\ b.pred = None
    BY <1>1, FailingIs
  <2>3. IsProc(c) /\ c.pred = None
    BY <1>1, FailingIs
  <2> QED BY <1>1, <2>1, <2>2, <2>3
<1> HIDE DEF a, b, c, e
<1>5. ChildInv'
  BY <1>3, NoChildIs, ChildSet DEF AutoInv
<1>6. ProcInv' /\ Moves
  BY <1>1, <1>2, <1>4, Became DEF AutoInv
<1>7. Good(DB)' /\ Calm
  BY <1>3, ReadOnly DEF AutoInv
<1> QED BY <1>5, <1>6, <1>7, KeptBy

LEMMA ExitWithChild ==
  ASSUME AutoInv, NEW t \in Tokens, proc[t].pc # "none", ReadsRow, Exits(t), ChildInv'
  PROVE  Kept
<1>1. ProcInv' /\ Moves
  BY ExitIs, Became DEF AutoInv, Exits
<1>2. Good(DB)' /\ Calm
  BY ReadOnly DEF AutoInv
<1> QED BY <1>1, <1>2, KeptBy

LEMMA RenewalLostKeeps ==
  ASSUME AutoInv, NEW t \in Tokens, RenewalLost(t)
  PROVE  Kept
<1>1. ChildInv'
  BY NoChildIs, ChildSet DEF AutoInv, RenewalLost
<1> QED BY <1>1, ExitWithChild DEF RenewalLost

LEMMA CrashKeeps ==
  ASSUME AutoInv, NEW t \in Tokens, Crash(t)
  PROVE  Kept
<1>1. ChildInv'
  <2>1. child[t] \in Compilation /\ NoChild \in Compilation
    BY NoChildIs DEF AutoInv, ChildInv
  <2>2. \E c \in {child[t], NoChild} : child' = [child EXCEPT ![t] = c]
    BY DEF Crash
  <2> QED BY <2>1, <2>2, ChildSet DEF AutoInv
<1> QED BY <1>1, ExitWithChild DEF Crash

LEMMA SessionOpenKeeps ==
  ASSUME AutoInv, NEW t \in Tokens, SessionOpen(t)
  PROVE  Kept
BY ExitKeeps DEF SessionOpen

\* What is read off a log and a row to go on with.
LEMMA ReadingsFit ==
  ASSUME AutoInv, NEW l \in Logs, NEW r, Sound(r), NEW pre \in Histories \cup {None}
  PROVE  /\ SeenAtFailure(l, r, pre).fp \in Generations
         /\ SeenAtFailure(l, r, pre).pre \in Histories
         /\ Handed(l, r).fp \in Generations /\ Handed(l, r).pre \in Histories
         /\ SeenAtDefer(l, r).fp \in Generations /\ SeenAtDefer(l, r).pre \in Histories
<1>1. /\ r.fp \in Generations /\ r.pre \in Histories /\ (r.pend = None) = (r.ppre = None)
      /\ r.pend \in Generations \cup {None} /\ r.ppre \in Histories \cup {None}
  BY DEF Sound, Row
<1>2. /\ Stamp(l) \in Generations /\ Marks(l) \in Histories
      /\ Required(l, r.pre) \in Histories /\ Filed(r.fp[1], l) \in Generations
  BY <1>1, LogFacts, GenerationLog DEF AutoInv
<1>3. Switches(l, r) => r.pend \in Generations /\ r.ppre \in Histories
  BY <1>1 DEF Switches, OtherPending
<1>4. \A f, q : Generation(f, q).fp = f /\ Generation(f, q).pre = q
  BY DEF Generation
<1> DEFINE fp == IF Status(l) = "uncompiled" /\ Extends(Marks(l), r.pre)
                 THEN Filed(r.fp[1], l) ELSE r.fp
<1>5. fp \in Generations
  BY <1>1, <1>2
<1>6. /\ SeenAtFailure(l, r, pre).fp \in Generations
      /\ SeenAtFailure(l, r, pre).pre \in Histories
  <2>1. CASE pre # None
    <3>1. SeenAtFailure(l, r, pre) = Generation(r.fp, pre)
      BY <2>1 DEF SeenAtFailure
    <3> QED BY <1>1, <1>4, <2>1, <3>1
  <2>2. CASE pre = None /\ Switches(l, r) /\ Extends(Marks(l), r.pre)
    <3>1. SeenAtFailure(l, r, pre) = Generation(r.pend, r.ppre)
      BY <2>2 DEF SeenAtFailure
    <3> QED BY <1>3, <1>4, <2>2, <3>1
  <2>3. CASE pre = None /\ ~(Switches(l, r) /\ Extends(Marks(l), r.pre))
    <3>1. SeenAtFailure(l, r, pre) = Generation(fp, Required(l, r.pre))
      BY <2>3 DEF SeenAtFailure
    <3> HIDE DEF fp
    <3> QED BY <1>2, <1>4, <1>5, <3>1
  <2> QED BY <2>1, <2>2, <2>3
<1>7. Handed(l, r).fp \in Generations /\ Handed(l, r).pre \in Histories
  BY <1>2, <1>3, <1>4 DEF Handed
<1>8. SeenAtDefer(l, r).fp \in Generations /\ SeenAtDefer(l, r).pre \in Histories
  BY <1>2, <1>3, <1>4 DEF SeenAtDefer
<1> QED BY <1>6, <1>7, <1>8

LEMMA OwnedFacts ==
  ASSUME AutoInv, NEW t \in Tokens, proc[t].pc # "none", OwnedBy(t)
  PROVE  /\ row # None /\ row.token = t /\ row.status # "failed"
         /\ Good(DB) /\ DB.row = row /\ ~DB.full /\ Sound(row)
BY RowFacts, DBFields DEF OwnedBy, AutoInv, QuietInv

LEMMA FailKeeps ==
  ASSUME AutoInv, NEW t \in Tokens, Fail(t)
  PROVE  Kept
<1> DEFINE p == proc[t]
           seen == SeenAtFailure(p.lp, row, p.pre)
           d == Failed(DB, p.lp, seen, p.reset)
<1>1. /\ p.pc = "fail" /\ p.lp \in Logs /\ p.pre \in Histories \cup {None}
      /\ p.reset \in BOOLEAN /\ t # None /\ UNCHANGED child /\ Exits(t)
  BY ProcFacts DEF Fail, Coordinating
<1>2. CASE ReadsRow
  BY <1>1, <1>2, ExitKeeps
<1>3. CASE OwnedBy(t) /\ Commit(d)
  <2>1. /\ row # None /\ row.token = t /\ row.status # "failed"
        /\ Good(DB) /\ DB.row = row /\ ~DB.full /\ Sound(row)
    BY <1>1, <1>3, OwnedFacts
  <2>2. seen.fp \in Generations /\ seen.pre \in Histories
    BY <1>1, <2>1, ReadingsFit
  <2> HIDE DEF seen
  <2>3. Good(d) /\ d.row # None /\ d.row.token = t
    <3> DEFINE reset == p.reset
               l == p.lp
    <3>1. reset \in BOOLEAN
      BY <1>1
    <3> HIDE DEF reset, l
    <3>2. LET e == Failed(DB, l, seen, reset)
          IN  Good(e) /\ e.row # None /\ e.row.token = DB.row.token
      BY <2>1, <2>2, <3>1, FailedGood
    <3> QED BY <2>1, <3>2 DEF reset, l
  <2> HIDE DEF d
  <2>4. Good(DB)' /\ row' = d.row
    BY <1>3, <2>3, Committed DEF AutoInv
  <2>5. ProcInv' /\ proc'[t] = Nobody
    BY <1>1, ExitIs, Became DEF AutoInv, Exits, Becomes, ProcInv
  <2>6. QuietInv'
    BY <2>3, <2>4, <2>5, NobodyIs DEF QuietInv
  <2>7. ChildInv'
    BY <1>1, ChildStands
  <2> QED BY <2>4, <2>5, <2>6, <2>7 DEF Kept
<1> QED BY <1>2, <1>3 DEF Fail

LEMMA FinishKeeps ==
  ASSUME AutoInv, NEW t \in Tokens, Finish(t)
  PROVE  Kept
<1> DEFINE p == proc[t]
           next == Handed(p.lp, row)
           d == Finished(DB, p.lp, next)
           onward(f) == IF p.reset THEN Coordinator("owned", f, p.lp)
                        ELSE Coordinator("find", f, None)
           q == IF d.row = None THEN Nobody ELSE onward(d.row.fp)
<1>1. /\ p.pc = "finish" /\ p.lp \in Logs /\ p.fp \in Generations
      /\ t # None /\ UNCHANGED child
  BY ProcFacts DEF Finish, Coordinating
<1>2. ASSUME NEW f \in Generations PROVE IsProc(onward(f)) /\ onward(f).pred = None
  <2>1. /\ IsProc(Coordinator("owned", f, p.lp)) /\ Coordinator("owned", f, p.lp).pred = None
    BY <1>1, CoordinatorOf
  <2>2. IsProc(Coordinator("find", f, None)) /\ Coordinator("find", f, None).pred = None
    BY CoordinatorOf
  <2> QED BY <2>1, <2>2
<1>3. \/ ReadsRow /\ Exits(t)
      \/ OwnedBy(t) /\ Yields("queue_wait") /\ Exits(t)
      \/ OwnedBy(t) /\ Yields("read_wait") /\ Becomes(t, onward(p.fp))
      \/ OwnedBy(t) /\ Commit(d) /\ Becomes(t, q)
  BY DEF Finish
<1> HIDE DEF onward
<1>4. ASSUME NEW x, IsProc(x), x.pred # t, Becomes(t, x), OwnedBy(t),
             NEW s \in Waits, Yields(s)
      PROVE  Kept
  <2>1. Good(DB)' /\ Calm
    BY <1>1, <1>4, OwnedFacts, YieldsCalm DEF Yields
  <2>2. ProcInv' /\ Moves
    BY <1>1, <1>4, Became DEF AutoInv
  <2> QED BY <1>1, <2>1, <2>2, ChildStands, KeptBy
<1>5. CASE OwnedBy(t) /\ Commit(d) /\ Becomes(t, q)
  <2>1. /\ row # None /\ row.token = t /\ row.status # "failed"
        /\ Good(DB) /\ DB.row = row /\ ~DB.full /\ Sound(row)
    BY <1>1, <1>5, OwnedFacts
  <2>2. next.fp \in Generations /\ next.pre \in Histories
    BY <1>1, <2>1, ReadingsFit
  <2> HIDE DEF next
  <2>3. /\ Good(d)
        /\ d.row # None => d.row.status # "failed" /\ d.row.fp = next.fp
    BY <2>1, <2>2, FinishedGood
  <2>4. ChildInv' /\ Commit(d) /\ Becomes(t, q)
    BY <1>1, <1>5, ChildStands
  <2>5. IsProc(q) /\ q.pred # t
    <3> HIDE DEF d
    <3> QED BY <1>1, <1>2, <2>2, <2>3, ExitIs
  <2> HIDE DEF d, q
  <2> QED BY <1>1, <2>3, <2>4, <2>5, CommitKeeps
<1>6. CASE ReadsRow /\ Exits(t)
  BY <1>1, <1>6, ExitKeeps
<1>7. CASE OwnedBy(t) /\ Yields("queue_wait") /\ Exits(t)
  BY <1>4, <1>7, ExitIs DEF Waits, Exits
<1>8. CASE OwnedBy(t) /\ Yields("read_wait") /\ Becomes(t, onward(p.fp))
  BY <1>1, <1>2, <1>4, <1>8 DEF Waits
<1> QED BY <1>3, <1>5, <1>6, <1>7, <1>8

LEMMA DeferKeeps ==
  ASSUME AutoInv, NEW t \in Tokens, Defer(t)
  PROVE  Kept
<1> DEFINE p == proc[t]
           next == SeenAtDefer(p.lp, row)
           d == Deferred(DB, p.lp, next)
           again == Coordinator("find", p.fp, None)
           q == IF d.row = None THEN Nobody ELSE Coordinator("find", d.row.fp, None)
<1>1. /\ p.pc = "defer" /\ p.lp \in Logs /\ p.fp \in Generations
      /\ t # None /\ UNCHANGED child
  BY ProcFacts DEF Defer, Coordinating
<1>2. \/ ReadsRow /\ Exits(t)
      \/ OwnedBy(t) /\ row' = [row EXCEPT !.live = TRUE] /\ UNCHANGED <<runs, keys, proc>>
      \/ /\ OwnedBy(t) /\ row' = [row EXCEPT !.live = TRUE, !.status = "read_wait"]
         /\ UNCHANGED <<runs, keys>> /\ Becomes(t, again)
      \/ OwnedBy(t) /\ Commit(d) /\ Becomes(t, q)
  BY DEF Defer
<1>3. CASE ReadsRow /\ Exits(t)
  BY <1>1, <1>3, ExitKeeps
<1>4. CASE OwnedBy(t) /\ row' = [row EXCEPT !.live = TRUE] /\ UNCHANGED <<runs, keys, proc>>
  <2> DEFINE r == [row EXCEPT !.live = TRUE]
  <2>1. row # None /\ Sound(row) /\ row \in Row
    BY <1>4, RowFacts DEF OwnedBy
  <2>2. r \in Row
    BY <2>1 DEF Row
  <2>3. /\ r.run = row.run /\ r.fp = row.fp /\ r.pend = row.pend /\ r.prun = row.prun
        /\ r.token = row.token /\ r.status = row.status /\ r.ppre = row.ppre
        /\ r.cont = row.cont /\ r.cpred = row.cpred /\ r.tries = row.tries
    BY <2>1 DEF Row
  <2>4. row' = r
    BY <1>4
  <2> HIDE DEF r
  <2>5. Sound(r)
    BY <2>1, <2>2, <2>3 DEF Sound
  <2>6. Good(DB)' /\ Calm
    BY <1>4, <2>1, <2>3, <2>4, <2>5, RowStep DEF AutoInv
  <2> QED BY <1>1, <1>4, <2>6, StoodStill, ChildStands, KeptBy DEF AutoInv
<1>5. CASE /\ OwnedBy(t) /\ row' = [row EXCEPT !.live = TRUE, !.status = "read_wait"]
           /\ UNCHANGED <<runs, keys>> /\ Becomes(t, again)
  <2>1. row # None /\ row.status # "failed"
    BY <1>1, <1>5, OwnedFacts
  <2>2. IsProc(again) /\ again.pred # t
    <3>1. IsProc(again) /\ again.pred = None
      BY <1>1, CoordinatorOf
    <3> QED BY <1>1, <3>1
  <2>3. Good(DB)' /\ Calm
    <3>1. \E live \in BOOLEAN : row' = [row EXCEPT !.live = live, !.status = "read_wait"]
      <4> WITNESS TRUE \in BOOLEAN
      <4> QED BY <1>5
    <3> QED BY <1>5, <2>1, <3>1, YieldsCalm DEF Waits
  <2> HIDE DEF again
  <2>4. ProcInv' /\ Moves
    BY <1>1, <1>5, <2>2, Became DEF AutoInv
  <2> QED BY <1>1, <2>3, <2>4, ChildStands, KeptBy
<1>6. CASE OwnedBy(t) /\ Commit(d) /\ Becomes(t, q)
  <2>1. /\ row # None /\ row.token = t /\ row.status # "failed"
        /\ Good(DB) /\ DB.row = row /\ ~DB.full /\ Sound(row)
    BY <1>1, <1>6, OwnedFacts
  <2>2. next.fp \in Generations /\ next.pre \in Histories
    BY <1>1, <2>1, ReadingsFit
  <2> HIDE DEF next
  <2>3. /\ Good(d)
        /\ d.row # None => d.row.status # "failed" /\ d.row.fp \in Generations
    <3>1. Good(d) /\ (d.row # None => d.row.status = DB.row.status)
      BY <2>1, <2>2, DeferredGood
    <3> HIDE DEF d
    <3> QED BY <2>1, <3>1 DEF Good, IsDb, Sound, Row
  <2>4. ChildInv' /\ Commit(d) /\ Becomes(t, q)
    BY <1>1, <1>6, ChildStands
  <2> HIDE DEF d
  <2>5. IsProc(q) /\ q.pred # t
    <3>1. CASE d.row = None
      BY <3>1, ExitIs
    <3>2. CASE d.row # None
      <4>1. /\ IsProc(Coordinator("find", d.row.fp, None))
            /\ Coordinator("find", d.row.fp, None).pred = None
        BY <2>3, <3>2, CoordinatorOf
      <4> QED BY <1>1, <3>2, <4>1
    <3> QED BY <3>1, <3>2
  <2> HIDE DEF q
  <2> QED BY <1>1, <2>3, <2>4, <2>5, CommitKeeps
<1> QED BY <1>2, <1>3, <1>4, <1>5, <1>6

\* Roles are spawned for a reading of the log.
LEMMA SpawnedKeeps ==
  ASSUME AutoInv, NEW roles, "contender" \in roles => row # None,
         NEW f \in Generations, NEW pre \in Histories,
         NEW owner \in Fresh, NEW dog \in Fresh, owner # dog,
         proc' = Spawned(roles, f, pre, owner, dog)
  PROVE  ProcInv' /\ Moves
<1> DEFINE b == [Nobody EXCEPT !.pc = "boot", !.own = owner, !.fp = f, !.pre = pre]
           c == Watcher("contend", row.watcher)
           o == Coordinator("owner", f, None)
<1>1. owner \in Tokens /\ dog \in Tokens /\ dog # None /\ owner # None
  BY AutoAssumption DEF Fresh
<1>2. IsProc(b) /\ b.pred # dog
  BY <1>1, BootIs
<1>3. IsProc(o) /\ o.pred # owner
  BY <1>1, CoordinatorOf
<1>4. ASSUME "contender" \in roles PROVE IsProc(c) /\ c.pred # dog
  <2>1. row.watcher \in Tokens \cup {None} /\ row.watcher # dog
    BY <1>4, RowFacts DEF Row, Fresh
  <2> QED BY <2>1, WatcherIs
<1>5. proc' = [t \in Tokens |->
                 IF t = dog /\ "watchdog" \in roles THEN b
                 ELSE IF t = dog /\ "contender" \in roles THEN c
                 ELSE IF t = owner /\ "owner" \in roles THEN o
                 ELSE proc[t]]
  BY DEF Spawned
<1> HIDE DEF b, c, o
<1>6. ASSUME NEW t \in Tokens PROVE IsProc(proc'[t]) /\ proc'[t].pred # t
  <2>1. CASE t = dog /\ "watchdog" \in roles
    BY <1>2, <1>5, <2>1
  <2>2. CASE t = dog /\ "watchdog" \notin roles /\ "contender" \in roles
    BY <1>4, <1>5, <2>2
  <2>3. CASE t = owner /\ "owner" \in roles
    BY <1>3, <1>5, <2>3
  <2>4. CASE proc'[t] = proc[t]
    BY <2>4 DEF AutoInv, ProcInv
  <2> QED BY <1>5, <2>1, <2>2, <2>3, <2>4
<1>7. DOMAIN proc' = Tokens /\ proc' = [t \in Tokens |-> proc'[t]]
  BY <1>5
<1>8. ProcInv'
  BY <1>6, <1>7 DEF ProcInv
<1>9. Moves
  BY <1>5 DEF Moves
<1> QED BY <1>8, <1>9

\* What registration starts with.
LEMMA ScheduleFacts ==
  ASSUME AutoInv, NEW s \in sched, Cardinality(Fresh) >= 2
  PROVE  /\ s[1] \in Generations /\ s[2] \in Histories
         /\ Fresh1 \in Fresh /\ Fresh2 \in Fresh /\ Fresh1 # Fresh2
         /\ Fresh1 \in Tokens /\ Fresh2 \in Tokens
         /\ Good(Scheduling)
         /\ Scheduling.row # None => row # None /\ Scheduling.row.status # "failed"
         /\ "contender" \in Roles(Scheduling.row) => row # None
<1>1. s \in Generations \X Histories
  BY DEF AutoInv, WorldInv
<1>2. Fresh1 \in Fresh /\ Fresh2 \in Fresh /\ Fresh1 # Fresh2
  BY TwoFresh
<1>3. Fresh1 \in Tokens /\ Fresh2 \in Tokens
  BY <1>2 DEF Fresh
<1>4. Good(Scheduling) /\ (Scheduling.row # None => Scheduling.row.status # "failed")
  BY SchedulingGood DEF AutoInv
<1>5. Scheduling.row # None => row # None
  <2>1. ASSUME row = None PROVE Scheduling.row = None
    <3>1. Scheduling = Ensured(DB)
      BY <2>1 DEF Scheduling
    <3>2. (Ensured(DB).row = None) = (DB.row = None)
      BY EnsuredGood DEF AutoInv
    <3> QED BY <2>1, <3>1, <3>2, DBFields
  <2> QED BY <2>1
<1>6. Roles(None) = {"watchdog", "owner"}
  BY DEF Roles
<1> QED BY <1>1, <1>2, <1>3, <1>4, <1>5, <1>6

LEMMA ScheduleKeeps ==
  ASSUME AutoInv, NEW s \in sched, Schedule(s)
  PROVE  Kept
<1>1. Cardinality(Fresh) >= 2 /\ UNCHANGED child
  BY DEF Schedule
<1>2. CASE busy
  BY <1>1, <1>2, ReadOnly, StoodStill, ChildStands, KeptBy DEF Schedule, ReadsRow, AutoInv
<1>3. CASE ~busy
  <2> DEFINE b == Scheduling
             d == Registered(b, s[1], s[2], Fresh1, Fresh2)
  <2>1. Commit(d) /\ proc' = Spawned(Roles(b.row), s[1], s[2], Fresh1, Fresh2)
    BY <1>3 DEF Schedule
  <2>2. /\ s[1] \in Generations /\ s[2] \in Histories
        /\ Fresh1 \in Fresh /\ Fresh2 \in Fresh /\ Fresh1 # Fresh2
        /\ Fresh1 \in Tokens /\ Fresh2 \in Tokens
        /\ Good(b)
        /\ b.row # None => row # None /\ b.row.status # "failed"
        /\ "contender" \in Roles(b.row) => row # None
    BY <1>1, ScheduleFacts
  <2> HIDE DEF b
  <2>3. Good(d) /\ d.row # None /\ d.row.status # "failed"
    BY <2>2, RegisteredGood
  <2> HIDE DEF d
  <2>4. Good(DB)' /\ row' = d.row
    BY <2>1, <2>3, Committed DEF AutoInv
  <2>5. Calm
    BY <2>3, <2>4 DEF Calm
  <2>6. ProcInv' /\ Moves
    BY <2>1, <2>2, SpawnedKeeps
  <2> QED BY <1>1, <2>4, <2>5, <2>6, ChildStands, KeptBy
<1> QED BY <1>2, <1>3

LEMMA ScheduleAbortsKeeps ==
  ASSUME AutoInv, NEW s \in sched, ScheduleAborts(s)
  PROVE  Kept
<1>1. Cardinality(Fresh) >= 2 /\ UNCHANGED child /\ ReadsRow
  BY DEF ScheduleAborts, ReadsRow
<1> DEFINE b == Scheduling
<1>2. PICK unborn : proc' = Spawned(Roles(b.row) \ unborn, s[1], s[2], Fresh1, Fresh2)
  BY DEF ScheduleAborts
<1>3. /\ s[1] \in Generations /\ s[2] \in Histories
      /\ Fresh1 \in Fresh /\ Fresh2 \in Fresh /\ Fresh1 # Fresh2
      /\ "contender" \in Roles(b.row) => row # None
  BY <1>1, ScheduleFacts
<1> HIDE DEF b
<1>4. ProcInv' /\ Moves
  BY <1>2, <1>3, SpawnedKeeps
<1>5. Good(DB)' /\ Calm
  BY <1>1, ReadOnly DEF AutoInv
<1> QED BY <1>1, <1>4, <1>5, ChildStands, KeptBy

\* A step that leaves row, processes and children alone.
LEMMA NothingMoves ==
  ASSUME AutoInv, UNCHANGED <<row, runs, keys, proc>>, ChildInv'
  PROVE  Kept
<1>1. Good(DB)' /\ Calm
  BY ReadOnly DEF AutoInv, ReadsRow
<1>2. ProcInv' /\ Moves
  BY StoodStill DEF AutoInv
<1> QED BY <1>1, <1>2, KeptBy

LEMMA ChildKeeps ==
  ASSUME AutoInv, NEW t \in Tokens, Child(t) \/ ChildMeetsProbe(t) \/ ChildRaises(t)
  PROVE  Kept
<1>1. ChildInv'
  BY ChildActs DEF AutoInv
<1>2. UNCHANGED proc
  BY DEF Child, ChildStarts, ChildReads, ChildApplies, ChildEnds, ChildMeetsProbe, ChildRaises
<1>3. \/ UNCHANGED <<row, runs, keys>>
      \/ Commit(Moved(DB, child[t].run, "running"))
  BY DEF Child, ChildStarts, ChildReads, ChildApplies, ChildEnds, ChildMeetsProbe, ChildRaises,
         ReadsRow
<1>4. CASE UNCHANGED <<row, runs, keys>>
  BY <1>1, <1>2, <1>4, NothingMoves
<1>5. CASE Commit(Moved(DB, child[t].run, "running"))
  <2> DEFINE d == Moved(DB, child[t].run, "running")
  <2>1. child[t].run \in RunIds \cup {None}
    BY DEF AutoInv, ChildInv, Compilation
  <2>2. Good(d) /\ d.row = row
    BY <2>1, RunMoves
  <2>3. Commit(d)
    BY <1>5
  <2> HIDE DEF d
  <2>4. Good(DB)' /\ row' = row
    BY <2>2, <2>3, Committed DEF AutoInv
  <2>5. Calm
    BY <2>4 DEF Calm
  <2>6. ProcInv' /\ Moves
    BY <1>2, StoodStill DEF AutoInv
  <2> QED BY <1>1, <2>4, <2>5, <2>6, KeptBy
<1> QED BY <1>3, <1>4, <1>5

LEMMA NextKeeps ==
  ASSUME AutoInv, Next
  PROVE  Kept
<1>1. CASE Worker
  <2>1. ASSUME Enqueue \/ (\E wrote \in BOOLEAN : Drain(wrote)) \/ (\E asks \in BOOLEAN : Trigger(asks))
        PROVE  Kept
    <3>1. UNCHANGED <<row, runs, keys, proc>> /\ UNCHANGED child
      BY <2>1 DEF Enqueue, Drain, Trigger
    <3> QED BY <3>1, ChildStands, NothingMoves
  <2> QED BY <1>1, <2>1, ScheduleKeeps, ScheduleAbortsKeeps DEF Worker
<1>2. CASE User \/ Rest
  <2>1. UNCHANGED <<row, runs, keys, proc>> /\ UNCHANGED child
    BY <1>2 DEF User, NewDay, ManualCompile, RemoveMarkers, Unreadable, Readable, Rest, vars
  <2> QED BY <2>1, ChildStands, NothingMoves
<1>3. CASE Expiry
  BY <1>3, ExpiryKeeps
<1>4. ASSUME NEW t \in Tokens, Process(t) PROVE Kept
  BY <1>4, OwnerStartsKeeps, ContenderStartsKeeps, BootstrapKeeps, PollKeepsKeeps,
     PollWaitsKeeps, PollClaimsKeeps, FindKeeps, PromoteKeeps, OwnedKeeps, LaunchKeeps,
     LaunchRefusedKeeps, ReapKeeps, RenewalLostKeeps, FailKeeps, FinishKeeps, DeferKeeps
  DEF Process
<1>5. ASSUME NEW t \in Tokens, Child(t) \/ Mishap(t) PROVE Kept
  BY <1>5, ChildKeeps, ClaimAbortsKeeps, SessionOpenKeeps, LaunchAbortsKeeps, CrashKeeps
  DEF Mishap
<1> QED BY <1>1, <1>2, <1>3, <1>4, <1>5 DEF Next

-----------------------------------------------------------------------------
(* The invariant, and the theorems that follow from it alone.                *)

LEMMA InitAuto == Init => AutoInv
<1> SUFFICES ASSUME Init PROVE AutoInv
  OBVIOUS
<1>1. Logs \in SUBSET Nat /\ Logs # {}
  BY AutoAssumption
<1>2. today \in Logs
  BY <1>1, LeastNat DEF Init
<1>3. WorldInv
  <2> DEFINE x == [n |-> 0, c |-> 0, m |-> 0, e |-> 0, ok |-> TRUE]
  <2>1. x \in [n : Nat, c : Nat, m : Nat, e : Nat, ok : BOOLEAN] /\ x.n = 0 /\ x.c = 0
    OBVIOUS
  <2>2. log = [l \in Logs |-> x]
    BY DEF Init
  <2> HIDE DEF x
  <2>3. /\ log \in [Logs -> [n : Nat, c : Nat, m : Nat, e : Nat, ok : BOOLEAN]]
        /\ \A l \in Logs : log[l].n = 0 /\ log[l].c = 0
    BY <2>1, <2>2
  <2>4. jobs = MaxJobs /\ due = 0 /\ Waiting = 0 /\ faults = 0 /\ sched = {}
    BY DEF Init, Waiting
  <2>5. /\ \A l \in Logs : log[l].c <= log[l].n /\ log[l].n + jobs + Waiting <= MaxJobs
        /\ due + jobs + Waiting <= MaxJobs
    BY <2>3, <2>4, AutoAssumption
  <2>6. jobs \in Nat /\ due \in Nat /\ faults \in 0 .. MaxFaults
    BY <2>4, AutoAssumption
  <2>7. sched \subseteq Generations \X Histories
    BY <2>4
  <2>8. busy \in BOOLEAN
    BY DEF Init
  <2> QED BY <1>2, <2>3, <2>5, <2>6, <2>7, <2>8 DEF WorldInv
<1>4. Good(DB)
  <2>1. DB \in Db /\ DB.row = None
    BY DEF DB, Db, Init
  <2> QED BY <2>1 DEF Good, IsDb
<1>5. ProcInv
  BY NobodyIs, AutoAssumption DEF Init, ProcInv
<1>6. QuietInv
  BY DEF Init, QuietInv
<1>7. ChildInv
  BY NoChildIs DEF Init, ChildInv
<1> QED BY <1>3, <1>4, <1>5, <1>6, <1>7 DEF AutoInv

LEMMA NextAuto == AutoInv /\ [Next]_vars => AutoInv'
<1> SUFFICES ASSUME AutoInv, [Next]_vars PROVE AutoInv'
  OBVIOUS
<1>1. CASE Next
  <2>1. WorldInv'
    BY <1>1, WorldKept DEF AutoInv
  <2>2. Kept
    BY <1>1, NextKeeps
  <2> QED BY <2>1, <2>2 DEF AutoInv, Kept
<1>2. CASE UNCHANGED vars
  <2>1. UNCHANGED <<row, runs, keys, proc>> /\ UNCHANGED child /\ UNCHANGED world /\ UNCHANGED faults
    BY <1>2 DEF vars, world
  <2>2. WorldInv'
    BY <2>1, WorldStands DEF AutoInv
  <2>3. Kept
    BY <2>1, ChildStands, NothingMoves
  <2> QED BY <2>2, <2>3 DEF AutoInv, Kept
<1> QED BY <1>1, <1>2

LEMMA AutoInvTyped == AutoInv => TypeOK
<1> SUFFICES ASSUME AutoInv PROVE TypeOK
  OBVIOUS
<1>1. log \in [Logs -> [n : 0 .. MaxJobs, c : 0 .. MaxJobs, m : Nat, e : Nat, ok : BOOLEAN]]
  <2>1. ASSUME NEW l \in Logs
        PROVE  log[l] \in [n : 0 .. MaxJobs, c : 0 .. MaxJobs, m : Nat, e : Nat, ok : BOOLEAN]
    <3>1. log[l] \in [n : Nat, c : Nat, m : Nat, e : Nat, ok : BOOLEAN] /\ log[l].c <= log[l].n
      BY LogType DEF AutoInv
    <3>2. log[l].n + jobs + Waiting <= MaxJobs /\ jobs \in Nat /\ Waiting \in Nat
      BY DEF AutoInv, WorldInv, Waiting
    <3>3. log[l].n \in 0 .. MaxJobs /\ log[l].c \in 0 .. MaxJobs
      BY <3>1, <3>2, AutoAssumption
    <3> QED BY <3>1, <3>3
  <2> QED BY <2>1 DEF AutoInv, WorldInv
<1>2. jobs \in 0 .. MaxJobs /\ due \in 0 .. MaxJobs
  <2>1. due + jobs + Waiting <= MaxJobs /\ jobs \in Nat /\ due \in Nat /\ Waiting \in Nat
    BY DEF AutoInv, WorldInv, Waiting
  <2> QED BY <2>1, AutoAssumption
<1>3. row # None => /\ row \in Row /\ row.run \in RunIds
                    /\ (row.pend = None) = (row.ppre = None)
                    /\ (row.cont = None) = (row.cpred = None)
  BY RowFacts DEF Sound, Says, IsRunOf
<1>4. runs \in [RunIds -> Run \cup {None}] /\ keys \subseteq Generations
  BY DBFields DEF AutoInv, Good, IsDb, Db
<1>5. proc \in [Tokens -> Proc] /\ \A t \in Tokens : proc[t].pred # t
  BY DEF AutoInv, ProcInv, IsProc
<1>6. /\ \A l \in Logs : log[l].c <= log[l].n
      /\ today \in Logs /\ busy \in BOOLEAN /\ sched \subseteq Generations \X Histories
      /\ child \in [Tokens -> Compilation] /\ faults \in 0 .. MaxFaults
  BY DEF AutoInv, WorldInv, ChildInv
<1> QED BY <1>1, <1>2, <1>3, <1>4, <1>5, <1>6 DEF TypeOK

LEMMA AutoAlways == Spec => []AutoInv
BY InitAuto, NextAuto, PTL DEF Spec

\* Every row of queue_metadata and status_runs, and every process that works on it, is
\* one that the code can read: no column is missing that a later step relies on, and no
\* counter leaves its bounds, for any number of logs, processes, runs and faults.
THEOREM AutoTypeCorrect == Spec => []TypeOK
BY AutoAlways, AutoInvTyped, PTL

\* Whatever the transactions of registrations, takeovers, promotions, failures, handovers
\* and deferrals do to the row, the active run is a run of the active generation.
THEOREM ActiveRunCorrect == Spec => []RunOfGeneration
<1>1. AutoInv => RunOfGeneration
  BY RowFacts DEF RunOfGeneration, Says, IsRunOf
<1> QED BY <1>1, AutoAlways, PTL

-----------------------------------------------------------------------------
(* What a fingerprint was read from.  A fingerprint f of a log stays readable *)
(* from the log as it is now, whatever happened to the log since: L is the    *)
(* state of the logs.                                                         *)

\* The entries that f counts were written.
Written(L, f) == f[4] <= L[f[2]].n

\* They are compiled, or the markers are gone.
Done(L, f) == Written(L, f) /\ (L[f[2]].c >= f[4] \/ L[f[2]].c = 0)

\* Or nothing was compiled since f was read, together with the marker history h.
Stands(L, f, h) ==
  \/ Done(L, f)
  \/ Written(L, f) /\ L[f[2]].c = f[3] /\ h = <<<<f[2], L[f[2]].e>>, L[f[2]].m>>

\* A log is compiled through an entry exactly if it has markers.
Marked(L) == \A l \in Logs : (L[l].c = 0) = (L[l].m = 0)

\* What a row r says that was written; its pending log was read under its own name.
Honest(L, r) == /\ Written(L, r.fp)
                /\ r.pend # None => Written(L, r.pend) /\ OfItsLog(r.pend)
Read(L, S) == \A s \in S : s[1] \in Generations /\ Written(L, s[1]) /\ OfItsLog(s[1])

\* What a coordinator p knows of the log its child works on: one that finishes has
\* seen it compiled, unless it looked at another log than the one it is asked for.
Knows(L, p) ==
  /\ p.pc \in {"wait", "defer"} => p.lp = p.fp[2]
  /\ p.pc = "wait" => p.pre # None /\ Stands(L, p.fp, p.pre)
  /\ p.pc = "finish" /\ p.lp = p.fp[2] => Done(L, p.fp)

\* ... in which case the row r does not speak of its own log either.
Stray(r, t, p) ==
  p.pc = "finish" /\ p.lp # p.fp[2] /\ r # None /\ r.token = t /\ Alike(r.fp, p.fp) => ~OfItsLog(r.fp)

\* The owner u that came with a watchdog that still waits for its registration.
Straight(r, u, p) ==
  \/ p.pc = "none"
  \/ /\ p.pc \in Coordinating \cup {"owner"}
     /\ r # None /\ r.token = u => OfItsLog(r.fp)
     /\ p.pc = "finish" => p.lp = p.fp[2]
Awaits(b) == proc[b].pc = "boot" => OfItsLog(proc[b].fp) /\ Straight(row, proc[b].own, proc[proc[b].own])

ContentInv ==
  /\ Marked(log) /\ (row # None => Honest(log, row)) /\ Read(log, sched)
  /\ \A t \in Tokens : Knows(log, proc[t]) /\ Stray(row, t, proc[t]) /\ Awaits(t)

\* What a step may do to a log: entries are added, what is there is compiled, or the
\* markers are removed.
Grows(L, M) ==
  \A l \in Logs :
    /\ L[l].n <= M[l].n
    /\ \/ M[l].c = L[l].c /\ M[l].m = L[l].m /\ M[l].e = L[l].e
       \/ M[l].c = L[l].n /\ L[l].n # 0 /\ M[l].m # 0
       \/ M[l].c = 0 /\ M[l].m = 0

Entry == [n : Nat, c : Nat, m : Nat, e : Nat, ok : BOOLEAN]

LEMMA GrowthKeeps ==
  ASSUME NEW L \in [Logs -> Entry], NEW M \in [Logs -> Entry], Grows(L, M)
  PROVE  /\ Marked(L) => Marked(M)
         /\ \A f \in Generations :
              /\ Written(L, f) => Written(M, f)
              /\ Done(L, f) => Done(M, f)
              /\ \A h : Stands(L, f, h) => Stands(M, f, h)
<1>1. Marked(L) => Marked(M)
  BY DEF Grows, Marked, Entry
<1>2. ASSUME NEW f \in Generations
      PROVE  /\ Written(L, f) => Written(M, f)
             /\ Done(L, f) => Done(M, f)
             /\ \A h : Stands(L, f, h) => Stands(M, f, h)
  <2> DEFINE l == f[2]
             x == L[l]
             y == M[l]
  <2>1. l \in Logs /\ f[4] \in Nat
    BY DEF Generations
  <2>2. x \in Entry /\ y \in Entry
    BY <2>1
  <2>3. x.n <= y.n /\ (\/ y.c = x.c /\ y.m = x.m /\ y.e = x.e
                       \/ y.c = x.n
                       \/ y.c = 0)
    BY <2>1 DEF Grows
  <2>4. x.n \in Nat /\ y.n \in Nat /\ x.c \in Nat /\ y.c \in Nat
    BY <2>2 DEF Entry
  <2> HIDE DEF x, y
  <2>5. f[4] <= x.n => f[4] <= y.n
    BY <2>1, <2>3, <2>4
  <2>6. CASE y.c = x.c /\ y.m = x.m /\ y.e = x.e
    BY <2>5, <2>6 DEF Written, Done, Stands, x, y
  <2>7. CASE y.c = x.n \/ y.c = 0
    <3>1. f[4] <= x.n => y.c >= f[4] \/ y.c = 0
      BY <2>1, <2>4, <2>7
    <3> QED BY <2>5, <3>1 DEF Written, Done, Stands, x, y
  <2> QED BY <2>3, <2>6, <2>7
<1> QED BY <1>1, <1>2

LEMMA LogEntries ==
  ASSUME WorldInv
  PROVE  log \in [Logs -> Entry]
BY DEF WorldInv, Entry

\* The logs change, and neither the row nor a process does.
LEMMA WorldContent ==
  ASSUME AutoInv, ContentInv, WorldInv', Grows(log, log'), UNCHANGED <<row, proc>>,
         \A s \in sched' \ sched : s[1] \in Generations /\ Written(log, s[1]) /\ OfItsLog(s[1])
  PROVE  ContentInv'
<1>1. log \in [Logs -> Entry] /\ log' \in [Logs -> Entry]
  BY LogEntries DEF AutoInv, WorldInv, Entry
<1>2. /\ Marked(log')
      /\ \A f \in Generations :
           /\ Written(log, f) => Written(log', f)
           /\ Done(log, f) => Done(log', f)
           /\ \A h : Stands(log, f, h) => Stands(log', f, h)
  BY <1>1, GrowthKeeps DEF ContentInv
<1>3. row # None => Honest(log', row)
  <2>1. row # None => row.fp \in Generations /\ row.pend \in Generations \cup {None}
    BY RowFacts DEF Row
  <2> QED BY <1>2, <2>1 DEF ContentInv, Honest
<1>4. Read(log', sched')
  BY <1>2 DEF ContentInv, Read
<1>5. ASSUME NEW t \in Tokens
      PROVE  Knows(log', proc[t]) /\ Stray(row, t, proc[t]) /\ Awaits(t)
  <2>1. proc[t].pc \in Coordinating => proc[t].fp \in Generations
    BY ProcFacts
  <2>2. proc[t].pc \in {"wait", "finish"} => proc[t].pc \in Coordinating
    BY DEF Coordinating
  <2>3. Knows(log, proc[t]) /\ Stray(row, t, proc[t]) /\ Awaits(t)
    BY DEF ContentInv
  <2> QED BY <1>2, <2>1, <2>2, <2>3 DEF Knows
<1>6. \A t \in Tokens : Awaits(t) => Awaits(t)'
  BY DEF Awaits
<1> QED BY <1>2, <1>3, <1>4, <1>5, <1>6 DEF ContentInv

LEMMA EntryGrows ==
  ASSUME WorldInv, NEW l \in Logs, NEW x, log' = [log EXCEPT ![l] = x],
         log[l].n <= x.n,
         \/ x.c = log[l].c /\ x.m = log[l].m /\ x.e = log[l].e
         \/ x.c = log[l].n /\ log[l].n # 0 /\ x.m # 0
         \/ x.c = 0 /\ x.m = 0
  PROVE  Grows(log, log')
<1>1. \A k \in Logs : k # l => log'[k] = log[k]
  BY DEF WorldInv
<1>2. log'[l] = x
  BY DEF WorldInv
<1>3. \A k \in Logs : log[k].n <= log[k].n
  BY LogType
<1> QED BY <1>1, <1>2, <1>3 DEF Grows

LEMMA SameGrows ==
  ASSUME WorldInv, UNCHANGED log
  PROVE  Grows(log, log')
BY LogType DEF Grows

\* A log is compiled to its end.
LEMMA MarkedGrows ==
  ASSUME WorldInv, NEW l \in Logs, log[l].c # log[l].n,
         log' = [log EXCEPT ![l].c = log[l].n, ![l].m = @ + 1]
  PROVE  Grows(log, log')
<1> DEFINE x == [log[l] EXCEPT !.c = log[l].n, !.m = @ + 1]
<1>1. /\ log[l] \in [n : Nat, c : Nat, m : Nat, e : Nat, ok : BOOLEAN]
      /\ log[l].c <= log[l].n /\ log[l].n \in Nat /\ log[l].c \in Nat /\ log[l].m \in Nat
  BY LogType
<1>2. x.n = log[l].n /\ x.c = log[l].n /\ x.m = log[l].m + 1
  BY <1>1
<1>3. log' = [log EXCEPT ![l] = x]
  BY DEF WorldInv
<1> HIDE DEF x
<1>4. log[l].n # 0 /\ x.m # 0 /\ log[l].n <= x.n
  BY <1>1, <1>2
<1> QED BY <1>2, <1>3, <1>4, EntryGrows

LEMMA UserGrows ==
  ASSUME WorldInv, User
  PROVE  Grows(log, log')
<1>1. CASE NewDay
  BY <1>1, SameGrows DEF NewDay
<1>2. ASSUME NEW l \in Logs, ManualCompile(l) PROVE Grows(log, log')
  BY <1>2, MarkedGrows DEF ManualCompile, Status
<1>3. ASSUME NEW l \in Logs, RemoveMarkers(l) PROVE Grows(log, log')
  <2> DEFINE x == [log[l] EXCEPT !.c = 0, !.m = 0, !.e = @ + 1]
  <2>1. log[l] \in [n : Nat, c : Nat, m : Nat, e : Nat, ok : BOOLEAN]
    BY LogType
  <2>2. x.n = log[l].n /\ x.c = 0 /\ x.m = 0 /\ log[l].n <= log[l].n
    BY <2>1
  <2>3. log' = [log EXCEPT ![l] = x]
    BY <1>3 DEF WorldInv, RemoveMarkers
  <2> HIDE DEF x
  <2> QED BY <2>2, <2>3, EntryGrows
<1>4. ASSUME NEW l \in Logs, Unreadable(l) \/ Readable(l) PROVE Grows(log, log')
  <2> PICK b \in BOOLEAN : log' = [log EXCEPT ![l].ok = b]
    BY <1>4 DEF Unreadable, Readable
  <2> DEFINE x == [log[l] EXCEPT !.ok = b]
  <2>1. log[l] \in [n : Nat, c : Nat, m : Nat, e : Nat, ok : BOOLEAN]
    BY LogType
  <2>2. x.n = log[l].n /\ x.c = log[l].c /\ x.m = log[l].m /\ x.e = log[l].e /\ log[l].n <= log[l].n
    BY <2>1
  <2>3. log' = [log EXCEPT ![l] = x]
    BY DEF WorldInv
  <2> HIDE DEF x
  <2> QED BY <2>2, <2>3, EntryGrows
<1> QED BY <1>1, <1>2, <1>3, <1>4 DEF User

LEMMA DrainGrows ==
  ASSUME WorldInv, NEW wrote \in BOOLEAN, Drain(wrote)
  PROVE  Grows(log, log')
<1>1. CASE ~wrote
  BY <1>1, SameGrows DEF Drain
<1>2. CASE wrote
  <2> DEFINE l == today
             x == [log[l] EXCEPT !.n = @ + 1]
  <2>1. l \in Logs /\ log[l] \in [n : Nat, c : Nat, m : Nat, e : Nat, ok : BOOLEAN]
    BY LogType DEF WorldInv
  <2>2. x.n = log[l].n + 1 /\ x.c = log[l].c /\ x.m = log[l].m /\ x.e = log[l].e
        /\ log[l].n <= log[l].n + 1
    BY <2>1
  <2>3. log' = [log EXCEPT ![l] = x]
    BY <1>2 DEF WorldInv, Drain
  <2> HIDE DEF x, l
  <2> QED BY <2>1, <2>2, <2>3, EntryGrows
<1> QED BY <1>1, <1>2

LEMMA ChildAppliesGrows ==
  ASSUME WorldInv, NEW t \in Tokens, NEW ok \in BOOLEAN, ChildApplies(t, ok)
  PROVE  Grows(log, log')
<1> DEFINE l == child[t].read[1]
<1>1. \/ /\ log' = [log EXCEPT ![l].c = log[l].n, ![l].m = @ + 1]
         /\ log[l].c # log[l].n
      \/ log' = log
  BY DEF ChildApplies, Shows, Status
<1> HIDE DEF l
<1>2. CASE log' = log
  BY <1>2, SameGrows
<1>3. CASE l \in Logs /\ log' # log
  BY <1>1, <1>3, MarkedGrows
<1>4. CASE l \notin Logs /\ log' # log
  BY <1>1, <1>4 DEF WorldInv
<1> QED BY <1>2, <1>3, <1>4

\* The request ends, or a status run succeeds, only as the code promises.
Delivers ==
  /\ row # None /\ row' = None /\ OfItsLog(row.fp) =>
       \A f \in {row.fp, row.pend} \ {None} : log[f[2]].c >= f[4]
  /\ \/ Succeeds(DB, DB', {})
     \/ /\ row # None /\ Succeeds(DB, DB', {row.run})
        /\ OfItsLog(row.fp) => log[row.fp[2]].c >= row.fp[4]

Fulfils == ContentInv' /\ Delivers

LEMMA CommitSucceeds ==
  ASSUME NEW d, Commit(d), NEW W, Succeeds(DB, d, W)
  PROVE  Succeeds(DB, DB', W)
BY DEF Commit, Succeeds, DB

LEMMA ReadsSucceeds ==
  ASSUME UNCHANGED runs
  PROVE  Succeeds(DB, DB', {})
BY DEF Succeeds, DB

\* No request ends here, and no run succeeds.
LEMMA NothingEnds ==
  ASSUME row # None => row' # None, Succeeds(DB, DB', {})
  PROVE  Delivers
BY DEF Delivers

LEMMA WorldFulfils ==
  ASSUME AutoInv, AutoInv', ContentInv, Grows(log, log'), UNCHANGED <<row, proc, runs>>,
         \A s \in sched' \ sched : s[1] \in Generations /\ Written(log, s[1]) /\ OfItsLog(s[1])
  PROVE  Fulfils
<1>1. ContentInv'
  BY WorldContent DEF AutoInv
<1>2. Delivers
  BY ReadsSucceeds, NothingEnds
<1> QED BY <1>1, <1>2 DEF Fulfils

LEMMA TriggerReads ==
  ASSUME WorldInv, NEW asks \in BOOLEAN, Trigger(asks)
  PROVE  \A s \in sched' \ sched : s[1] \in Generations /\ Written(log, s[1]) /\ OfItsLog(s[1])
<1>1. SUFFICES ASSUME NEW s \in sched' \ sched
               PROVE  s[1] \in Generations /\ Written(log, s[1]) /\ OfItsLog(s[1])
  OBVIOUS
<1>2. s[1] = Stamp(today) /\ today \in Logs
  BY DEF Trigger, WorldInv
<1>3. Stamp(today) \in Generations /\ log[today].n <= log[today].n
  BY <1>2, LogFacts, LogType
<1> QED BY <1>2, <1>3 DEF Stamp, Filed, Written, OfItsLog

LEMMA UserFulfils ==
  ASSUME AutoInv, AutoInv', ContentInv, User \/ Rest
  PROVE  Fulfils
<1>1. Grows(log, log')
  BY UserGrows, SameGrows DEF AutoInv, Rest, vars
<1>2. UNCHANGED <<row, proc, runs, sched>>
  BY DEF User, NewDay, ManualCompile, RemoveMarkers, Unreadable, Readable, Rest, vars
<1> QED BY <1>1, <1>2, WorldFulfils

LEMMA QueueFulfils ==
  ASSUME AutoInv, AutoInv', ContentInv,
         Enqueue \/ (\E wrote \in BOOLEAN : Drain(wrote)) \/ (\E asks \in BOOLEAN : Trigger(asks))
  PROVE  Fulfils
<1>1. UNCHANGED <<row, proc, runs>>
  BY DEF Enqueue, Drain, Trigger
<1>2. Grows(log, log')
  BY DrainGrows, SameGrows DEF AutoInv, Enqueue, Trigger
<1>3. CASE Enqueue \/ (\E wrote \in BOOLEAN : Drain(wrote))
  <2>1. UNCHANGED sched
    BY <1>3 DEF Enqueue, Drain
  <2> QED BY <1>1, <1>2, <2>1, WorldFulfils
<1>4. ASSUME NEW asks \in BOOLEAN, Trigger(asks) PROVE Fulfils
  BY <1>1, <1>2, <1>4, TriggerReads, WorldFulfils DEF AutoInv
<1> QED BY <1>3, <1>4

LEMMA ChildFulfils ==
  ASSUME AutoInv, AutoInv', ContentInv, NEW t \in Tokens,
         Child(t) \/ ChildMeetsProbe(t) \/ ChildRaises(t)
  PROVE  Fulfils
<1>1. UNCHANGED proc /\ UNCHANGED sched
  BY DEF Child, ChildStarts, ChildReads, ChildApplies, ChildEnds, ChildMeetsProbe, ChildRaises,
         world
<1>2. CASE \E ok \in BOOLEAN : ChildApplies(t, ok)
  <2>1. Grows(log, log') /\ UNCHANGED <<row, runs>>
    BY <1>2, ChildAppliesGrows DEF AutoInv, ChildApplies
  <2> QED BY <1>1, <2>1, WorldFulfils
<1>3. CASE ~\E ok \in BOOLEAN : ChildApplies(t, ok)
  <2>1. /\ UNCHANGED log
        /\ \/ UNCHANGED <<row, runs, keys>>
           \/ Commit(Moved(DB, child[t].run, "running"))
    BY <1>3 DEF Child, ChildStarts, ChildReads, ChildEnds, ChildMeetsProbe, ChildRaises,
                ReadsRow, world
  <2>2. CASE UNCHANGED <<row, runs, keys>>
    BY <1>1, <2>1, <2>2, SameGrows, WorldFulfils DEF AutoInv
  <2>3. CASE Commit(Moved(DB, child[t].run, "running"))
    <3> DEFINE d == Moved(DB, child[t].run, "running")
    <3>1. child[t].run \in RunIds \cup {None} /\ IsDb(DB)
      BY DEF AutoInv, ChildInv, Compilation, Good
    <3>2. d.row = row
      BY <3>1, RunMoves
    <3>3. Succeeds(DB, d, {})
      BY <3>1, MovedSucceeds
    <3>4. Commit(d)
      BY <2>3
    <3> HIDE DEF d
    <3>5. row' = row /\ Succeeds(DB, DB', {})
      BY <3>2, <3>3, <3>4, CommitSucceeds DEF Commit
    <3>6. ContentInv'
      BY <1>1, <2>1, <3>5, SameGrows, WorldContent DEF AutoInv
    <3> QED BY <3>5, <3>6, NothingEnds DEF Fulfils
  <2> QED BY <2>1, <2>2, <2>3
<1> QED BY <1>2, <1>3

LEMMA ProcSet ==
  ASSUME AutoInv, NEW t \in Tokens, NEW p, Becomes(t, p)
  PROVE  proc'[t] = p /\ \A u \in Tokens : u # t => proc'[u] = proc[u]
BY DEF AutoInv, ProcInv, Becomes

\* A step of an owner or coordinator t, which becomes p: what it may make of the row.
Leads(t, p) ==
  /\ row' # None =>
       /\ row # None /\ row'.token = row.token /\ Honest(log, row')
       /\ \/ row'.fp = row.fp
          \/ row.token = t /\ (p.pc = "none" \/ (OfItsLog(row.fp) => OfItsLog(row'.fp)))
  /\ p.pc = "finish" /\ p.lp # p.fp[2] => row' # None /\ row'.token = t /\ ~OfItsLog(row'.fp)

LEMMA OwnerContent ==
  ASSUME AutoInv, ContentInv, UNCHANGED <<log, sched>>, NEW t \in Tokens,
         proc[t].pc \in Coordinating \cup {"owner"},
         NEW p, Becomes(t, p), p.pc \in Coordinating \cup {"none"}, Knows(log, p), Leads(t, p)
  PROVE  ContentInv'
<1>1. proc'[t] = p /\ \A u \in Tokens : u # t => proc'[u] = proc[u]
  BY ProcSet
<1>2. \A u \in Tokens : Knows(log, proc[u]) /\ Stray(row, u, proc[u]) /\ Awaits(u)
  BY DEF ContentInv
<1>3. \A u \in Tokens : Knows(log, proc'[u])
  BY <1>1, <1>2
<1>4. \A u \in Tokens : Stray(row', u, proc'[u])
  <2>1. Stray(row', t, p)
    BY DEF Leads, Stray
  <2>2. ASSUME NEW u \in Tokens, u # t PROVE Stray(row', u, proc[u])
    BY <1>2, <2>2 DEF Leads, Stray
  <2> QED BY <1>1, <2>1, <2>2
<1>5. ASSUME NEW b \in Tokens PROVE Awaits(b)'
  <2> SUFFICES ASSUME proc'[b].pc = "boot"
               PROVE  OfItsLog(proc'[b].fp) /\ Straight(row', proc'[b].own, proc'[proc'[b].own])
    BY DEF Awaits
  <2>1. b # t /\ proc'[b] = proc[b]
    BY <1>1 DEF Coordinating
  <2> DEFINE u == proc[b].own
  <2>2. u \in Tokens /\ OfItsLog(proc[b].fp) /\ Straight(row, u, proc[u])
    BY <1>2, <2>1, ProcFacts DEF Awaits
  <2> HIDE DEF u
  <2>3. CASE u # t
    <3>1. Straight(row', u, proc[u])
      BY <2>2, <2>3 DEF Leads, Straight
    <3> QED BY <1>1, <2>1, <2>2, <2>3, <3>1 DEF u
  <2>4. CASE u = t
    <3>1. row # None /\ row.token = t => OfItsLog(row.fp)
      BY <2>2, <2>4 DEF Straight, Coordinating
    <3>2. p.pc # "none" /\ row' # None /\ row'.token = t => OfItsLog(row'.fp)
      BY <3>1 DEF Leads
    <3>3. p.pc = "finish" => p.lp = p.fp[2]
      BY <3>2 DEF Leads
    <3>4. Straight(row', t, p)
      BY <3>2, <3>3 DEF Straight
    <3> QED BY <1>1, <2>1, <2>2, <2>4, <3>4 DEF u
  <2> QED BY <2>3, <2>4
<1>6. Marked(log) /\ (row' # None => Honest(log, row')) /\ Read(log, sched)
  BY DEF ContentInv, Leads
<1> QED BY <1>3, <1>4, <1>5, <1>6 DEF ContentInv

\* A step of the others: they leave owners alone, and new processes come in.
Arrives(u) ==
  \/ proc'[u] = proc[u]
  \/ /\ proc[u].pc \in {"watch", "contend", "boot"} \/ u \in Fresh
     /\ proc'[u].pc \in {"none", "watch", "contend", "find", "owner"}
  \/ /\ u \in Fresh /\ proc'[u].pc = "boot" /\ OfItsLog(proc'[u].fp)
     /\ proc'[u].own \in Fresh /\ proc'[proc'[u].own].pc \in {"owner", "none"}

\* The row stays as it is, or goes to a watchdog or a new owner.
Entrusts ==
  row' # None =>
    /\ Honest(log, row')
    /\ \/ row # None /\ row'.token = row.token /\ row'.fp = row.fp
       \/ row'.token \in Tokens /\ proc[row'.token].pc = "watch"
       \/ row'.token \in Fresh /\ OfItsLog(row'.fp)
       \/ /\ OfItsLog(row'.fp)
          /\ \E b \in Tokens : proc[b].pc = "boot" /\ proc[b].own = row'.token

LEMMA FreshFacts ==
  ASSUME NEW u \in Fresh
  PROVE  /\ u \in Tokens /\ proc[u].pc = "none"
         /\ row # None => row.token # u
         /\ \A b \in Tokens : proc[b].own # u
BY DEF Fresh

LEMMA OthersContent ==
  ASSUME AutoInv, ContentInv, UNCHANGED log, sched' \subseteq sched,
         \A u \in Tokens : Arrives(u), Entrusts
  PROVE  ContentInv'
<1>1. \A u \in Tokens : Knows(log, proc[u]) /\ Stray(row, u, proc[u]) /\ Awaits(u)
  BY DEF ContentInv
<1>2. ASSUME NEW u \in Tokens PROVE Knows(log, proc'[u])
  BY <1>1 DEF Knows, Arrives
<1>3. ASSUME NEW u \in Tokens PROVE Stray(row', u, proc'[u])
  <2> SUFFICES ASSUME proc'[u].pc = "finish", proc'[u].lp # proc'[u].fp[2],
                      row' # None, row'.token = u, Alike(row'.fp, proc'[u].fp)
               PROVE  ~OfItsLog(row'.fp)
    BY DEF Stray
  <2>1. proc'[u] = proc[u]
    BY DEF Arrives
  <2>2. u \notin Fresh /\ proc[u].pc = "finish"
    BY <2>1, FreshFacts
  <2>3. ~\E b \in Tokens : proc[b].pc = "boot" /\ proc[b].own = u
    BY <1>1, <2>1 DEF Awaits, Straight
  <2>4. row # None /\ row'.token = row.token /\ row'.fp = row.fp
    BY <2>2, <2>3 DEF Entrusts
  <2> QED BY <1>1, <2>1, <2>4 DEF Stray
<1>4. ASSUME NEW b \in Tokens PROVE Awaits(b)'
  <2> DEFINE u == proc'[b].own
  <2> SUFFICES ASSUME proc'[b].pc = "boot"
               PROVE  OfItsLog(proc'[b].fp) /\ Straight(row', u, proc'[u])
    BY DEF Awaits
  <2> HIDE DEF u
  <2>1. CASE proc'[b] = proc[b]
    <3>1. u \in Tokens /\ OfItsLog(proc[b].fp) /\ Straight(row, u, proc[u])
      BY <1>1, <2>1, ProcFacts DEF Awaits, u
    <3>2. u \notin Fresh /\ proc[u].pc \notin {"watch", "contend", "boot"}
      BY <2>1, <3>1, FreshFacts DEF u, Straight, Coordinating
    <3>3. proc'[u] = proc[u]
      BY <3>1, <3>2 DEF Arrives
    <3>4. row' # None /\ row'.token = u => \/ row # None /\ row.token = u /\ row'.fp = row.fp
                                           \/ OfItsLog(row'.fp)
      BY <3>2 DEF Entrusts
    <3> QED BY <2>1, <3>1, <3>3, <3>4 DEF Straight
  <2>2. CASE proc'[b] # proc[b]
    <3>1. OfItsLog(proc'[b].fp) /\ u \in Fresh /\ proc'[u].pc \in {"owner", "none"}
      BY <2>2 DEF Arrives, u
    <3>2. proc[u].pc # "watch" /\ (row # None => row.token # u)
      BY <3>1, FreshFacts
    <3>3. row' # None /\ row'.token = u => OfItsLog(row'.fp)
      BY <3>2 DEF Entrusts
    <3> QED BY <3>1, <3>3 DEF Straight
  <2> QED BY <2>1, <2>2
<1>5. Marked(log) /\ (row' # None => Honest(log, row')) /\ Read(log, sched')
  BY DEF ContentInv, Entrusts, Read
<1> QED BY <1>2, <1>3, <1>4, <1>5 DEF ContentInv

LEMMA OneArrives ==
  ASSUME AutoInv, NEW t \in Tokens, proc[t].pc \in {"watch", "contend", "boot"},
         NEW p, p.pc \in {"none", "watch", "contend", "find", "owner"}, Becomes(t, p)
  PROVE  \A u \in Tokens : Arrives(u)
BY ProcSet DEF Arrives

\* What a row says stays as it is.
SaysTheSame(r, s) == s # None /\ s.token = r.token /\ s.fp = r.fp /\ s.pend = r.pend

LEMMA OthersFulfil ==
  ASSUME AutoInv, ContentInv, UNCHANGED <<log, runs>>, sched' \subseteq sched,
         \A u \in Tokens : Arrives(u),
         row' = row \/ (row # None /\ SaysTheSame(row, row'))
  PROVE  Fulfils
<1>1. Entrusts
  BY DEF Entrusts, SaysTheSame, ContentInv, Honest
<1>2. ContentInv'
  BY <1>1, OthersContent
<1>3. Delivers
  BY ReadsSucceeds, NothingEnds DEF SaysTheSame
<1> QED BY <1>2, <1>3 DEF Fulfils

LEMMA ExpiryFulfils ==
  ASSUME AutoInv, AutoInv', ContentInv, Expiry
  PROVE  Fulfils
<1>1. row # None /\ UNCHANGED <<log, sched, runs, proc>>
  BY DEF Expiry, OwnerExpires, WatcherExpires, ContenderExpires, world
<1>2. row \in Row
  BY <1>1, RowFacts
<1>3. /\ row'.token = row.token /\ row'.fp = row.fp /\ row'.pend = row.pend
  BY <1>2 DEF Expiry, OwnerExpires, WatcherExpires, ContenderExpires, Row
<1>4. row' # None
  <2>1. \/ row' = [row EXCEPT !.live = FALSE] \/ row' = [row EXCEPT !.wlive = FALSE]
        \/ row' = [row EXCEPT !.clive = FALSE]
    BY DEF Expiry, OwnerExpires, WatcherExpires, ContenderExpires
  <2>2. row' \in Row
    BY <1>2, <2>1 DEF Row
  <2> QED BY <2>2, AutoAssumption
<1> QED BY <1>1, <1>3, <1>4, OthersFulfil DEF SaysTheSame, Arrives

LEMMA ContenderStartsFulfils ==
  ASSUME AutoInv, AutoInv', ContentInv, NEW t \in Tokens, ContenderStarts(t)
  PROVE  Fulfils
<1> DEFINE p == [Watcher("watch", proc[t].pred) EXCEPT !.reg = TRUE]
<1>1. proc[t].pc = "contend" /\ UNCHANGED <<row, runs, log, sched>>
  BY DEF ContenderStarts, ReadsRow, world
<1>2. p.pc = "watch"
  BY DEF Watcher, Nobody
<1> HIDE DEF p
<1>3. Becomes(t, p) \/ Becomes(t, Nobody)
  BY DEF ContenderStarts, Exits, p
<1> QED BY <1>1, <1>2, <1>3, NobodyIs, OneArrives, OthersFulfil

LEMMA PollKeepsFulfils ==
  ASSUME AutoInv, AutoInv', ContentInv, NEW t \in Tokens, PollKeeps(t)
  PROVE  Fulfils
<1>1. proc[t].pc = "watch" /\ UNCHANGED <<runs, log, sched>>
  BY DEF PollKeeps, ReadsRow, world
<1>2. CASE Exits(t) /\ ReadsRow
  BY <1>1, <1>2, NobodyIs, OneArrives, OthersFulfil DEF Exits, ReadsRow
<1>3. CASE /\ Standing(t) = "queued"
           /\ row' = [Takes(t) EXCEPT !.clive = TRUE]
           /\ UNCHANGED <<runs, keys, proc>>
  <2>1. row # None
    BY <1>3 DEF Standing
  <2>2. row \in Row
    BY <2>1, RowFacts
  <2>3. row' \in Row
    <3>1. \/ row' = [row EXCEPT !.clive = TRUE]
          \/ row' = [[row EXCEPT !.cont = t, !.clive = TRUE] EXCEPT !.clive = TRUE]
      BY <1>3 DEF Takes
    <3> QED BY <2>2, <3>1 DEF Row
  <2>4. row'.token = row.token /\ row'.fp = row.fp /\ row'.pend = row.pend
    BY <1>3, <2>2 DEF Takes, Row
  <2>5. row' # None
    BY <2>3, AutoAssumption
  <2> QED BY <1>1, <1>3, <2>1, <2>4, <2>5, OthersFulfil DEF SaysTheSame, Arrives
<1> QED BY <1>2, <1>3 DEF PollKeeps

LEMMA PollWaitsFulfils ==
  ASSUME AutoInv, AutoInv', ContentInv, NEW t \in Tokens, PollWaits(t)
  PROVE  Fulfils
<1> DEFINE r == Polled(t)
<1>1. proc[t].pc = "watch" /\ row # None /\ UNCHANGED <<runs, log, sched>>
  BY DEF PollWaits, world
<1>2. Same(row, r) /\ r \in Row
  BY <1>1, PolledFacts DEF Sound
<1>3. \/ row' = [r EXCEPT !.watcher = None, !.wlive = FALSE] /\ Exits(t)
      \/ /\ row' = [r EXCEPT !.wlive = TRUE,
                             !.status = IF busy \/ r.live \/ LockHeld THEN @ ELSE "read_wait"]
         /\ UNCHANGED proc
  BY DEF PollWaits
<1> HIDE DEF r
<1>4. row' \in Row /\ row'.token = r.token /\ row'.fp = r.fp /\ row'.pend = r.pend
  BY <1>2, <1>3 DEF Row, Waits
<1>5. row' # None
  BY <1>4, AutoAssumption
<1>6. \A u \in Tokens : Arrives(u)
  BY <1>1, <1>3, NobodyIs, OneArrives DEF Exits, Arrives
<1> QED BY <1>1, <1>2, <1>4, <1>5, <1>6, OthersFulfil DEF SaysTheSame, Same, Wants

LEMMA FiledIs ==
  ASSUME WorldInv, NEW a, NEW l \in Logs
  PROVE  /\ Written(log, Filed(a, l)) /\ Filed(a, l)[1] = a /\ Filed(a, l)[2] = l
         /\ OfItsLog(Stamp(l))
BY LogType DEF Filed, Stamp, Written, OfItsLog

\* A covered log is compiled through every entry that was written.
LEMMA CoveredIsCompiled ==
  ASSUME WorldInv, NEW f \in Generations, Written(log, f), Status(f[2]) = "covered"
  PROVE  log[f[2]].c >= f[4]
<1>1. f[2] \in Logs /\ f[4] \in Nat
  BY DEF Generations
<1>2. log[f[2]].c = log[f[2]].n
  BY DEF Status
<1>3. log[f[2]].n \in Nat /\ log[f[2]].c \in Nat /\ f[4] <= log[f[2]].n
  BY <1>1, LogType DEF Written
<1> QED BY <1>1, <1>2, <1>3

LEMMA BootstrapFulfils ==
  ASSUME AutoInv, AutoInv', ContentInv, NEW t \in Tokens, Bootstrap(t)
  PROVE  Fulfils
<1> DEFINE p == proc[t]
           f == p.fp
           c == Created(DB, f)
           r == Request(p.own, FALSE, t, f, p.pre, c.id)
           d == [c EXCEPT !.row = r]
           w == Watcher("watch", None)
<1>1. /\ p.pc = "boot" /\ p.own \in Tokens /\ f \in Generations /\ p.pre \in Histories
      /\ UNCHANGED <<log, sched>>
  BY ProcFacts DEF Bootstrap, world
<1>2. w.pc = "watch"
  BY WatcherIs
<1>3. \/ (Becomes(t, Nobody) \/ Becomes(t, w)) /\ ReadsRow
      \/ row = None /\ Shows(f[1], f) /\ Commit(d) /\ Becomes(t, w)
  BY DEF Bootstrap, Exits
<1> HIDE DEF w
<1>4. \A u \in Tokens : Arrives(u)
  BY <1>1, <1>2, <1>3, NobodyIs, OneArrives
<1>5. CASE ReadsRow
  BY <1>1, <1>4, <1>5, OthersFulfil DEF ReadsRow
<1>6. CASE row = None /\ Shows(f[1], f) /\ Commit(d)
  <2>1. IsDb(DB) /\ IsDb(c) /\ c \in Db /\ Succeeds(DB, c, {})
    BY <1>1, CreatedIsRun, CreatedSucceeds DEF AutoInv, Good, IsDb
  <2> HIDE DEF c
  <2>2. d.runs = c.runs /\ d.row = r
    BY <2>1 DEF Db
  <2>3. Sound(r) /\ r.fp = f /\ r.pend = None /\ r.token = p.own
    <3>1. \E live \in BOOLEAN : r = Request(p.own, live, t, f, p.pre, c.id)
      <4> WITNESS FALSE \in BOOLEAN
      <4> QED OBVIOUS
    <3>2. c.id \in RunIds \cup {None}
      BY <2>1 DEF Db
    <3> HIDE DEF r, p, f
    <3> QED BY <1>1, <3>1, <3>2, RequestSound DEF p, f
  <2> HIDE DEF d, r
  <2>4. Succeeds(DB, DB', {}) /\ row' = r
    BY <1>6, <2>1, <2>2, SucceedsInto, CommitSucceeds DEF Commit
  <2>5. OfItsLog(f)
    BY <1>1 DEF ContentInv, Awaits
  <2>6. Written(log, f)
    <3>1. f[2] \in Logs /\ f[4] = log[f[1]].n /\ f[1] = f[2]
      BY <1>1, <1>6, <2>5, GenerationLog DEF Shows, Alike, Stamp, Filed, OfItsLog
    <3> QED BY <3>1, LogType DEF AutoInv, Written
  <2>7. Entrusts
    <3>1. Honest(log, row') /\ OfItsLog(row'.fp)
      BY <2>3, <2>4, <2>5, <2>6 DEF Honest
    <3>2. \E b \in Tokens : proc[b].pc = "boot" /\ proc[b].own = row'.token
      BY <1>1, <2>3, <2>4
    <3> QED BY <3>1, <3>2 DEF Entrusts
  <2>8. ContentInv'
    BY <1>1, <1>4, <2>7, OthersContent
  <2>9. Delivers
    BY <1>6, <2>4, NothingEnds
  <2> QED BY <2>8, <2>9 DEF Fulfils
<1> QED BY <1>3, <1>5, <1>6

\* A watchdog is spawned, and t goes on as p.
LEMMA RelievedArrives ==
  ASSUME AutoInv, NEW t \in Tokens, CanClaim(t), NEW p, p.pc \in {"none", "find"} \/ p = proc[t],
         proc' = [proc EXCEPT ![t] = p, ![Fresh1] = Watcher("watch", t)]
  PROVE  \A u \in Tokens : Arrives(u)
<1> DEFINE w == Watcher("watch", t)
<1>1. Fresh1 \in Fresh /\ Fresh1 \in Tokens /\ Fresh1 # t
  BY SuccessorIs
<1>2. w.pc = "watch" /\ proc[t].pc = "watch"
  BY WatcherIs DEF CanClaim
<1> HIDE DEF w
<1>3. /\ proc'[t] = p /\ proc'[Fresh1] = w
      /\ \A u \in Tokens : u # t /\ u # Fresh1 => proc'[u] = proc[u]
  BY <1>1 DEF AutoInv, ProcInv, w
<1> QED BY <1>1, <1>2, <1>3 DEF Arrives

LEMMA ClaimAbortsFulfils ==
  ASSUME AutoInv, AutoInv', ContentInv, NEW t \in Tokens, ClaimAborts(t)
  PROVE  Fulfils
<1>1. CanClaim(t) /\ UNCHANGED <<row, runs, log, sched>>
  BY DEF ClaimAborts, ReadsRow, world
<1>2. PICK p \in {proc[t], Nobody} :
        proc' = [proc EXCEPT ![t] = p, ![Fresh1] = Watcher("watch", t)]
  BY DEF ClaimAborts
<1>3. \A u \in Tokens : Arrives(u)
  BY <1>1, <1>2, NobodyIs, RelievedArrives
<1> QED BY <1>1, <1>3, OthersFulfil

LEMMA ObservedHonest ==
  ASSUME AutoInv, NEW r, Sound(r), Honest(log, r), ~Covered(r), ~CannotRead(r)
  PROVE  Honest(log, Observed(r))
<1> DEFINE a == r.fp[1]
           ended == Status(a) = "covered"
           rest == r.pend # None /\ Status(r.pend[1]) = "uncompiled"
           other == rest /\ r.pend[1] # a
           first == ~Extends(Marks(a), r.pre) \/ (ended /\ ~Progressed(a, r.pre))
           s == [fp |-> Stamp(r.pend[1]), pre |-> r.ppre, pend |-> None, ppre |-> None]
           p == IF other THEN Stamp(r.pend[1]) ELSE None
           q == IF other THEN r.ppre ELSE None
           u == [fp |-> Stamp(a), pre |-> Required(a, r.pre), pend |-> p, ppre |-> q]
<1>1. /\ r.fp \in Generations /\ r.pend \in Generations \cup {None}
      /\ a \in Logs /\ (r.pend # None => r.pend[1] \in Logs)
  BY GenerationLog DEF Sound, Row
<1>2. Observed(r) = IF first THEN Retained(r) ELSE IF ended THEN s ELSE u
  BY DEF Observed
<1>3. CASE first
  BY <1>2, <1>3 DEF Retained, Honest
<1>4. CASE ~first /\ ended
  <2>1. r.pend # None
    <3>1. Status(a) = "covered" /\ Progressed(a, r.pre)
      BY <1>4
    <3> QED BY <3>1 DEF Covered
  <2>2. Observed(r) = s
    BY <1>2, <1>4
  <2>3. Written(log, s.fp) /\ s.pend = None
    BY <1>1, <2>1, FiledIs DEF Stamp, AutoInv
  <2> QED BY <2>2, <2>3 DEF Honest
<1>5. CASE ~first /\ ~ended
  <2>1. Observed(r) = u
    BY <1>2, <1>5
  <2>2. Written(log, u.fp)
    BY <1>1, FiledIs DEF Stamp, AutoInv
  <2>3. p # None => Written(log, p) /\ OfItsLog(p)
    BY <1>1, FiledIs DEF Stamp, AutoInv
  <2>4. u.pend = p
    OBVIOUS
  <2> HIDE DEF u, p
  <2> QED BY <2>1, <2>2, <2>3, <2>4 DEF Honest
<1> QED BY <1>3, <1>4, <1>5

LEMMA PollClaimsFulfils ==
  ASSUME AutoInv, AutoInv', ContentInv, NEW t \in Tokens, PollClaims(t)
  PROVE  Fulfils
<1> DEFINE r == Polled(t)
           d == [DB EXCEPT !.row = r]
<1>1. CanClaim(t) /\ row # None /\ proc[t].pc = "watch" /\ UNCHANGED <<log, sched>>
  BY DEF PollClaims, CanClaim, world
<1>2. r.status # "failed" /\ ~CannotRead(r)
  BY <1>1 DEF CanClaim
<1>3. Sound(r) /\ Same(row, r) /\ Says(row, runs) /\ Honest(log, row)
  BY <1>1, PolledFacts, RowFacts DEF ContentInv
<1>4. \/ Covered(d.row) /\ Commit(Deleted(d, TRUE)) /\ Exits(t)
      \/ ~Covered(d.row) /\ LET seen == Observed(d.row)
                            IN  /\ Commit(Claimed(t, d, Fresh1, seen))
                                /\ proc' = [proc EXCEPT ![t] = Coordinator("find", seen.fp, None),
                                                        ![Fresh1] = Watcher("watch", t)]
  BY DEF PollClaims
<1>5. Good(d) /\ d.row = r /\ d.runs = DB.runs
  <2>1. Says(r, DB.runs) /\ IsDb(DB)
    BY <1>3, DBFields DEF AutoInv, Good, Says, Same, Wants
  <2> HIDE DEF r
  <2> QED BY <1>3, <2>1, PutRow
<1>6. r # None /\ r.fp = row.fp /\ r.pend = row.pend /\ r.run = row.run /\ Honest(log, r)
  BY <1>3 DEF Same, Wants, Honest
<1> HIDE DEF d, r
<1>7. CASE Covered(d.row) /\ Commit(Deleted(d, TRUE)) /\ Exits(t)
  <2> DEFINE e == Deleted(d, TRUE)
             W == {row.run}
  <2>1. e.row = None /\ Succeeds(d, e, W)
    BY <1>5, <1>6, DeletedGood, DeletedSucceeds
  <2> HIDE DEF e, W
  <2>2. Commit(e) /\ row' = None
    BY <1>7, <2>1 DEF Commit, e
  <2>3. Succeeds(DB, DB', W)
    <3>1. Succeeds(DB, d, W)
      BY <1>5, SucceedsSame
    <3> QED BY <2>1, <2>2, <3>1, SucceedsOn, CommitSucceeds
  <2>4. row.fp \in Generations /\ row.pend \in Generations \cup {None}
    BY <1>1, RowFacts DEF Row
  <2>5. /\ Status(row.fp[1]) = "covered"
        /\ row.pend # None => Status(row.pend[1]) = "covered"
    BY <1>5, <1>6, <1>7 DEF Covered
  <2>6. OfItsLog(row.fp) => log[row.fp[2]].c >= row.fp[4]
    BY <1>3, <2>4, <2>5, CoveredIsCompiled DEF AutoInv, Honest, OfItsLog
  <2>7. row.pend # None => log[row.pend[2]].c >= row.pend[4]
    BY <1>3, <2>4, <2>5, CoveredIsCompiled DEF AutoInv, Honest, OfItsLog
  <2>8. Delivers
    BY <1>1, <2>3, <2>6, <2>7 DEF Delivers, W
  <2>9. \A u \in Tokens : Arrives(u)
    BY <1>1, <1>7, NobodyIs, OneArrives DEF Exits
  <2>10. ContentInv'
    BY <1>1, <2>2, <2>9, OthersContent DEF Entrusts
  <2> QED BY <2>8, <2>10 DEF Fulfils
<1>8. CASE ~Covered(d.row) /\ LET seen == Observed(d.row)
                              IN  /\ Commit(Claimed(t, d, Fresh1, seen))
                                  /\ proc' = [proc EXCEPT ![t] = Coordinator("find", seen.fp, None),
                                                          ![Fresh1] = Watcher("watch", t)]
  <2> DEFINE seen == Observed(d.row)
             e == Claimed(t, d, Fresh1, seen)
             p == Coordinator("find", seen.fp, None)
             N == {}
  <2>1. IsSeen(seen) /\ Honest(log, seen) /\ seen.fp \in Generations
    BY <1>2, <1>3, <1>5, <1>6, <1>8, ObservedIsSeen, ObservedHonest DEF IsSeen, Seen
  <2>2. Commit(e) /\ proc' = [proc EXCEPT ![t] = p, ![Fresh1] = Watcher("watch", t)]
    BY <1>8
  <2>3. Fresh1 \in Tokens
    BY <1>1, SuccessorIs
  <2> HIDE DEF seen, N
  <2>4. /\ e.row # None /\ e.row.token = t /\ e.row.fp = seen.fp /\ e.row.pend = seen.pend
        /\ Succeeds(d, e, N)
    BY <1>2, <1>5, <1>6, <2>1, <2>3, ClaimedGood
  <2>5. p.pc = "find"
    BY DEF Coordinator, Nobody
  <2> HIDE DEF e, p
  <2>6. row' = e.row /\ Succeeds(DB, DB', N)
    <3>1. Succeeds(DB, d, N)
      BY <1>5, SucceedsSame
    <3> QED BY <2>2, <2>4, <3>1, SucceedsOn, CommitSucceeds DEF Commit
  <2>7. Delivers
    BY <2>4, <2>6, NothingEnds DEF N
  <2>8. Honest(log, row') /\ row'.token = t
    BY <2>1, <2>4, <2>6 DEF Honest
  <2>9. Entrusts
    BY <1>1, <2>8 DEF Entrusts
  <2>10. \A u \in Tokens : Arrives(u)
    BY <1>1, <2>2, <2>5, RelievedArrives
  <2> QED BY <1>1, <2>7, <2>9, <2>10, OthersContent DEF Fulfils
<1> QED BY <1>4, <1>7, <1>8

LEMMA SpawnedArrives ==
  ASSUME AutoInv, NEW roles, NEW f \in Generations, OfItsLog(f), NEW pre,
         NEW owner \in Fresh, NEW dog \in Fresh, owner # dog,
         proc' = Spawned(roles, f, pre, owner, dog)
  PROVE  \A u \in Tokens : Arrives(u)
<1> DEFINE b == [Nobody EXCEPT !.pc = "boot", !.own = owner, !.fp = f, !.pre = pre]
           c == Watcher("contend", row.watcher)
           o == Coordinator("owner", f, None)
<1>1. owner \in Tokens /\ dog \in Tokens
  BY FreshFacts
<1>2. b.pc = "boot" /\ b.fp = f /\ b.own = owner
  BY DEF Nobody
<1>3. c.pc = "contend" /\ o.pc = "owner"
  BY DEF Watcher, Coordinator, Nobody
<1>4. proc' = [t \in Tokens |->
                 IF t = dog /\ "watchdog" \in roles THEN b
                 ELSE IF t = dog /\ "contender" \in roles THEN c
                 ELSE IF t = owner /\ "owner" \in roles THEN o
                 ELSE proc[t]]
  BY DEF Spawned
<1> HIDE DEF b, c, o
<1>5. proc'[owner].pc \in {"owner", "none"}
  <2>1. proc[owner].pc = "none"
    BY FreshFacts
  <2> QED BY <1>1, <1>3, <1>4, <2>1
<1>6. ASSUME NEW u \in Tokens PROVE Arrives(u)
  <2>1. CASE proc'[u] = b /\ u = dog
    BY <1>2, <1>5, <2>1 DEF Arrives
  <2>2. CASE proc'[u] = c /\ u = dog
    BY <1>3, <2>2 DEF Arrives
  <2>3. CASE proc'[u] = o /\ u = owner
    BY <1>3, <2>3 DEF Arrives
  <2>4. CASE proc'[u] = proc[u]
    BY <2>4 DEF Arrives
  <2> QED BY <1>4, <2>1, <2>2, <2>3, <2>4
<1> QED BY <1>6

LEMMA ScheduleFulfils ==
  ASSUME AutoInv, AutoInv', ContentInv, NEW s \in sched, Schedule(s)
  PROVE  Fulfils
<1>1. Cardinality(Fresh) >= 2 /\ UNCHANGED log /\ sched' \subseteq sched
  BY DEF Schedule
<1>2. CASE busy
  BY <1>1, <1>2, OthersFulfil DEF Schedule, Arrives
<1>3. CASE ~busy
  <2> DEFINE b == Scheduling
             d == Registered(b, s[1], s[2], Fresh1, Fresh2)
             N == {}
  <2>1. Commit(d) /\ proc' = Spawned(Roles(b.row), s[1], s[2], Fresh1, Fresh2)
    BY <1>3 DEF Schedule
  <2>2. /\ s[1] \in Generations /\ s[2] \in Histories
        /\ Fresh1 \in Fresh /\ Fresh2 \in Fresh /\ Fresh1 # Fresh2
        /\ Fresh1 \in Tokens /\ Fresh2 \in Tokens
        /\ Good(b)
        /\ b.row # None => row # None /\ b.row.status # "failed"
    BY <1>1, ScheduleFacts
  <2>3. Written(log, s[1]) /\ OfItsLog(s[1]) /\ (row # None => Honest(log, row))
    BY DEF ContentInv, Read
  <2>4. b.row # None => Wants(row, b.row)
    <3>1. CASE row # None /\ row.status = "failed"
      <4>1. \E no \in BOOLEAN : ~no /\ Scheduling = Deleted(DB, no)
        <5> WITNESS FALSE \in BOOLEAN
        <5> QED BY <3>1 DEF Scheduling
      <4> QED BY <3>1, <4>1, DeletedGood, DBFields DEF AutoInv
    <3>2. CASE ~(row # None /\ row.status = "failed")
      <4>1. Scheduling = Ensured(DB)
        BY <3>2 DEF Scheduling
      <4> QED BY <4>1, EnsuredGood, DBFields DEF AutoInv
    <3> QED BY <3>1, <3>2
  <2> HIDE DEF N
  <2>5. Succeeds(DB, b, N)
    BY SchedulingSucceeds DEF AutoInv
  <2> HIDE DEF b
  <2>6. /\ d.row # None /\ Succeeds(b, d, N)
        /\ b.row = None => d.row.token = Fresh1 /\ d.row.fp = s[1] /\ d.row.pend = None
        /\ b.row # None =>
             d.row.token = b.row.token /\ d.row.fp = b.row.fp /\ d.row.pend = s[1]
    BY <2>2, RegisteredGood, RegisteredSucceeds
  <2> HIDE DEF d
  <2>7. row' = d.row /\ Succeeds(DB, DB', N)
    BY <2>1, <2>5, <2>6, SucceedsOn, CommitSucceeds DEF Commit
  <2>8. Entrusts
    <3>1. CASE b.row = None
      <4>1. Honest(log, row') /\ row'.token \in Fresh /\ OfItsLog(row'.fp)
        BY <2>2, <2>3, <2>6, <2>7, <3>1 DEF Honest
      <4> QED BY <4>1 DEF Entrusts
    <3>2. CASE b.row # None
      <4>1. /\ row # None /\ row'.token = row.token /\ row'.fp = row.fp
            /\ Honest(log, row')
        BY <2>2, <2>3, <2>4, <2>6, <2>7, <3>2 DEF Honest, Wants
      <4> QED BY <4>1 DEF Entrusts
    <3> QED BY <3>1, <3>2
  <2>9. \A u \in Tokens : Arrives(u)
    BY <2>1, <2>2, <2>3, SpawnedArrives
  <2>10. ContentInv'
    BY <1>1, <2>8, <2>9, OthersContent
  <2>11. Delivers
    BY <2>6, <2>7, NothingEnds DEF N
  <2> QED BY <2>10, <2>11 DEF Fulfils
<1> QED BY <1>2, <1>3

LEMMA ScheduleAbortsFulfils ==
  ASSUME AutoInv, AutoInv', ContentInv, NEW s \in sched, ScheduleAborts(s)
  PROVE  Fulfils
<1>1. Cardinality(Fresh) >= 2 /\ UNCHANGED <<row, runs, log>> /\ sched' \subseteq sched
  BY DEF ScheduleAborts
<1> DEFINE b == Scheduling
<1>2. PICK unborn : proc' = Spawned(Roles(b.row) \ unborn, s[1], s[2], Fresh1, Fresh2)
  BY DEF ScheduleAborts
<1>3. /\ s[1] \in Generations /\ OfItsLog(s[1])
      /\ Fresh1 \in Fresh /\ Fresh2 \in Fresh /\ Fresh1 # Fresh2
  BY <1>1, ScheduleFacts DEF ContentInv, Read
<1> HIDE DEF b
<1>4. \A u \in Tokens : Arrives(u)
  BY <1>2, <1>3, SpawnedArrives
<1> QED BY <1>1, <1>4, OthersFulfil

\* A process that is no owner dies.
LEMMA OtherDies ==
  ASSUME AutoInv, ContentInv, NEW t \in Tokens, Crash(t),
         proc[t].pc \notin Coordinating \cup {"owner"}
  PROVE  Fulfils
<1>1. /\ proc[t].pc \in {"watch", "contend", "boot"} /\ Becomes(t, Nobody)
      /\ UNCHANGED <<row, runs, log, sched>>
  BY ProcFacts DEF Crash, Exits, ReadsRow, world, Proc
<1> QED BY <1>1, NobodyIs, OneArrives, OthersFulfil

-----------------------------------------------------------------------------
(* ... and the steps of owners.                                              *)

\* The row says what it said, whatever else is written to it.
LEMMA OwnerFulfils ==
  ASSUME AutoInv, ContentInv, UNCHANGED <<log, sched>>, NEW t \in Tokens,
         proc[t].pc \in Coordinating \cup {"owner"},
         row' = row \/ (row # None /\ SaysTheSame(row, row')), Succeeds(DB, DB', {}),
         NEW p, Becomes(t, p), p.pc \in Coordinating \cup {"none"}, Knows(log, p),
         p.pc = "finish" =>
           p.lp = p.fp[2] \/ (row' # None /\ row'.token = t /\ ~OfItsLog(row'.fp))
  PROVE  Fulfils
<1>1. Leads(t, p)
  BY DEF Leads, SaysTheSame, ContentInv, Honest
<1>2. ContentInv'
  BY <1>1, OwnerContent
<1>3. Delivers
  BY NothingEnds DEF SaysTheSame
<1> QED BY <1>2, <1>3 DEF Fulfils

\* Where a coordinator is that has not seen what its child did.
Early == {"none", "find", "owned", "launch", "promote", "fail"}

LEMMA EarlyKnows ==
  ASSUME NEW p, p.pc \in Early
  PROVE  /\ Knows(log, p) /\ p.pc \in Coordinating \cup {"none"} /\ p.pc # "finish"
BY DEF Early, Knows, Coordinating

LEMMA OwnerReads ==
  ASSUME AutoInv, ContentInv, UNCHANGED <<log, sched>>, NEW t \in Tokens,
         proc[t].pc \in Coordinating \cup {"owner"}, UNCHANGED <<row, runs>>,
         NEW p, Becomes(t, p), p.pc \in Early
  PROVE  Fulfils
BY EarlyKnows, ReadsSucceeds, OwnerFulfils

LEMMA OwnerStartsFulfils ==
  ASSUME AutoInv, AutoInv', ContentInv, NEW t \in Tokens, OwnerStarts(t)
  PROVE  Fulfils
<1> DEFINE p == Coordinator("find", proc[t].fp, None)
<1>1. p.pc \in Early /\ Nobody.pc \in Early
  BY DEF Coordinator, Nobody, Early
<1> HIDE DEF p
<1>2. /\ proc[t].pc = "owner" /\ (Becomes(t, p) \/ Becomes(t, Nobody))
      /\ UNCHANGED <<row, runs, log, sched>>
  BY DEF OwnerStarts, Exits, ReadsRow, world, p
<1> QED BY <1>1, <1>2, OwnerReads

LEMMA OwnerExits ==
  ASSUME AutoInv, ContentInv, NEW t \in Tokens,
         \/ SessionOpen(t) \/ RenewalLost(t)
         \/ Crash(t) /\ proc[t].pc \in Coordinating \cup {"owner"}
  PROVE  Fulfils
<1>1. /\ proc[t].pc \in Coordinating \cup {"owner"} /\ Becomes(t, Nobody)
      /\ UNCHANGED <<row, runs, log, sched>>
  BY DEF SessionOpen, RenewalLost, Crash, Exits, ReadsRow, world, Coordinating
<1>2. Nobody.pc \in Early
  BY NobodyIs DEF Early
<1> QED BY <1>1, <1>2, OwnerReads

\* The links of the row are ensured, and a coordinator goes on.
LEMMA EnsuredSays ==
  ASSUME AutoInv, Commit(Ensured(DB))
  PROVE  /\ row' = row \/ (row # None /\ SaysTheSame(row, row'))
         /\ (row' = None) = (row = None) /\ Succeeds(DB, DB', {})
<1> DEFINE d == Ensured(DB)
<1>1. (d.row = None) = (row = None) /\ (row # None => Wants(row, d.row))
  BY EnsuredGood, DBFields DEF AutoInv
<1>2. Succeeds(DB, d, {})
  BY EnsuredSucceeds DEF AutoInv
<1>3. Commit(d)
  OBVIOUS
<1> HIDE DEF d
<1>4. row' = d.row
  BY <1>3 DEF Commit
<1> QED BY <1>1, <1>2, <1>3, <1>4, CommitSucceeds DEF Wants, SaysTheSame

LEMMA OwnedFulfils ==
  ASSUME AutoInv, AutoInv', ContentInv, NEW t \in Tokens, Owned(t)
  PROVE  Fulfils
<1> DEFINE d == Ensured(DB)
           p == [Coordinator("launch", proc[t].fp, proc[t].lp) EXCEPT
                                !.pre = d.row.pre, !.rid = d.row.run]
<1>1. /\ proc[t].pc \in Coordinating \cup {"owner"} /\ Commit(Ensured(DB))
      /\ UNCHANGED <<log, sched>>
  BY DEF Owned, world, Coordinating
<1>2. Becomes(t, Nobody) \/ Becomes(t, p)
  BY DEF Owned
<1>3. p.pc \in Early /\ Nobody.pc \in Early
  BY DEF Coordinator, Nobody, Early
<1> HIDE DEF p
<1> QED BY <1>1, <1>2, <1>3, EarlyKnows, EnsuredSays, OwnerFulfils

\* A coordinator finishes a log whose content it finds compiled.
LEMMA LooksAt ==
  ASSUME NEW f, NEW a, NEW r
  PROVE  LET p == Looks(f, a, r)
         IN  \/ p.pc \in Early
             \/ p.pc = "finish" /\ p.lp = a /\ p.fp = f /\ Status(a) = "covered"
<1> DEFINE b == r.pend[1]
           q1 == Failing(f, a, TRUE, None)
           q2 == [Coordinator("finish", f, a) EXCEPT !.reset = TRUE]
           q3 == Failing(f, a, FALSE, r.pre)
           q4 == Failing(f, b, TRUE, None)
           q5 == [Coordinator("promote", f, a) EXCEPT !.pend = r.pend]
<1>1. \/ Looks(f, a, r) \in {q1, q3, q4, q5, Nobody}
      \/ Looks(f, a, r) = q2 /\ Status(a) = "covered"
  BY DEF Looks, NoProgress
<1>2. /\ q1.pc = "fail" /\ q3.pc = "fail" /\ q4.pc = "fail"
      /\ q5.pc = "promote" /\ Nobody.pc = "none"
      /\ q2.pc = "finish" /\ q2.lp = a /\ q2.fp = f
  BY DEF Failing, Coordinator, Nobody
<1> HIDE DEF q1, q2, q3, q4, q5
<1> QED BY <1>1, <1>2 DEF Early

LEMMA FindFulfils ==
  ASSUME AutoInv, AutoInv', ContentInv, NEW t \in Tokens, Find(t)
  PROVE  Fulfils
<1> DEFINE f == proc[t].fp
<1>1. /\ proc[t].pc \in Coordinating /\ UNCHANGED <<log, sched>> /\ f \in Generations
  <2>1. proc[t].pc \in Coordinating /\ UNCHANGED <<log, sched>>
    BY DEF Find, world, Coordinating
  <2> QED BY <2>1, ProcFacts
<1>2. CASE ReadsRow /\ Becomes(t, Coordinator("owned", f, f[2]))
  <2> DEFINE p == Coordinator("owned", f, f[2])
  <2>1. p.pc \in Early
    BY DEF Coordinator, Nobody, Early
  <2>2. Becomes(t, p)
    BY <1>2
  <2> HIDE DEF p
  <2> QED BY <1>1, <1>2, <2>1, <2>2, OwnerReads DEF ReadsRow
<1>3. CASE \E d \in {Ensured(DB)} :
             /\ Commit(d)
             /\ Becomes(t, IF Lost(t, d) THEN Nobody ELSE Looks(f, d.row.fp[1], d.row))
  <2> DEFINE d == Ensured(DB)
             p == IF Lost(t, d) THEN Nobody ELSE Looks(f, d.row.fp[1], d.row)
  <2>1. Commit(Ensured(DB)) /\ Becomes(t, p) /\ row' = d.row
    BY <1>3 DEF Commit
  <2>2. /\ row' = row \/ (row # None /\ SaysTheSame(row, row'))
        /\ (row' = None) = (row = None) /\ Succeeds(DB, DB', {})
    BY <2>1, EnsuredSays
  <2>3. CASE p.pc \in Early
    <3> HIDE DEF p
    <3> QED BY <1>1, <2>1, <2>2, <2>3, EarlyKnows, OwnerFulfils
  <2>4. CASE p.pc \notin Early
    <3>1. ~Lost(t, d)
      BY <2>4, NobodyIs DEF Early
    <3> DEFINE g == d.row.fp
               a == g[1]
    <3>2. p.pc = "finish" /\ p.lp = a /\ p.fp = f /\ Status(a) = "covered"
      BY <2>4, <3>1, LooksAt
    <3>3. row' # None /\ row'.token = t /\ Alike(g, f)
      BY <2>1, <3>1 DEF Lost
    <3>4. g = row.fp /\ row # None /\ row'.fp = g
      BY <2>1, <2>2, <3>3 DEF SaysTheSame
    <3>5. Written(log, g) /\ g \in Generations
      BY <3>4, RowFacts DEF ContentInv, Honest, Row
    <3> HIDE DEF p, g, d
    <3>6. f[2] = g[2] /\ f[4] = g[4]
      BY <3>3 DEF Alike
    <3>7. a = f[2] => Done(log, f)
      BY <3>2, <3>5, <3>6, CoveredIsCompiled DEF AutoInv, Done, Written
    <3>8. a # f[2] => ~OfItsLog(row'.fp)
      BY <3>4, <3>6 DEF OfItsLog
    <3>9. Knows(log, p) /\ p.pc \in Coordinating \cup {"none"}
      BY <3>2, <3>7 DEF Knows, Coordinating
    <3> QED BY <1>1, <2>1, <2>2, <3>2, <3>3, <3>8, <3>9, OwnerFulfils
  <2> QED BY <2>3, <2>4
<1> QED BY <1>2, <1>3 DEF Find

LEMMA YieldsSays ==
  ASSUME AutoInv, row # None, NEW s \in Waits, Yields(s)
  PROVE  SaysTheSame(row, row') /\ UNCHANGED runs
<1>1. row \in Row /\ row' = [row EXCEPT !.live = FALSE, !.status = s]
  BY RowFacts DEF Yields
<1>2. row' \in Row /\ row'.token = row.token /\ row'.fp = row.fp /\ row'.pend = row.pend
  BY <1>1 DEF Row
<1>3. row' # None
  BY <1>2, AutoAssumption
<1> QED BY <1>2, <1>3 DEF SaysTheSame, Yields

\* An owner gives its lease up, or only reads, before its child has ended.
LEMMA OwnerYields ==
  ASSUME AutoInv, ContentInv, UNCHANGED <<log, sched>>, NEW t \in Tokens,
         proc[t].pc \in Coordinating \cup {"owner"},
         ReadsRow \/ (row # None /\ \E s \in Waits : Yields(s)),
         NEW p, Becomes(t, p), p.pc \in Early
  PROVE  Fulfils
<1>1. CASE ReadsRow
  BY <1>1, OwnerReads DEF ReadsRow
<1>2. CASE row # None /\ \E s \in Waits : Yields(s)
  <2>1. SaysTheSame(row, row') /\ UNCHANGED runs
    BY <1>2, YieldsSays
  <2> QED BY <1>2, <2>1, EarlyKnows, ReadsSucceeds, OwnerFulfils
<1> QED BY <1>1, <1>2

LEMMA PromoteFulfils ==
  ASSUME AutoInv, AutoInv', ContentInv, NEW t \in Tokens, Promote(t)
  PROVE  Fulfils
<1> DEFINE p == proc[t]
           again == Coordinator("find", p.fp, None)
           onward == Coordinator("owned", p.pend, p.pend[1])
           mine == Holds(t) /\ row.pend = p.pend
<1>1. /\ p.pc \in Coordinating /\ p.pend # None /\ UNCHANGED <<log, sched>>
  BY ProcFacts, GenerationLog DEF Promote, Coordinating, world
<1>2. again.pc \in Early /\ onward.pc \in Early
  BY DEF Coordinator, Nobody, Early
<1>3. \/ ReadsRow /\ Becomes(t, again)
      \/ /\ mine /\ Becomes(t, again)
         /\ \E s \in {"queue_wait", "read_wait"} : Yields(s)
      \/ mine /\ Commit(Promoted(DB)) /\ Becomes(t, onward)
  BY DEF Promote
<1> HIDE DEF again, onward
<1>4. ASSUME mine PROVE row # None /\ row.token = t /\ row.pend # None
  BY <1>1, <1>4 DEF Holds, OwnedBy
<1>5. CASE ReadsRow /\ Becomes(t, again)
  BY <1>1, <1>2, <1>5, OwnerYields
<1>6. CASE mine /\ Becomes(t, again) /\ \E s \in {"queue_wait", "read_wait"} : Yields(s)
  <2>1. row # None /\ \E s \in Waits : Yields(s)
    BY <1>4, <1>6 DEF Waits
  <2> QED BY <1>1, <1>2, <1>6, <2>1, OwnerYields
<1>7. CASE mine /\ Commit(Promoted(DB)) /\ Becomes(t, onward)
  <2> DEFINE d == Promoted(DB)
             N == {}
  <2>1. row # None /\ row.token = t /\ row.pend # None
    BY <1>4, <1>7
  <2> HIDE DEF N
  <2>2. /\ d.row # None /\ d.row.fp = row.pend /\ d.row.pend = None
        /\ d.row.token = row.token /\ Succeeds(DB, d, N)
    BY <2>1, PromotedGood, DBFields DEF AutoInv
  <2>3. Commit(d)
    BY <1>7
  <2> HIDE DEF d
  <2>4. row' = d.row /\ Succeeds(DB, DB', N)
    BY <2>2, <2>3, CommitSucceeds DEF Commit
  <2>5. Honest(log, row) /\ Written(log, row.pend) /\ OfItsLog(row.pend)
    BY <2>1 DEF ContentInv, Honest
  <2>6. Leads(t, onward)
    <3>1. onward.pc # "finish"
      BY <1>2, EarlyKnows
    <3>2. Honest(log, row')
      BY <2>2, <2>4, <2>5 DEF Honest
    <3> QED BY <2>1, <2>2, <2>4, <2>5, <3>1, <3>2 DEF Leads
  <2>7. ContentInv'
    BY <1>1, <1>2, <1>7, <2>6, EarlyKnows, OwnerContent
  <2>8. Delivers
    BY <2>2, <2>4, NothingEnds DEF N
  <2> QED BY <2>7, <2>8 DEF Fulfils
<1> QED BY <1>3, <1>5, <1>6, <1>7

LEMMA LaunchRefusedFulfils ==
  ASSUME AutoInv, AutoInv', ContentInv, NEW t \in Tokens, LaunchRefused(t)
  PROVE  Fulfils
<1> DEFINE p == proc[t]
           a == Failing(p.fp, p.lp, TRUE, None)
           b == Failing(p.fp, p.lp, FALSE, p.pre)
           c == Coordinator("find", p.fp, None)
<1>1. p.pc \in Coordinating /\ UNCHANGED <<log, sched>>
  BY DEF LaunchRefused, Coordinating, world
<1>2. a.pc \in Early /\ b.pc \in Early /\ c.pc \in Early /\ Nobody.pc \in Early
  BY DEF Failing, Coordinator, Nobody, Early
<1>3. \/ Becomes(t, Nobody) /\ ReadsRow
      \/ Holds(t) /\ Yields("queue_wait") /\ Becomes(t, Nobody)
      \/ ReadsRow /\ (Becomes(t, a) \/ Becomes(t, b) \/ Becomes(t, c))
  BY DEF LaunchRefused, Exits
<1> HIDE DEF a, b, c
<1>4. CASE Holds(t) /\ Yields("queue_wait") /\ Becomes(t, Nobody)
  <2>1. row # None /\ \E s \in Waits : Yields(s)
    BY <1>4 DEF Holds, OwnedBy, Waits
  <2> QED BY <1>1, <1>2, <1>4, <2>1, OwnerYields
<1> QED BY <1>1, <1>2, <1>3, <1>4, OwnerYields

LEMMA LaunchAbortsFulfils ==
  ASSUME AutoInv, AutoInv', ContentInv, NEW t \in Tokens, LaunchAborts(t)
  PROVE  Fulfils
<1> DEFINE a == Failing(proc[t].fp, proc[t].lp, TRUE, None)
<1>1. proc[t].pc \in Coordinating /\ UNCHANGED <<log, sched>> /\ ReadsRow
  BY DEF LaunchAborts, MayLaunch, Coordinating, world
<1>2. a.pc \in Early /\ Nobody.pc \in Early
  BY DEF Failing, Coordinator, Nobody, Early
<1>3. Becomes(t, a) \/ Becomes(t, Nobody)
  BY DEF LaunchAborts
<1> HIDE DEF a
<1> QED BY <1>1, <1>2, <1>3, OwnerYields

\* A log that shows a generation has nothing compiled since it was read.
LEMMA ShownStands ==
  ASSUME WorldInv, Marked(log), NEW f \in Generations, NEW l \in Logs, Shows(l, f)
  PROVE  l = f[2] /\ Stands(log, f, Marks(l))
<1>1. log[l].ok /\ l = f[2] /\ log[l].c = f[3] /\ log[l].n = f[4]
  BY DEF Shows, Status, Alike, Stamp, Filed
<1>2. log[l].m \in Nat /\ log[l].n \in Nat
  BY LogType
<1>3. Written(log, f)
  BY <1>1, <1>2 DEF Written
<1>4. CASE log[l].m = 0
  <2>1. log[l].c = 0
    BY <1>4 DEF Marked
  <2> QED BY <1>1, <1>3, <2>1 DEF Stands, Done
<1>5. CASE log[l].m # 0
  <2>1. Marks(l) = <<<<l, log[l].e>>, log[l].m>>
    BY <1>1, <1>2, <1>5 DEF Marks
  <2> QED BY <1>1, <1>3, <2>1 DEF Stands
<1> QED BY <1>4, <1>5

LEMMA LaunchFulfils ==
  ASSUME AutoInv, AutoInv', ContentInv, NEW t \in Tokens, Launch(t)
  PROVE  Fulfils
<1> DEFINE p == proc[t]
           d == Moved(DB, row.run, "running")
           N == {}
           pre == Marks(p.lp)
           q == [Coordinator("wait", p.fp, p.lp) EXCEPT !.pre = pre, !.rid = p.rid]
<1>1. /\ p.pc \in Coordinating /\ p.fp \in Generations /\ p.lp \in Logs
      /\ row # None /\ UNCHANGED <<log, sched>>
  BY ProcFacts DEF Launch, MayLaunch, Holds, OwnedBy, Coordinating, world
<1>2. Commit(d) /\ Becomes(t, q)
  BY DEF Launch
<1>3. row.run \in RunIds \cup {None} /\ IsDb(DB)
  <2>1. row.run \in RunIds \cup {None}
    BY <1>1, RowFacts DEF Row
  <2> QED BY <2>1 DEF AutoInv, Good
<1>4. d.row = row
  BY <1>3, RunMoves
<1> HIDE DEF N
<1>5. Succeeds(DB, d, N)
  BY <1>3, MovedSucceeds
<1>6. Marked(log) /\ Shows(p.lp, p.fp)
  BY DEF Launch, Fits, ContentInv
<1>7. p.lp = p.fp[2] /\ Stands(log, p.fp, pre)
  BY <1>1, <1>6, ShownStands DEF AutoInv
<1>8. pre # None
  BY <1>1, LogFacts, AutoAssumption DEF AutoInv
<1> HIDE DEF d, pre
<1>9. q.pc = "wait" /\ q.fp = p.fp /\ q.lp = p.lp /\ q.pre = pre
  BY DEF Coordinator, Nobody
<1> HIDE DEF q
<1>10. Knows(log, q) /\ q.pc \in Coordinating /\ q.pc # "finish"
  BY <1>7, <1>8, <1>9 DEF Knows, Coordinating
<1>11. row' = row /\ Succeeds(DB, DB', N)
  BY <1>2, <1>4, <1>5, CommitSucceeds DEF Commit
<1> QED BY <1>1, <1>2, <1>10, <1>11, OwnerFulfils DEF N

\* A log that stands where it did is compiled, or nothing new was compiled.
LEMMA ProgressIsDone ==
  ASSUME WorldInv, NEW f \in Generations, NEW h, Stands(log, f, h), Progressed(f[2], h)
  PROVE  Done(log, f)
<1> DEFINE l == f[2]
<1>1. l \in Logs
  BY DEF Generations
<1>2. log[l].m \in Nat
  BY <1>1, LogType
<1>3. Marks(l)[2] > h[2]
  BY DEF Progressed, Advances
<1>4. CASE ~Done(log, f)
  <2>1. h[2] = log[l].m
    BY <1>4 DEF Stands
  <2>2. Marks(l)[2] \in {0, log[l].m}
    BY DEF Marks
  <2>3. FALSE
    BY <1>2, <1>3, <2>1, <2>2
  <2> QED BY <2>3
<1> QED BY <1>4

LEMMA ReapFulfils ==
  ASSUME AutoInv, AutoInv', ContentInv, NEW t \in Tokens, Reap(t)
  PROVE  Fulfils
<1> DEFINE p == proc[t]
           l == p.lp
           reset == Marks(l) = p.pre
           pre == IF Status(l) = "covered" THEN p.pre ELSE None
           a == Coordinator("defer", p.fp, l)
           b == Failing(p.fp, l, TRUE, None)
           c == Failing(p.fp, l, reset, pre)
           e == Coordinator("finish", p.fp, l)
<1>1. /\ p.pc = "wait" /\ p.pc \in Coordinating /\ p.fp \in Generations
      /\ UNCHANGED <<log, sched>> /\ ReadsRow
  BY ProcFacts DEF Reap, Coordinating, world
<1>2. \/ Becomes(t, a) \/ Becomes(t, b) \/ Becomes(t, c)
      \/ Becomes(t, e) /\ Progressed(l, p.pre)
  BY DEF Reap
<1>3. l = p.fp[2] /\ Stands(log, p.fp, p.pre)
  BY <1>1 DEF ContentInv, Knows
<1>4. /\ a.pc = "defer" /\ a.fp = p.fp /\ a.lp = l
      /\ e.pc = "finish" /\ e.fp = p.fp /\ e.lp = l
      /\ b.pc = "fail" /\ c.pc = "fail"
  BY DEF Failing, Coordinator, Nobody
<1> HIDE DEF reset, pre, a, b, c, e
<1>5. CASE Becomes(t, b) \/ Becomes(t, c)
  BY <1>1, <1>4, <1>5, OwnerYields DEF Early
<1>6. CASE Becomes(t, a)
  <2>1. Knows(log, a) /\ a.pc \in Coordinating
    BY <1>3, <1>4 DEF Knows, Coordinating
  <2> QED BY <1>1, <1>4, <1>6, <2>1, ReadsSucceeds, OwnerFulfils DEF ReadsRow
<1>7. CASE Becomes(t, e) /\ Progressed(l, p.pre)
  <2>1. Done(log, p.fp)
    BY <1>1, <1>3, <1>7, ProgressIsDone DEF AutoInv
  <2>2. Knows(log, e) /\ e.pc \in Coordinating /\ e.lp = e.fp[2]
    BY <1>3, <1>4, <2>1 DEF Knows, Coordinating
  <2> QED BY <1>1, <1>7, <2>2, ReadsSucceeds, OwnerFulfils DEF ReadsRow
<1> QED BY <1>2, <1>5, <1>6, <1>7

\* What a coordinator puts in the row was read from a log.
LEMMA ReadingsWritten ==
  ASSUME WorldInv, NEW l \in Logs, NEW r, Honest(log, r), NEW pre
  PROVE  /\ Written(log, SeenAtFailure(l, r, pre).fp)
         /\ Written(log, Handed(l, r).fp) /\ Written(log, SeenAtDefer(l, r).fp)
<1>1. Written(log, r.fp) /\ (Switches(l, r) => Written(log, r.pend))
  BY DEF Honest, Switches, OtherPending
<1>2. Written(log, Filed(r.fp[1], l))
  BY FiledIs
<1>3. \A f, q : Generation(f, q).fp = f
  BY DEF Generation
<1>4. /\ SeenAtFailure(l, r, pre).fp \in {r.fp, Filed(r.fp[1], l)}
           \cup (IF Switches(l, r) THEN {r.pend} ELSE {})
  <2>1. CASE pre # None
    BY <1>3, <2>1 DEF SeenAtFailure
  <2>2. CASE pre = None /\ Switches(l, r) /\ Extends(Marks(l), r.pre)
    BY <1>3, <2>2 DEF SeenAtFailure
  <2>3. CASE pre = None /\ ~(Switches(l, r) /\ Extends(Marks(l), r.pre))
    <3> DEFINE fp == IF Status(l) = "uncompiled" /\ Extends(Marks(l), r.pre)
                     THEN Filed(r.fp[1], l) ELSE r.fp
    <3>1. SeenAtFailure(l, r, pre) = Generation(fp, Required(l, r.pre))
      BY <2>3 DEF SeenAtFailure
    <3>2. fp \in {r.fp, Filed(r.fp[1], l)}
      OBVIOUS
    <3> HIDE DEF fp
    <3> QED BY <1>3, <3>1, <3>2
  <2> QED BY <2>1, <2>2, <2>3
<1>5. Handed(l, r).fp \in {Filed(r.fp[1], l)} \cup (IF Switches(l, r) THEN {r.pend} ELSE {})
  BY <1>3 DEF Handed
<1>6. SeenAtDefer(l, r).fp \in {Filed(r.fp[1], l)} \cup (IF Switches(l, r) THEN {r.pend} ELSE {})
  BY <1>3 DEF SeenAtDefer
<1> QED BY <1>1, <1>2, <1>4, <1>5, <1>6

LEMMA FailFulfils ==
  ASSUME AutoInv, AutoInv', ContentInv, NEW t \in Tokens, Fail(t)
  PROVE  Fulfils
<1> DEFINE p == proc[t]
           seen == SeenAtFailure(p.lp, row, p.pre)
           d == Failed(DB, p.lp, seen, p.reset)
<1>1. /\ p.pc \in Coordinating /\ p.lp \in Logs /\ p.pre \in Histories \cup {None}
      /\ p.reset \in BOOLEAN /\ Becomes(t, Nobody) /\ UNCHANGED <<log, sched>>
  BY ProcFacts DEF Fail, Coordinating, Exits, world
<1>2. Nobody.pc = "none"
  BY NobodyIs
<1>3. CASE ReadsRow
  BY <1>1, <1>2, <1>3, OwnerYields DEF Early
<1>4. CASE OwnedBy(t) /\ Commit(d)
  <2> DEFINE N == {}
  <2>1. /\ row # None /\ row.token = t /\ row.status # "failed"
        /\ Good(DB) /\ DB.row = row /\ ~DB.full /\ Sound(row)
    BY <1>1, <1>4, OwnedFacts DEF Coordinating
  <2>2. seen.fp \in Generations /\ seen.pre \in Histories
    BY <1>1, <2>1, ReadingsFit
  <2>3. Honest(log, row)
    BY <2>1 DEF ContentInv
  <2>4. Written(log, seen.fp)
    BY <1>1, <2>3, ReadingsWritten DEF AutoInv
  <2> HIDE DEF seen, N
  <2>5. /\ d.row # None /\ d.row.token = t /\ d.row.fp \in {row.fp, seen.fp}
        /\ d.row.pend \in {row.pend, None} /\ Succeeds(DB, d, N)
    <3> DEFINE reset == p.reset
               l == p.lp
    <3>1. reset \in BOOLEAN
      BY <1>1
    <3> HIDE DEF reset, l
    <3>2. LET e == Failed(DB, l, seen, reset)
          IN  /\ e.row # None /\ e.row.token = DB.row.token
              /\ e.row.fp = (IF Alike(seen.fp, DB.row.fp) THEN DB.row.fp ELSE seen.fp)
              /\ e.row.pend \in {DB.row.pend, None} /\ Succeeds(DB, e, N)
      BY <2>1, <2>2, <3>1, FailedGood
    <3> QED BY <2>1, <3>2 DEF reset, l
  <2>6. Commit(d)
    BY <1>4
  <2> HIDE DEF d
  <2>7. row' = d.row /\ Succeeds(DB, DB', N)
    BY <2>5, <2>6, CommitSucceeds DEF Commit
  <2>8. Honest(log, row')
    BY <2>3, <2>4, <2>5, <2>7 DEF Honest
  <2>9. Leads(t, Nobody)
    BY <1>2, <2>1, <2>5, <2>7, <2>8 DEF Leads
  <2>10. Knows(log, Nobody)
    BY <1>2 DEF Knows
  <2>11. ContentInv'
    BY <1>1, <1>2, <2>9, <2>10, OwnerContent
  <2>12. Delivers
    BY <2>5, <2>7, NothingEnds DEF N
  <2> QED BY <2>11, <2>12 DEF Fulfils
<1> QED BY <1>3, <1>4 DEF Fail

\* A covered log with nothing pending for another: the whole request is compiled.
LEMMA NothingLeft ==
  ASSUME AutoInv, row # None, Honest(log, row), OfItsLog(row.fp),
         Status(row.fp[1]) = "covered", ~OtherPending(row)
  PROVE  \A f \in {row.fp, row.pend} \ {None} : log[f[2]].c >= f[4]
<1> SUFFICES ASSUME NEW f \in {row.fp, row.pend} \ {None}
             PROVE  log[f[2]].c >= f[4]
  OBVIOUS
<1>1. f \in Generations
  BY RowFacts DEF Row
<1>2. Written(log, f) /\ OfItsLog(f)
  BY DEF Honest
<1>3. f[1] = row.fp[1]
  BY DEF OtherPending
<1>4. Status(f[2]) = "covered"
  BY <1>2, <1>3 DEF OfItsLog
<1> QED BY <1>1, <1>2, <1>4, CoveredIsCompiled DEF AutoInv

\* A coordinator that finishes its own log finds it compiled.
LEMMA FinishSees ==
  ASSUME AutoInv, ContentInv, NEW t \in Tokens, proc[t].pc = "finish", OwnedBy(t),
         Progressed(proc[t].lp, row.pre)
  PROVE  /\ log[proc[t].lp].ok
         /\ OfItsLog(row.fp) => /\ proc[t].lp = row.fp[1] /\ proc[t].lp = row.fp[2]
                                /\ log[row.fp[2]].c >= row.fp[4]
<1> DEFINE p == proc[t]
           l == p.lp
<1>1. /\ row # None /\ row.token = t /\ Alike(row.fp, p.fp) /\ l \in Logs
      /\ row.pre \in Histories /\ row.fp \in Generations
  BY ProcFacts, RowFacts DEF OwnedBy, Coordinating, Row
<1>2. log[l].ok /\ log[l].m # 0
  <2>1. Marks(l)[2] > row.pre[2] /\ row.pre[2] \in Nat
    BY <1>1 DEF Progressed, Advances, Histories
  <2>2. CASE ~(log[l].ok /\ log[l].m > 0)
    <3>1. Marks(l)[2] = 0
      BY <2>2 DEF Marks
    <3> QED BY <2>1, <3>1
  <2>3. CASE log[l].ok /\ log[l].m > 0
    BY <2>3
  <2> QED BY <2>2, <2>3
<1>3. log[l].c # 0
  BY <1>1, <1>2 DEF ContentInv, Marked
<1>4. row.fp[2] = p.fp[2] /\ row.fp[4] = p.fp[4]
  BY <1>1 DEF Alike
<1>5. ASSUME OfItsLog(row.fp)
      PROVE  l = row.fp[1] /\ l = row.fp[2] /\ log[row.fp[2]].c >= row.fp[4]
  <2>1. l = p.fp[2]
    BY <1>1, <1>5 DEF ContentInv, Stray
  <2>2. Done(log, p.fp)
    BY <2>1 DEF ContentInv, Knows
  <2>3. log[l].c >= p.fp[4]
    BY <1>3, <2>1, <2>2 DEF Done
  <2> QED BY <1>4, <1>5, <2>1, <2>3 DEF OfItsLog
<1> QED BY <1>2, <1>5

\* Then it ends the request only if nothing is left to compile.
LEMMA FinishEnds ==
  ASSUME AutoInv, ContentInv, row # None, OfItsLog(row.fp), NEW l, l = row.fp[1],
         log[l].ok, log[row.fp[2]].c >= row.fp[4],
         \/ ~Switches(l, row) /\ Status(l) # "uncompiled"
         \/ Alike(Handed(l, row).fp, row.fp)
  PROVE  \A f \in {row.fp, row.pend} \ {None} : log[f[2]].c >= f[4]
<1> DEFINE next == Handed(l, row)
<1>1. Honest(log, row) /\ row.fp \in Generations /\ l \in Logs /\ l = row.fp[2]
  BY RowFacts, GenerationLog DEF ContentInv, Row, OfItsLog
<1>2. Status(l) = "covered" /\ ~Switches(l, row)
  <2>1. CASE ~Switches(l, row) /\ Status(l) # "uncompiled"
    BY <2>1 DEF Status
  <2>2. CASE Alike(next.fp, row.fp)
    <3>1. \A f, q : Generation(f, q).fp = f
      BY DEF Generation
    <3>2. ~Switches(l, row)
      <4>1. SUFFICES ASSUME Switches(l, row) PROVE FALSE
        OBVIOUS
      <4>2. next.fp = row.pend
        BY <3>1, <4>1 DEF Handed
      <4>3. row.pend[2] = row.fp[2]
        BY <2>2, <4>2 DEF Alike
      <4>4. OfItsLog(row.pend) /\ row.pend[1] # row.fp[1]
        BY <1>1, <4>1 DEF Switches, OtherPending, Honest
      <4> QED BY <4>3, <4>4 DEF OfItsLog
    <3>3. next.fp = Filed(row.fp[1], l)
      BY <3>1, <3>2 DEF Handed
    <3>4. log[l].n = row.fp[4]
      BY <2>2, <3>3 DEF Alike, Filed
    <3>5. log[l].c = log[l].n
      <4>1. log[l].c \in Nat /\ log[l].n \in Nat /\ log[l].c <= log[l].n
        BY <1>1, LogType DEF AutoInv
      <4> QED BY <1>1, <3>4, <4>1
    <3> QED BY <3>2, <3>5 DEF Status
  <2> QED BY <2>1, <2>2
<1>3. ~OtherPending(row)
  BY <1>2 DEF Switches
<1> QED BY <1>1, <1>2, <1>3, NothingLeft

\* What a coordinator that hands over puts in the row.
LEMMA HandsOn ==
  ASSUME Honest(log, row), row # None, NEW l,
         OfItsLog(row.fp) => l = row.fp[1]
  PROVE  OfItsLog(row.fp) =>
           OfItsLog(Handed(l, row).fp) /\ OfItsLog(SeenAtDefer(l, row).fp)
<1> SUFFICES ASSUME OfItsLog(row.fp)
             PROVE  OfItsLog(Handed(l, row).fp) /\ OfItsLog(SeenAtDefer(l, row).fp)
  OBVIOUS
<1>1. \A f, q : Generation(f, q).fp = f
  BY DEF Generation
<1>2. OfItsLog(Filed(row.fp[1], l))
  BY DEF OfItsLog, Filed
<1>3. Switches(l, row) => OfItsLog(row.pend)
  BY DEF Switches, OtherPending, Honest
<1>4. /\ Handed(l, row).fp \in {Filed(row.fp[1], l)}
           \cup (IF Switches(l, row) THEN {row.pend} ELSE {})
      /\ SeenAtDefer(l, row).fp \in {Filed(row.fp[1], l)}
           \cup (IF Switches(l, row) THEN {row.pend} ELSE {})
  BY <1>1 DEF Handed, SeenAtDefer
<1> QED BY <1>2, <1>3, <1>4

\* A coordinator commits what it hands over, or the end, and goes on as q.
LEMMA OwnerLeads ==
  ASSUME AutoInv, ContentInv, UNCHANGED <<log, sched>>, NEW t \in Tokens,
         proc[t].pc \in Coordinating, row # None, row.token = t,
         NEW q, Becomes(t, q), q.pc \in Early,
         row' # None => /\ row'.token = t /\ row'.pend \in {row.pend, None}
                        /\ Written(log, row'.fp)
                        /\ OfItsLog(row.fp) => OfItsLog(row'.fp)
  PROVE  ContentInv'
<1>1. Honest(log, row)
  BY DEF ContentInv
<1>2. row' # None => Honest(log, row')
  BY <1>1 DEF Honest
<1>3. Knows(log, q) /\ q.pc \in Coordinating \cup {"none"} /\ q.pc # "finish"
  BY EarlyKnows
<1>4. Leads(t, q)
  BY <1>2, <1>3 DEF Leads
<1> QED BY <1>3, <1>4, OwnerContent

LEMMA FinishFulfils ==
  ASSUME AutoInv, AutoInv', ContentInv, NEW t \in Tokens, Finish(t)
  PROVE  Fulfils
<1> DEFINE p == proc[t]
           l == p.lp
           next == Handed(l, row)
           d == Finished(DB, l, next)
           onward(f) == IF p.reset THEN Coordinator("owned", f, l)
                        ELSE Coordinator("find", f, None)
           q == IF d.row = None THEN Nobody ELSE onward(d.row.fp)
<1>1. /\ p.pc = "finish" /\ p.pc \in Coordinating /\ l \in Logs /\ UNCHANGED <<log, sched>>
  BY ProcFacts DEF Finish, Coordinating, world
<1>2. Nobody.pc \in Early /\ \A f : onward(f).pc \in Early
  BY DEF Coordinator, Nobody, Early
<1>3. \/ ReadsRow /\ Becomes(t, Nobody)
      \/ OwnedBy(t) /\ Yields("queue_wait") /\ Becomes(t, Nobody)
      \/ OwnedBy(t) /\ Yields("read_wait") /\ Becomes(t, onward(p.fp))
      \/ OwnedBy(t) /\ Progressed(l, row.pre) /\ Commit(d) /\ Becomes(t, q)
  BY DEF Finish, Exits
<1> HIDE DEF onward
<1>4. CASE ReadsRow /\ Becomes(t, Nobody)
  BY <1>1, <1>2, <1>4, OwnerYields
<1>5. CASE OwnedBy(t) /\ Yields("queue_wait") /\ Becomes(t, Nobody)
  <2>1. row # None /\ \E s \in Waits : Yields(s)
    BY <1>5 DEF OwnedBy, Waits
  <2> QED BY <1>1, <1>2, <1>5, <2>1, OwnerYields
<1>6. CASE OwnedBy(t) /\ Yields("read_wait") /\ Becomes(t, onward(p.fp))
  <2>1. row # None /\ \E s \in Waits : Yields(s)
    BY <1>6 DEF OwnedBy, Waits
  <2> QED BY <1>1, <1>2, <1>6, <2>1, OwnerYields
<1>7. CASE OwnedBy(t) /\ Progressed(l, row.pre) /\ Commit(d) /\ Becomes(t, q)
  <2> DEFINE W == {row.run}
  <2>1. /\ row # None /\ row.token = t /\ Good(DB) /\ DB.row = row /\ ~DB.full /\ Sound(row)
        /\ Honest(log, row)
    BY <1>1, <1>7, OwnedFacts DEF ContentInv
  <2>2. log[l].ok /\ (OfItsLog(row.fp) => /\ l = row.fp[1] /\ l = row.fp[2]
                                          /\ log[row.fp[2]].c >= row.fp[4])
    BY <1>1, <1>7, FinishSees
  <2>3. next.fp \in Generations /\ next.pre \in Histories /\ Written(log, next.fp)
        /\ (OfItsLog(row.fp) => OfItsLog(next.fp))
    <3>1. next.fp \in Generations /\ next.pre \in Histories
      <4> DEFINE pre == None
      <4>1. pre \in Histories \cup {None}
        OBVIOUS
      <4> HIDE DEF pre
      <4> QED BY <1>1, <2>1, <4>1, ReadingsFit
    <3>2. Written(log, next.fp)
      BY <1>1, <2>1, ReadingsWritten DEF AutoInv
    <3>3. OfItsLog(row.fp) => OfItsLog(next.fp)
      <4> HIDE DEF l
      <4> QED BY <2>1, <2>2, HandsOn
    <3> QED BY <3>1, <3>2, <3>3
  <2>4. row.run \in W
    OBVIOUS
  <2> HIDE DEF W
  <2>5. /\ d.row = None => \/ ~Switches(l, row) /\ Status(l) # "uncompiled"
                           \/ Alike(next.fp, row.fp)
        /\ d.row # None => /\ d.row.token = t /\ d.row.fp = next.fp
                           /\ d.row.pend \in {row.pend, None}
        /\ Succeeds(DB, d, W)
    <3> HIDE DEF next, l
    <3> QED BY <2>1, <2>3, <2>4, FinishedGood
  <2>6. Commit(d) /\ Becomes(t, q)
    BY <1>7
  <2>7. q.pc \in Early
    <3> HIDE DEF d
    <3> QED BY <1>2
  <2>8. row' = d.row /\ Succeeds(DB, DB', W)
    <3> HIDE DEF d
    <3> QED BY <2>5, <2>6, CommitSucceeds DEF Commit
  <2> HIDE DEF d, q
  <2>9. ContentInv'
    BY <1>1, <2>1, <2>3, <2>5, <2>6, <2>7, <2>8, OwnerLeads
  <2>10. ASSUME row' = None, OfItsLog(row.fp)
         PROVE  \A f \in {row.fp, row.pend} \ {None} : log[f[2]].c >= f[4]
    <3> HIDE DEF l
    <3>1. l = row.fp[1] /\ log[l].ok /\ log[row.fp[2]].c >= row.fp[4]
      BY <2>2, <2>10
    <3>2. \/ ~Switches(l, row) /\ Status(l) # "uncompiled"
          \/ Alike(Handed(l, row).fp, row.fp)
      BY <2>5, <2>8, <2>10
    <3> QED BY <2>1, <2>10, <3>1, <3>2, FinishEnds
  <2>11. Delivers
    BY <2>1, <2>2, <2>8, <2>10 DEF Delivers, W
  <2> QED BY <2>9, <2>11 DEF Fulfils
<1> QED BY <1>3, <1>4, <1>5, <1>6, <1>7

\* The lease is renewed.
LEMMA RenewedSays ==
  ASSUME AutoInv, row # None,
         \E s \in {row.status, "read_wait"} : row' = [row EXCEPT !.live = TRUE, !.status = s]
  PROVE  SaysTheSame(row, row')
<1>1. row \in Row
  BY RowFacts
<1>2. row' \in Row /\ row'.token = row.token /\ row'.fp = row.fp /\ row'.pend = row.pend
  BY <1>1 DEF Row, Waits
<1>3. row' # None
  BY <1>2, AutoAssumption
<1> QED BY <1>2, <1>3 DEF SaysTheSame

LEMMA DeferFulfils ==
  ASSUME AutoInv, AutoInv', ContentInv, NEW t \in Tokens, Defer(t)
  PROVE  Fulfils
<1> DEFINE p == proc[t]
           l == p.lp
           next == SeenAtDefer(l, row)
           d == Deferred(DB, l, next)
           again == Coordinator("find", p.fp, None)
           q == IF d.row = None THEN Nobody ELSE Coordinator("find", d.row.fp, None)
<1>1. /\ p.pc = "defer" /\ p.pc \in Coordinating /\ l \in Logs /\ UNCHANGED <<log, sched>>
  BY ProcFacts DEF Defer, Coordinating, world
<1>2. Nobody.pc \in Early /\ again.pc \in Early
      /\ \A f : Coordinator("find", f, None).pc \in Early
  BY DEF Coordinator, Nobody, Early
<1>3. \/ ReadsRow /\ Becomes(t, Nobody)
      \/ OwnedBy(t) /\ row' = [row EXCEPT !.live = TRUE] /\ UNCHANGED <<runs, keys, proc>>
      \/ /\ OwnedBy(t) /\ row' = [row EXCEPT !.live = TRUE, !.status = "read_wait"]
         /\ UNCHANGED <<runs, keys>> /\ Becomes(t, again)
      \/ OwnedBy(t) /\ Commit(d) /\ Becomes(t, q)
  BY DEF Defer, Exits
<1> HIDE DEF again
<1>4. CASE ReadsRow /\ Becomes(t, Nobody)
  BY <1>1, <1>2, <1>4, OwnerYields
<1>5. CASE OwnedBy(t) /\ row' = [row EXCEPT !.live = TRUE] /\ UNCHANGED <<runs, keys, proc>>
  <2>1. row # None /\ row \in Row
    BY <1>5, RowFacts DEF OwnedBy
  <2>2. \E s \in {row.status, "read_wait"} : row' = [row EXCEPT !.live = TRUE, !.status = s]
    <3> WITNESS row.status \in {row.status, "read_wait"}
    <3> QED BY <1>5, <2>1 DEF Row
  <2>3. SaysTheSame(row, row')
    BY <2>1, <2>2, RenewedSays
  <2> QED BY <1>1, <1>5, <2>1, <2>3, OthersFulfil DEF Arrives
<1>6. CASE /\ OwnedBy(t) /\ row' = [row EXCEPT !.live = TRUE, !.status = "read_wait"]
           /\ UNCHANGED <<runs, keys>> /\ Becomes(t, again)
  <2>1. row # None /\ SaysTheSame(row, row')
    BY <1>6, RenewedSays DEF OwnedBy
  <2> QED BY <1>1, <1>2, <1>6, <2>1, EarlyKnows, ReadsSucceeds, OwnerFulfils
<1>7. CASE OwnedBy(t) /\ Commit(d) /\ Becomes(t, q)
  <2> DEFINE W == IF Status(l) = "covered" THEN {row.run} ELSE {}
  <2>1. /\ row # None /\ row.token = t /\ Good(DB) /\ DB.row = row /\ ~DB.full /\ Sound(row)
        /\ Honest(log, row) /\ row.fp \in Generations
    BY <1>1, <1>7, OwnedFacts DEF ContentInv, Sound, Row
  <2>2. l = row.fp[2]
    BY <1>1, <1>7 DEF ContentInv, Knows, OwnedBy, Alike
  <2>3. next.fp \in Generations /\ next.pre \in Histories /\ Written(log, next.fp)
        /\ (OfItsLog(row.fp) => OfItsLog(next.fp))
    <3>1. next.fp \in Generations /\ next.pre \in Histories
      <4> DEFINE pre == None
      <4>1. pre \in Histories \cup {None}
        OBVIOUS
      <4> HIDE DEF pre
      <4> QED BY <1>1, <2>1, <4>1, ReadingsFit
    <3>2. Written(log, next.fp)
      BY <1>1, <2>1, ReadingsWritten DEF AutoInv
    <3>3. OfItsLog(row.fp) => OfItsLog(next.fp)
      <4> HIDE DEF l
      <4> QED BY <2>1, <2>2, HandsOn DEF OfItsLog
    <3> QED BY <3>1, <3>2, <3>3
  <2>4. Status(l) # "covered" \/ row.run \in W
    OBVIOUS
  <2> HIDE DEF W
  <2>5. /\ d.row = None => Status(l) = "covered" /\ ~OtherPending(row)
        /\ d.row # None => /\ d.row.token = t /\ d.row.fp = next.fp
                           /\ d.row.pend \in {row.pend, None}
        /\ Succeeds(DB, d, W)
    <3> HIDE DEF next, l
    <3> QED BY <2>1, <2>3, <2>4, DeferredGood
  <2>6. Commit(d) /\ Becomes(t, q)
    BY <1>7
  <2>7. q.pc \in Early
    <3> HIDE DEF d
    <3> QED BY <1>2
  <2>8. row' = d.row /\ Succeeds(DB, DB', W)
    <3> HIDE DEF d
    <3> QED BY <2>5, <2>6, CommitSucceeds DEF Commit
  <2> HIDE DEF d, q
  <2>9. ContentInv'
    BY <1>1, <2>1, <2>3, <2>5, <2>6, <2>7, <2>8, OwnerLeads
  <2>10. ASSUME row' = None, OfItsLog(row.fp)
         PROVE  \A f \in {row.fp, row.pend} \ {None} : log[f[2]].c >= f[4]
    <3>1. Status(row.fp[1]) = "covered" /\ ~OtherPending(row)
      BY <2>2, <2>5, <2>8, <2>10 DEF OfItsLog
    <3> QED BY <2>1, <2>10, <3>1, NothingLeft
  <2>11. Status(l) = "covered" => log[row.fp[2]].c >= row.fp[4]
    BY <2>1, <2>2, CoveredIsCompiled DEF AutoInv, Honest
  <2>12. \/ Succeeds(DB, DB', {})
         \/ row # None /\ Succeeds(DB, DB', {row.run}) /\ Status(l) = "covered"
    BY <2>1, <2>8 DEF W
  <2>13. Delivers
    <3> HIDE DEF l
    <3> QED BY <2>10, <2>11, <2>12 DEF Delivers
  <2> QED BY <2>9, <2>13 DEF Fulfils
<1> QED BY <1>3, <1>4, <1>5, <1>6, <1>7

-----------------------------------------------------------------------------
(* ... and the theorems.                                                     *)

LEMMA NextFulfils ==
  ASSUME AutoInv, AutoInv', ContentInv, Next
  PROVE  Fulfils
<1>1. CASE Worker
  BY <1>1, QueueFulfils, ScheduleFulfils, ScheduleAbortsFulfils DEF Worker
<1>2. CASE User \/ Rest
  BY <1>2, UserFulfils
<1>3. CASE Expiry
  BY <1>3, ExpiryFulfils
<1>4. ASSUME NEW t \in Tokens, Process(t) PROVE Fulfils
  BY <1>4, OwnerStartsFulfils, ContenderStartsFulfils, BootstrapFulfils, PollKeepsFulfils,
     PollWaitsFulfils, PollClaimsFulfils, FindFulfils, PromoteFulfils, OwnedFulfils,
     LaunchFulfils, LaunchRefusedFulfils, ReapFulfils, OwnerExits, FailFulfils, FinishFulfils,
     DeferFulfils
  DEF Process
<1>5. ASSUME NEW t \in Tokens, Child(t) \/ Mishap(t) PROVE Fulfils
  BY <1>5, ChildFulfils, ClaimAbortsFulfils, OwnerExits, OtherDies, LaunchAbortsFulfils DEF Mishap
<1> QED BY <1>1, <1>2, <1>3, <1>4, <1>5 DEF Next

LEMMA InitContent == Init => ContentInv
<1> SUFFICES ASSUME Init PROVE ContentInv
  OBVIOUS
<1>1. Marked(log) /\ row = None /\ Read(log, sched)
  BY DEF Init, Marked, Read
<1>2. \A t \in Tokens : proc[t].pc = "none"
  BY NobodyIs DEF Init
<1>3. \A t \in Tokens : Knows(log, proc[t]) /\ Stray(row, t, proc[t]) /\ Awaits(t)
  BY <1>2 DEF Knows, Stray, Awaits
<1> QED BY <1>1, <1>3 DEF ContentInv

LEMMA StepFulfils == AutoInv /\ AutoInv' /\ ContentInv /\ [Next]_vars => Fulfils
<1> SUFFICES ASSUME AutoInv, AutoInv', ContentInv, [Next]_vars PROVE Fulfils
  OBVIOUS
<1>1. CASE UNCHANGED vars
  BY <1>1, SameGrows, WorldFulfils DEF vars, AutoInv
<1> QED BY <1>1, NextFulfils

LEMMA ContentAlways == Spec => []ContentInv
<1>1. AutoInv /\ AutoInv' /\ ContentInv /\ [Next]_vars => ContentInv'
  BY StepFulfils DEF Fulfils
<1> QED BY <1>1, InitContent, AutoAlways, PTL DEF Spec

\* A request is deleted - by a poll that finds its logs covered, or by the end of its
\* last generation - only when every entry it was registered for has been compiled,
\* whatever takeovers, failures, edits and manual compilations came in between.
THEOREM RequestCorrect == Spec => RequestHonoured
<1>1. AutoInv /\ AutoInv' /\ ContentInv /\ [Next]_vars =>
        [row # None /\ row' = None /\ OfItsLog(row.fp) =>
           \A f \in {row.fp, row.pend} \ {None} : log[f[2]].c >= f[4]]_vars
  BY StepFulfils DEF Fulfils, Delivers
<1> QED BY <1>1, AutoAlways, ContentAlways, PTL DEF Spec, RequestHonoured

\* Nobody reports a status run as succeeded before the entries that its generation
\* counts are compiled, although a run may be found again, aliased or replaced.
THEOREM SuccessCorrect == Spec => SucceededIsCompiled
<1>1. AutoInv /\ AutoInv' /\ ContentInv /\ [Next]_vars =>
        [\A i \in RunIds :
           /\ runs[i] # None /\ runs[i].state \notin Terminal
           /\ runs'[i].state = "succeeded" /\ OfItsLog(row.fp)
           => log[runs[i].fp[2]].c >= runs[i].fp[4]]_vars
  <2> SUFFICES ASSUME AutoInv, Fulfils, NEW i \in RunIds,
                      runs[i] # None, runs[i].state \notin Terminal,
                      runs'[i].state = "succeeded", OfItsLog(row.fp)
               PROVE  log[runs[i].fp[2]].c >= runs[i].fp[4]
    BY StepFulfils
  <2>1. runs[i].state # "succeeded"
    BY DEF Terminal
  <2>2. \A W : Succeeds(DB, DB', W) => i \in W
    BY <2>1 DEF Succeeds, DB
  <2>3. /\ row # None /\ i = row.run /\ log[row.fp[2]].c >= row.fp[4]
    BY <2>2 DEF Fulfils, Delivers
  <2>4. Alike(runs[i].fp, row.fp)
    BY <2>3, RowFacts DEF Says, IsRunOf
  <2> QED BY <2>3, <2>4 DEF Alike
<1> QED BY <1>1, AutoAlways, ContentAlways, PTL DEF Spec, SucceededIsCompiled

-----------------------------------------------------------------------------
(* A watched request stays watched.  A watchdog that waits to be registered  *)
(* is never the one the row names: without this an exit of a contender could *)
(* leave the row with a watcher that is gone.                                *)

Apart == \A t \in Tokens : proc[t].pc = "contend" /\ row # None => row.watcher # t
Watching == {"watch", "contend"}

Relays ==
  /\ Apart'
  /\ Watched /\ faults' = faults /\ row' # None /\ row'.status # "failed" => Watched'

\* What a transaction may do to the guard of a request.
Guarded == /\ row' # None => row # None
           /\ row # None /\ row' # None => Guards(row, row')

\* The guard stays, and so does whoever stands it.
LEMMA GuardStays ==
  ASSUME Apart, Guarded,
         \A u \in Tokens : proc'[u].pc = "contend" => proc[u].pc = "contend",
         Watched => proc'[row.watcher].pc \in Watching
  PROVE  Relays
<1>1. Apart'
  BY DEF Apart, Guarded, Guards
<1>2. ASSUME Watched, row' # None, row'.status # "failed" PROVE Watched'
  BY <1>2 DEF Watched, Guarded, Guards, Watching
<1> QED BY <1>1, <1>2 DEF Relays

\* A step of a process that is no watchdog in office.
LEMMA OtherRelays ==
  ASSUME AutoInv, Apart, NEW t \in Tokens, proc[t].pc \notin Watching, Guarded,
         NEW p, p.pc # "contend", Becomes(t, p)
  PROVE  Relays
<1>1. \A u \in Tokens : proc'[u] = IF u = t THEN p ELSE proc[u]
  BY ProcSet DEF AutoInv
<1>2. \A u \in Tokens : proc'[u].pc = "contend" => proc[u].pc = "contend"
  BY <1>1
<1>3. Watched => proc'[row.watcher].pc \in Watching
  <2>1. row # None => row.watcher \in Tokens \cup {None}
    BY RowFacts DEF Row
  <2> QED BY <1>1, <2>1 DEF Watched, Watching
<1> QED BY <1>2, <1>3, GuardStays

\* A step that leaves the processes alone.
LEMMA NobodyRelays ==
  ASSUME Apart, Guarded, UNCHANGED proc
  PROVE  Relays
BY GuardStays DEF Watched, Watching

LEMMA ReadsGuarded ==
  ASSUME UNCHANGED row
  PROVE  Guarded
BY DEF Guarded, Guards

LEMMA FaultCounts ==
  ASSUME AutoInv, NEW kind, Fault(kind)
  PROVE  faults' # faults
BY AutoAssumption DEF Fault, AutoInv, WorldInv

\* Roles that are started, or fail to.
LEMMA OwnerStartsRelays ==
  ASSUME AutoInv, Apart, NEW t \in Tokens, OwnerStarts(t)
  PROVE  Relays
<1> DEFINE p == Coordinator("find", proc[t].fp, None)
<1>1. proc[t].pc \notin Watching /\ UNCHANGED row /\ (Becomes(t, p) \/ Becomes(t, Nobody))
  BY DEF OwnerStarts, Exits, ReadsRow, Watching
<1>2. p.pc # "contend" /\ Nobody.pc # "contend"
  BY DEF Coordinator, Nobody
<1> HIDE DEF p
<1> QED BY <1>1, <1>2, ReadsGuarded, OtherRelays

LEMMA ContenderStartsRelays ==
  ASSUME AutoInv, Apart, NEW t \in Tokens, ContenderStarts(t)
  PROVE  Relays
<1> DEFINE p == [Watcher("watch", proc[t].pred) EXCEPT !.reg = TRUE]
<1>1. proc[t].pc = "contend" /\ UNCHANGED row /\ (Becomes(t, p) \/ Becomes(t, Nobody))
  BY DEF ContenderStarts, Exits, ReadsRow
<1>2. p.pc # "contend" /\ Nobody.pc # "contend"
  BY DEF Watcher, Nobody
<1> HIDE DEF p
<1>3. PICK q : Becomes(t, q) /\ q.pc # "contend"
  BY <1>1, <1>2
<1>4. \A u \in Tokens : proc'[u] = IF u = t THEN q ELSE proc[u]
  BY <1>3, ProcSet
<1>5. \A u \in Tokens : proc'[u].pc = "contend" => proc[u].pc = "contend"
  BY <1>3, <1>4
<1>6. Watched => proc'[row.watcher].pc \in Watching
  <2>1. row # None => row.watcher \in Tokens \cup {None} /\ row.watcher # t
    BY <1>1, RowFacts DEF Row, Apart
  <2> QED BY <1>4, <2>1 DEF Watched, Watching
<1> QED BY <1>1, <1>5, <1>6, ReadsGuarded, GuardStays

LEMMA BootstrapRelays ==
  ASSUME AutoInv, Apart, NEW t \in Tokens, Bootstrap(t)
  PROVE  Relays
<1> DEFINE p == proc[t]
           c == Created(DB, p.fp)
           r == Request(p.own, FALSE, t, p.fp, p.pre, c.id)
           d == [c EXCEPT !.row = r]
           w == Watcher("watch", None)
<1>1. /\ proc[t].pc \notin Watching
      /\ \/ (Becomes(t, Nobody) \/ Becomes(t, w)) /\ ReadsRow
         \/ row = None /\ Commit(d) /\ Becomes(t, w)
  BY DEF Bootstrap, Exits, Watching
<1>2. w.pc = "watch" /\ w.pc # "contend" /\ Nobody.pc # "contend"
  BY DEF Watcher, Nobody
<1>3. d.row.watcher = t
  <2>1. p.own \in Tokens /\ p.fp \in Generations /\ p.pre \in Histories /\ Good(DB)
    BY ProcFacts DEF AutoInv, Bootstrap
  <2>2. \E live \in BOOLEAN : r = Request(p.own, live, t, p.fp, p.pre, c.id)
    <3> WITNESS FALSE \in BOOLEAN
    <3> QED OBVIOUS
  <2> HIDE DEF r, p
  <2>3. Good(d) /\ d.row = r /\ r # None /\ r.status = None /\ r.watcher = t
    BY <2>1, <2>2, NewRequestGood
  <2> QED BY <2>3
<1> HIDE DEF d, w
<1>4. CASE (Becomes(t, Nobody) \/ Becomes(t, w)) /\ ReadsRow
  BY <1>1, <1>2, <1>4, ReadsGuarded, OtherRelays DEF ReadsRow
<1>5. CASE row = None /\ Commit(d) /\ Becomes(t, w)
  <2>1. row' = d.row /\ row'.watcher = t
    BY <1>3, <1>5 DEF Commit
  <2>2. \A u \in Tokens : u # t => row'.watcher # u
    BY <2>1
  <2>3. proc'[t] = w
    BY <1>5, ProcSet
  <2>4. Apart'
    BY <1>2, <2>2, <2>3 DEF Apart
  <2> QED BY <1>5, <2>4 DEF Relays, Watched
<1> QED BY <1>1, <1>4, <1>5

LEMMA ExpiryRelays ==
  ASSUME AutoInv, Apart, Expiry
  PROVE  Relays
<1>1. row # None /\ UNCHANGED proc /\ row \in Row
  BY RowFacts DEF Expiry, OwnerExpires, WatcherExpires, ContenderExpires
<1>2. CASE OwnerExpires \/ ContenderExpires
  <2>1. \/ row' = [row EXCEPT !.live = FALSE]
        \/ row' = [row EXCEPT !.clive = FALSE]
    BY <1>2 DEF OwnerExpires, ContenderExpires
  <2>2. row'.watcher = row.watcher /\ row'.wlive = row.wlive
    BY <1>1, <2>1 DEF Row
  <2> QED BY <1>1, <2>2, NobodyRelays DEF Guarded, Guards
<1>3. CASE WatcherExpires
  <2>1. row' = [row EXCEPT !.wlive = FALSE]
    BY <1>3 DEF WatcherExpires
  <2>2. row'.watcher = row.watcher
    BY <1>1, <2>1 DEF Row
  <2>3. Apart'
    BY <1>1, <2>2 DEF Apart
  <2>4. faults' = faults => ~Watched
    BY <1>3, FaultCounts DEF WatcherExpires, Watched
  <2> QED BY <2>3, <2>4 DEF Relays
<1> QED BY <1>2, <1>3 DEF Expiry

\* The heartbeats of watchdogs.
LEMMA PollKeepsRelays ==
  ASSUME AutoInv, Apart, NEW t \in Tokens, PollKeeps(t)
  PROVE  Relays
<1>1. proc[t].pc = "watch"
  BY DEF PollKeeps
<1>2. CASE Standing(t) = "none" /\ Exits(t) /\ ReadsRow
  <2>1. \A u \in Tokens : proc'[u] = IF u = t THEN Nobody ELSE proc[u]
    BY <1>2, ProcSet DEF Exits
  <2>2. \A u \in Tokens : proc'[u].pc = "contend" => proc[u].pc = "contend"
    BY <2>1, NobodyIs
  <2>3. row # None => row.watcher \in Tokens \cup {None} /\ row.watcher # t
    BY <1>2, RowFacts DEF Row, Standing
  <2>4. Watched => proc'[row.watcher].pc \in Watching
    BY <2>1, <2>3 DEF Watched, Watching
  <2> QED BY <1>2, <2>2, <2>4, ReadsGuarded, GuardStays DEF ReadsRow
<1>3. CASE /\ Standing(t) = "queued"
           /\ row' = [Takes(t) EXCEPT !.clive = TRUE]
           /\ UNCHANGED <<runs, keys, proc>>
  <2>1. row # None /\ row \in Row
    BY <1>3, RowFacts DEF Standing
  <2>2. row'.watcher = row.watcher /\ row'.wlive = row.wlive
    <3>1. \/ row' = [row EXCEPT !.clive = TRUE]
          \/ row' = [[row EXCEPT !.cont = t, !.clive = TRUE] EXCEPT !.clive = TRUE]
      BY <1>3 DEF Takes
    <3> QED BY <2>1, <3>1 DEF Row
  <2> QED BY <1>3, <2>1, <2>2, NobodyRelays DEF Guarded, Guards
<1> QED BY <1>2, <1>3 DEF PollKeeps

\* The watchdog t is in office after the step.
LEMMA InOffice ==
  ASSUME NEW t \in Tokens, row'.watcher = t, row'.wlive, proc'[t].pc = "watch"
  PROVE  Relays
<1>1. Apart'
  BY DEF Apart
<1>2. row' # None /\ row'.status # "failed" => Watched'
  BY AutoAssumption DEF Watched
<1> QED BY <1>1, <1>2 DEF Relays

LEMMA PollWaitsRelays ==
  ASSUME AutoInv, Apart, NEW t \in Tokens, PollWaits(t)
  PROVE  Relays
<1> DEFINE r == Polled(t)
<1>1. proc[t].pc = "watch" /\ row # None
  BY DEF PollWaits
<1>2. r \in Row /\ r.watcher = t
  <2>1. Sound(r) /\ row \in Row
    BY <1>1, PolledFacts, RowFacts
  <2>2. r.watcher = t
    BY <2>1 DEF Polled, Standing, NoContender, Row
  <2> QED BY <2>1, <2>2 DEF Sound
<1>3. \/ r.status = "failed" /\ row' = [r EXCEPT !.watcher = None, !.wlive = FALSE]
      \/ /\ \E s : row' = [r EXCEPT !.wlive = TRUE, !.status = s]
         /\ UNCHANGED proc
  BY DEF PollWaits
<1> HIDE DEF r
<1>4. CASE r.status = "failed" /\ row' = [r EXCEPT !.watcher = None, !.wlive = FALSE]
  <2>1. row'.status = "failed" /\ row'.watcher = None
    BY <1>2, <1>4 DEF Row
  <2>2. Apart'
    BY <2>1, AutoAssumption DEF Apart
  <2> QED BY <2>1, <2>2 DEF Relays
<1>5. CASE /\ \E s : row' = [r EXCEPT !.wlive = TRUE, !.status = s]
           /\ UNCHANGED proc
  <2>1. row'.watcher = t /\ row'.wlive
    BY <1>2, <1>5 DEF Row
  <2> QED BY <1>1, <1>5, <2>1, InOffice
<1> QED BY <1>3, <1>4, <1>5

LEMMA PollClaimsRelays ==
  ASSUME AutoInv, Apart, NEW t \in Tokens, PollClaims(t)
  PROVE  Relays
<1> DEFINE r == Polled(t)
           d == [DB EXCEPT !.row = r]
<1>1. CanClaim(t) /\ row # None
  BY DEF PollClaims, CanClaim
<1>2. r.status # "failed" /\ ~CannotRead(r)
  BY <1>1 DEF CanClaim
<1>3. Sound(r) /\ Same(row, r) /\ Says(row, runs)
  BY <1>1, PolledFacts, RowFacts
<1>4. \/ Commit(Deleted(d, TRUE))
      \/ ~Covered(d.row) /\ LET seen == Observed(d.row)
                            IN  /\ Commit(Claimed(t, d, Fresh1, seen))
                                /\ proc' = [proc EXCEPT ![t] = Coordinator("find", seen.fp, None),
                                                        ![Fresh1] = Watcher("watch", t)]
  BY DEF PollClaims
<1>5. Good(d) /\ d.row = r
  <2>1. Says(r, DB.runs) /\ IsDb(DB)
    BY <1>3, DBFields DEF AutoInv, Good, Says, Same, Wants
  <2> HIDE DEF r
  <2> QED BY <1>3, <2>1, PutRow
<1>6. r # None
  BY <1>3 DEF Same, Wants
<1> HIDE DEF d, r
<1>7. CASE Commit(Deleted(d, TRUE))
  <2> DEFINE e == Deleted(d, TRUE)
  <2>1. e.row = None
    BY <1>5, <1>6, DeletedGood
  <2> HIDE DEF e
  <2>2. row' = None
    BY <1>7, <2>1 DEF Commit, e
  <2> QED BY <2>2 DEF Relays, Apart
<1>8. CASE ~Covered(d.row) /\ LET seen == Observed(d.row)
                              IN  /\ Commit(Claimed(t, d, Fresh1, seen))
                                  /\ proc' = [proc EXCEPT ![t] = Coordinator("find", seen.fp, None),
                                                          ![Fresh1] = Watcher("watch", t)]
  <2> DEFINE seen == Observed(d.row)
             e == Claimed(t, d, Fresh1, seen)
             w == Watcher("watch", t)
  <2>1. IsSeen(seen)
    BY <1>2, <1>3, <1>5, <1>8, ObservedIsSeen
  <2>2. Commit(e) /\ \E p : proc' = [proc EXCEPT ![t] = p, ![Fresh1] = w]
    BY <1>8
  <2>3. Fresh1 \in Tokens /\ w.pc = "watch"
    BY <1>1, SuccessorIs, WatcherIs
  <2> HIDE DEF seen
  <2>4. e.row.watcher = Fresh1 /\ e.row.wlive
    BY <1>2, <1>5, <1>6, <2>1, <2>3, ClaimedGood
  <2> HIDE DEF e, w
  <2>5. row' = e.row
    BY <2>2 DEF Commit
  <2>6. proc'[Fresh1] = w
    BY <2>2, <2>3 DEF AutoInv, ProcInv
  <2> QED BY <2>3, <2>4, <2>5, <2>6, InOffice
<1> QED BY <1>4, <1>7, <1>8

LEMMA ClaimAbortsRelays ==
  ASSUME AutoInv, Apart, NEW t \in Tokens, ClaimAborts(t)
  PROVE  Relays
<1> DEFINE w == Watcher("watch", t)
<1>1. CanClaim(t) /\ UNCHANGED row /\ faults' # faults
  BY FaultCounts DEF ClaimAborts, ReadsRow
<1>2. PICK p \in {proc[t], Nobody} : proc' = [proc EXCEPT ![t] = p, ![Fresh1] = w]
  BY DEF ClaimAborts
<1>3. w.pc = "watch" /\ p.pc # "contend"
  <2>1. proc[t].pc = "watch"
    BY <1>1 DEF CanClaim
  <2> QED BY <1>2, <2>1, NobodyIs DEF Watcher
<1> HIDE DEF w
<1>4. \A u \in Tokens : proc'[u] \in {proc[u], w} \/ (u = t /\ proc'[u] = p)
  BY <1>1, <1>2, SuccessorIs DEF AutoInv, ProcInv
<1>5. Apart'
  BY <1>1, <1>3, <1>4 DEF Apart
<1> QED BY <1>1, <1>5 DEF Relays

LEMMA CrashRelays ==
  ASSUME AutoInv, Apart, NEW t \in Tokens, Crash(t)
  PROVE  Relays
<1>1. UNCHANGED row /\ faults' # faults /\ Becomes(t, Nobody)
  BY FaultCounts DEF Crash, ReadsRow, Exits
<1>2. \A u \in Tokens : proc'[u] = IF u = t THEN Nobody ELSE proc[u]
  BY <1>1, ProcSet
<1>3. Apart'
  BY <1>1, <1>2, NobodyIs DEF Apart
<1> QED BY <1>1, <1>3 DEF Relays

\* Coordinators: what becomes of them, and what they make of the guard.
LEMMA Guides ==
  /\ \A pc, f, l : Coordinator(pc, f, l).pc = pc
  /\ \A f, l, reset, pre : Failing(f, l, reset, pre).pc = "fail"
  /\ Nobody.pc = "none"
BY DEF Coordinator, Failing, Nobody

LEMMA YieldsGuarded ==
  ASSUME AutoInv, row # None,
         \/ row' = row
         \/ \E live, reason : row' = [row EXCEPT !.live = live, !.status = reason]
  PROVE  Guarded
<1>1. row \in Row
  BY RowFacts
<1>2. CASE row' = row
  BY <1>2, ReadsGuarded
<1>3. CASE \E live, reason : row' = [row EXCEPT !.live = live, !.status = reason]
  <2>1. row'.watcher = row.watcher /\ row'.wlive = row.wlive
    BY <1>1, <1>3 DEF Row
  <2> QED BY <2>1 DEF Guarded, Guards
<1> QED BY <1>2, <1>3

LEMMA EnsuredGuarded ==
  ASSUME AutoInv, Commit(Ensured(DB))
  PROVE  Guarded
<1> DEFINE d == Ensured(DB)
<1>1. (d.row = None) = (row = None) /\ (row # None => Guards(row, d.row))
  BY EnsuredGood, DBFields DEF AutoInv
<1> HIDE DEF d
<1>2. row' = d.row
  BY DEF Commit, d
<1> QED BY <1>1, <1>2 DEF Guarded

LEMMA FindRelays ==
  ASSUME AutoInv, Apart, NEW t \in Tokens, Find(t)
  PROVE  Relays
<1> DEFINE f == proc[t].fp
           d == Ensured(DB)
           p == IF Lost(t, d) THEN Nobody ELSE Looks(f, d.row.fp[1], d.row)
           c == Coordinator("owned", f, f[2])
<1>1. /\ proc[t].pc \notin Watching
      /\ \/ ReadsRow /\ Becomes(t, c)
         \/ Commit(Ensured(DB)) /\ Becomes(t, p)
  BY DEF Find, Watching
<1>2. c.pc # "contend"
  BY Guides
<1>3. p.pc # "contend"
  <2>1. \A a, r : Looks(f, a, r).pc # "contend"
    BY DEF Looks, NoProgress, Coordinator, Failing, Nobody
  <2> HIDE DEF d
  <2> QED BY <2>1, Guides
<1> HIDE DEF p, c, d
<1>4. Guarded
  BY <1>1, ReadsGuarded, EnsuredGuarded DEF ReadsRow
<1> QED BY <1>1, <1>2, <1>3, <1>4, OtherRelays

LEMMA OwnedRelays ==
  ASSUME AutoInv, Apart, NEW t \in Tokens, Owned(t)
  PROVE  Relays
<1> DEFINE d == Ensured(DB)
           c == [Coordinator("launch", proc[t].fp, proc[t].lp) EXCEPT
                   !.pre = d.row.pre, !.rid = d.row.run]
<1>1. /\ proc[t].pc \notin Watching /\ Commit(Ensured(DB))
      /\ Becomes(t, Nobody) \/ Becomes(t, c)
  BY DEF Owned, Watching
<1>2. c.pc # "contend"
  BY DEF Coordinator, Nobody
<1> HIDE DEF c
<1> QED BY <1>1, <1>2, Guides, EnsuredGuarded, OtherRelays

LEMMA PromoteRelays ==
  ASSUME AutoInv, Apart, NEW t \in Tokens, Promote(t)
  PROVE  Relays
<1> DEFINE p == proc[t]
           again == Coordinator("find", p.fp, None)
           onward == Coordinator("owned", p.pend, p.pend[1])
           mine == Holds(t) /\ row.pend = p.pend
<1>1. proc[t].pc \notin Watching /\ p.pend # None
  BY ProcFacts, GenerationLog DEF Promote, Watching, Coordinating
<1>2. again.pc # "contend" /\ onward.pc # "contend"
  BY Guides
<1>3. \/ ReadsRow /\ Becomes(t, again)
      \/ mine /\ Becomes(t, again) /\ \E s : Yields(s)
      \/ mine /\ Commit(Promoted(DB)) /\ Becomes(t, onward)
  BY DEF Promote
<1> HIDE DEF again, onward
<1>4. Guarded
  <2>1. CASE mine /\ \E s : Yields(s)
    BY <2>1, YieldsGuarded DEF Holds, OwnedBy, Yields
  <2>2. CASE mine /\ Commit(Promoted(DB))
    <3> DEFINE d == Promoted(DB)
    <3>1. row # None /\ row.pend # None
      BY <1>1, <2>2 DEF Holds, OwnedBy
    <3>2. Guards(row, d.row)
      BY <3>1, PromotedGood, DBFields DEF AutoInv
    <3> HIDE DEF d
    <3>3. row' = d.row
      BY <2>2 DEF Commit, d
    <3> QED BY <3>1, <3>2, <3>3 DEF Guarded
  <2> QED BY <1>3, <2>1, <2>2, ReadsGuarded DEF ReadsRow
<1> QED BY <1>1, <1>2, <1>3, <1>4, OtherRelays

LEMMA LaunchRelays ==
  ASSUME AutoInv, Apart, NEW t \in Tokens, Launch(t) \/ LaunchRefused(t) \/ LaunchAborts(t)
  PROVE  Relays
<1>1. proc[t].pc \notin Watching
  BY DEF Launch, LaunchRefused, LaunchAborts, MayLaunch, Watching
<1>2. \E p : Becomes(t, p) /\ p.pc # "contend"
  <2> DEFINE u == [Coordinator("wait", proc[t].fp, proc[t].lp) EXCEPT
                     !.pre = Marks(proc[t].lp), !.rid = proc[t].rid]
  <2>1. u.pc # "contend"
    BY DEF Coordinator, Nobody
  <2>2. Launch(t) => Becomes(t, u)
    BY DEF Launch
  <2> HIDE DEF u
  <2>3. \/ Becomes(t, u)
        \/ Becomes(t, Nobody)
        \/ \E f, l, reset, pre : Becomes(t, Failing(f, l, reset, pre))
        \/ \E f, l : Becomes(t, Coordinator("find", f, l))
    BY <2>2 DEF LaunchRefused, LaunchAborts, Exits
  <2> QED BY <2>1, <2>3, Guides
<1>3. Guarded
  <2>1. CASE UNCHANGED row
    BY <2>1, ReadsGuarded
  <2>2. CASE Holds(t) /\ \E s : Yields(s)
    BY <2>2, YieldsGuarded DEF Holds, OwnedBy, Yields
  <2>3. CASE Launch(t)
    <3> DEFINE d == Moved(DB, row.run, "running")
    <3>1. row.run \in RunIds \cup {None}
      BY <2>3, RowFacts DEF Launch, MayLaunch, Holds, OwnedBy, Row
    <3>2. d.row = row
      BY <3>1, RunMoves
    <3>3. row' = d.row
      BY <2>3 DEF Launch, Commit
    <3> QED BY <3>2, <3>3, ReadsGuarded
  <2> QED BY <2>1, <2>2, <2>3 DEF LaunchRefused, LaunchAborts, ReadsRow
<1> QED BY <1>1, <1>2, <1>3, OtherRelays

LEMMA WaitRelays ==
  ASSUME AutoInv, Apart, NEW t \in Tokens, Reap(t) \/ RenewalLost(t) \/ SessionOpen(t)
  PROVE  Relays
<1>1. proc[t].pc \notin Watching /\ UNCHANGED row
  BY DEF Reap, RenewalLost, SessionOpen, ReadsRow, Watching
<1>2. \/ Becomes(t, Nobody)
      \/ \E f, l, reset, pre : Becomes(t, Failing(f, l, reset, pre))
      \/ \E pc \in {"defer", "finish"} : \E f, l : Becomes(t, Coordinator(pc, f, l))
  BY DEF Reap, RenewalLost, SessionOpen, Exits
<1>3. \E p : Becomes(t, p) /\ p.pc # "contend"
  BY <1>2, Guides
<1> QED BY <1>1, <1>3, ReadsGuarded, OtherRelays

LEMMA FailRelays ==
  ASSUME AutoInv, Apart, NEW t \in Tokens, Fail(t)
  PROVE  Relays
<1> DEFINE p == proc[t]
           seen == SeenAtFailure(p.lp, row, p.pre)
           d == Failed(DB, p.lp, seen, p.reset)
<1>1. /\ p.pc = "fail" /\ p.pc \notin Watching /\ p.lp \in Logs /\ p.pre \in Histories \cup {None}
      /\ p.reset \in BOOLEAN /\ Becomes(t, Nobody)
  BY ProcFacts DEF Fail, Coordinating, Exits, Watching
<1>2. CASE ReadsRow
  BY <1>1, <1>2, Guides, ReadsGuarded, OtherRelays DEF ReadsRow
<1>3. CASE OwnedBy(t) /\ Commit(d)
  <2>1. /\ row # None /\ row.status # "failed" /\ Good(DB) /\ DB.row = row /\ ~DB.full
        /\ Sound(row)
    BY <1>1, <1>3, OwnedFacts
  <2>2. seen.fp \in Generations /\ seen.pre \in Histories
    BY <1>1, <2>1, ReadingsFit
  <2> HIDE DEF seen
  <2>3. Guards(row, d.row)
    <3> DEFINE reset == p.reset
               l == p.lp
    <3>1. reset \in BOOLEAN
      BY <1>1
    <3> HIDE DEF reset, l
    <3>2. LET e == Failed(DB, l, seen, reset)
          IN  Good(e) /\ e.row # None /\ Guards(DB.row, e.row)
      BY <2>1, <2>2, <3>1, FailedGood
    <3> QED BY <2>1, <3>2 DEF reset, l
  <2> HIDE DEF d
  <2>4. row' = d.row
    BY <1>3 DEF Commit
  <2>5. Guarded
    BY <2>1, <2>3, <2>4 DEF Guarded
  <2> QED BY <1>1, <2>5, Guides, OtherRelays
<1> QED BY <1>2, <1>3 DEF Fail

LEMMA FinishRelays ==
  ASSUME AutoInv, Apart, NEW t \in Tokens, Finish(t)
  PROVE  Relays
<1> DEFINE p == proc[t]
           next == Handed(p.lp, row)
           d == Finished(DB, p.lp, next)
<1>1. p.pc \notin Watching /\ p.pc # "none" /\ p.lp \in Logs
  BY ProcFacts DEF Finish, Coordinating, Watching
<1>2. \/ ReadsRow
      \/ OwnedBy(t) /\ \E s : Yields(s)
      \/ OwnedBy(t) /\ Commit(d)
  BY DEF Finish
<1>3. \E q : Becomes(t, q) /\ q.pc # "contend"
  <2>1. \/ Becomes(t, Nobody)
        \/ \E pc \in {"owned", "find"} : \E f, l : Becomes(t, Coordinator(pc, f, l))
    <3> HIDE DEF d
    <3>1. \/ Becomes(t, Nobody)
          \/ \E f : Becomes(t, IF p.reset THEN Coordinator("owned", f, p.lp)
                               ELSE Coordinator("find", f, None))
      BY DEF Finish, Exits
    <3> QED BY <3>1
  <2> QED BY <2>1, Guides
<1>4. Guarded
  <2>1. CASE OwnedBy(t) /\ \E s : Yields(s)
    BY <2>1, YieldsGuarded DEF OwnedBy, Yields
  <2>2. CASE OwnedBy(t) /\ Commit(d)
    <3>1. row # None /\ Good(DB) /\ DB.row = row /\ ~DB.full /\ Sound(row)
      BY <1>1, <2>2, OwnedFacts
    <3>2. next.fp \in Generations /\ next.pre \in Histories
      BY <1>1, <3>1, ReadingsFit
    <3> HIDE DEF next
    <3>3. d.row # None => Guards(row, d.row)
      BY <3>1, <3>2, FinishedGood
    <3> HIDE DEF d
    <3>4. row' = d.row
      BY <2>2 DEF Commit
    <3> QED BY <3>1, <3>3, <3>4 DEF Guarded
  <2> QED BY <1>2, <2>1, <2>2, ReadsGuarded DEF ReadsRow
<1> QED BY <1>1, <1>3, <1>4, OtherRelays

LEMMA DeferRelays ==
  ASSUME AutoInv, Apart, NEW t \in Tokens, Defer(t)
  PROVE  Relays
<1> DEFINE p == proc[t]
           next == SeenAtDefer(p.lp, row)
           d == Deferred(DB, p.lp, next)
<1>1. p.pc \notin Watching /\ p.pc # "none" /\ p.lp \in Logs
  BY ProcFacts DEF Defer, Coordinating, Watching
<1>2. \/ ReadsRow
      \/ OwnedBy(t) /\ row' = [row EXCEPT !.live = TRUE]
      \/ OwnedBy(t) /\ row' = [row EXCEPT !.live = TRUE, !.status = "read_wait"]
      \/ OwnedBy(t) /\ Commit(d)
  BY DEF Defer
<1>3. UNCHANGED proc \/ \E q : Becomes(t, q) /\ q.pc # "contend"
  <2>1. \/ UNCHANGED proc
        \/ Becomes(t, Nobody)
        \/ \E f : Becomes(t, Coordinator("find", f, None))
    <3> HIDE DEF d
    <3> QED BY DEF Defer, Exits
  <2> QED BY <2>1, Guides
<1>4. Guarded
  <2>1. CASE OwnedBy(t) /\ row' = [row EXCEPT !.live = TRUE]
    <3>1. row # None /\ row \in Row
      BY <2>1, RowFacts DEF OwnedBy
    <3>2. row'.watcher = row.watcher /\ row'.wlive = row.wlive
      BY <2>1, <3>1 DEF Row
    <3> QED BY <3>1, <3>2 DEF Guarded, Guards
  <2>2. CASE OwnedBy(t) /\ row' = [row EXCEPT !.live = TRUE, !.status = "read_wait"]
    BY <2>2, YieldsGuarded DEF OwnedBy
  <2>3. CASE OwnedBy(t) /\ Commit(d)
    <3>1. row # None /\ Good(DB) /\ DB.row = row /\ ~DB.full /\ Sound(row)
      BY <1>1, <2>3, OwnedFacts
    <3>2. next.fp \in Generations /\ next.pre \in Histories
      BY <1>1, <3>1, ReadingsFit
    <3> HIDE DEF next
    <3>3. d.row # None => Guards(row, d.row)
      BY <3>1, <3>2, DeferredGood
    <3> HIDE DEF d
    <3>4. row' = d.row
      BY <2>3 DEF Commit
    <3> QED BY <3>1, <3>3, <3>4 DEF Guarded
  <2> QED BY <1>2, <2>1, <2>2, <2>3, ReadsGuarded DEF ReadsRow
<1> QED BY <1>1, <1>3, <1>4, OtherRelays, NobodyRelays

\* A registration finds the guard of a request as it is, and adds one if there is none.
LEMMA ScheduledGuards ==
  ASSUME AutoInv, Scheduling.row # None
  PROVE  row # None /\ Guards(row, Scheduling.row)
<1> DEFINE b == Scheduling
<1>1. Good(DB) /\ DB.row = row
  BY DBFields DEF AutoInv
<1>2. CASE row # None /\ row.status = "failed"
  BY <1>1, <1>2, DeletedGood DEF Scheduling
<1>3. CASE ~(row # None /\ row.status = "failed")
  BY <1>1, <1>3, EnsuredGood DEF Scheduling
<1> QED BY <1>2, <1>3

\* Who is spawned, and as what.
LEMMA SpawnedIs ==
  ASSUME NEW roles, NEW f, NEW pre, NEW owner, NEW dog, NEW u \in Tokens,
         proc' = Spawned(roles, f, pre, owner, dog)
  PROVE  /\ u \notin {owner, dog} => proc'[u] = proc[u]
         /\ proc'[u].pc = "contend" => \/ proc[u].pc = "contend"
                                       \/ u = dog /\ "contender" \in roles
<1> DEFINE b == [Nobody EXCEPT !.pc = "boot", !.own = owner, !.fp = f, !.pre = pre]
           o == Coordinator("owner", f, None)
           c == Watcher("contend", row.watcher)
<1>1. b.pc # "contend" /\ o.pc # "contend"
  BY DEF Nobody, Coordinator
<1>2. proc'[u] = IF u = dog /\ "watchdog" \in roles THEN b
                 ELSE IF u = dog /\ "contender" \in roles THEN c
                 ELSE IF u = owner /\ "owner" \in roles THEN o
                 ELSE proc[u]
  BY DEF Spawned
<1> HIDE DEF b, o, c
<1> QED BY <1>1, <1>2

LEMMA ScheduleRelays ==
  ASSUME AutoInv, Apart, NEW s \in sched, Schedule(s)
  PROVE  Relays
<1> DEFINE b == Scheduling
           d == Registered(b, s[1], s[2], Fresh1, Fresh2)
<1>1. /\ s[1] \in Generations /\ s[2] \in Histories
      /\ Fresh1 \in Fresh /\ Fresh2 \in Fresh
      /\ Fresh1 \in Tokens /\ Fresh2 \in Tokens
      /\ Good(b)
      /\ b.row # None => b.row.status # "failed"
  BY ScheduleFacts DEF Schedule
<1>2. CASE busy
  BY <1>2, ReadsGuarded, NobodyRelays DEF Schedule
<1>3. CASE ~busy
  <2>1. Commit(d) /\ proc' = Spawned(Roles(b.row), s[1], s[2], Fresh1, Fresh2)
    BY <1>3 DEF Schedule
  <2>2. b.row # None => row # None /\ Guards(row, b.row)
    BY ScheduledGuards
  <2>3. "contender" \in Roles(b.row) => b.row # None /\ HasWatcher(b.row)
    <3> HIDE DEF b
    <3> QED BY DEF Roles
  <2>4. \A u \in Tokens : proc'[u].pc = "contend" =>
          \/ proc[u].pc = "contend"
          \/ u = Fresh2 /\ "contender" \in Roles(b.row)
    BY <2>1, SpawnedIs
  <2>5. \A u \in Tokens : u \notin {Fresh1, Fresh2} => proc'[u] = proc[u]
    BY <2>1, SpawnedIs
  <2>6. \A u \in {Fresh1, Fresh2} : proc[u].pc = "none" /\ (row # None => u # row.watcher)
    BY <1>1 DEF Fresh
  <2>7. row' = d.row
    BY <2>1 DEF Commit
  <2> HIDE DEF b
  <2>8. /\ d.row # None
        /\ b.row = None => d.row.watcher = Fresh2
        /\ b.row # None => /\ d.row.watcher \in {b.row.watcher, Fresh2}
                           /\ HasWatcher(b.row) => Guards(b.row, d.row)
    BY <1>1, RegisteredGood
  <2> HIDE DEF d
  <2>9. Apart'
    <3> SUFFICES ASSUME NEW u \in Tokens, proc'[u].pc = "contend" PROVE d.row.watcher # u
      BY <2>7 DEF Apart
    <3>1. CASE proc[u].pc = "contend"
      <4>1. u # Fresh2 /\ (row # None => row.watcher # u)
        BY <2>6, <3>1 DEF Apart
      <4> QED BY <2>2, <2>8, <4>1 DEF Guards
    <3>2. CASE u = Fresh2 /\ "contender" \in Roles(b.row)
      BY <2>2, <2>3, <2>6, <2>8, <3>2 DEF Guards
    <3> QED BY <2>4, <3>1, <3>2
  <2>10. ASSUME Watched, row'.status # "failed" PROVE Watched'
    <3>1. row # None /\ row.status # "failed" /\ row.watcher # None /\ row.wlive
      BY <2>10 DEF Watched
    <3>2. b.row # None
      BY <3>1, EnsuredGood, DBFields DEF b, Scheduling, AutoInv
    <3>3. HasWatcher(b.row) /\ Guards(row, b.row)
      BY <2>2, <3>1, <3>2 DEF Guards, HasWatcher
    <3>4. row'.watcher = row.watcher /\ row'.wlive
      BY <2>7, <2>8, <3>1, <3>2, <3>3 DEF Guards
    <3>5. row.watcher \in Tokens
      BY <3>1, RowFacts DEF Row
    <3>6. proc'[row.watcher] = proc[row.watcher]
      BY <2>5, <2>6, <3>1, <3>5
    <3> QED BY <2>7, <2>8, <2>10, <3>1, <3>4, <3>6 DEF Watched
  <2> QED BY <2>9, <2>10 DEF Relays
<1> QED BY <1>2, <1>3

LEMMA ScheduleAbortsRelays ==
  ASSUME AutoInv, Apart, NEW s \in sched, ScheduleAborts(s)
  PROVE  Relays
<1>1. PICK roles : proc' = Spawned(roles, s[1], s[2], Fresh1, Fresh2)
  BY DEF ScheduleAborts
<1>2. UNCHANGED row /\ faults' # faults
  BY FaultCounts DEF ScheduleAborts
<1>3. Fresh2 \in Fresh
  BY ScheduleFacts DEF ScheduleAborts
<1>4. \A u \in Tokens : proc'[u].pc = "contend" => proc[u].pc = "contend" \/ u = Fresh2
  BY <1>1, SpawnedIs
<1>5. row # None => row.watcher # Fresh2
  BY <1>3 DEF Fresh
<1>6. Apart'
  BY <1>2, <1>4, <1>5 DEF Apart
<1> QED BY <1>2, <1>6 DEF Relays

\* Compilations and the world outside do not touch the guard.
LEMMA RestRelays ==
  ASSUME AutoInv, Apart, UNCHANGED proc, UNCHANGED row
  PROVE  Relays
BY ReadsGuarded, NobodyRelays

LEMMA ChildRelays ==
  ASSUME AutoInv, Apart, NEW t \in Tokens, Child(t) \/ ChildMeetsProbe(t) \/ ChildRaises(t)
  PROVE  Relays
<1>1. UNCHANGED proc
  BY DEF Child, ChildStarts, ChildReads, ChildApplies, ChildEnds, ChildMeetsProbe, ChildRaises
<1>2. UNCHANGED row \/ Commit(Moved(DB, child[t].run, "running"))
  BY DEF Child, ChildStarts, ChildReads, ChildApplies, ChildEnds, ChildMeetsProbe, ChildRaises,
         ReadsRow
<1>3. child[t].run \in RunIds \cup {None}
  BY DEF AutoInv, ChildInv, Compilation
<1>4. UNCHANGED row
  BY <1>2, <1>3, RunMoves DEF Commit
<1> QED BY <1>1, <1>4, RestRelays

LEMMA NextRelays ==
  ASSUME AutoInv, Apart, Next
  PROVE  Relays
<1>1. CASE Worker
  <2>1. ASSUME Enqueue \/ (\E wrote \in BOOLEAN : Drain(wrote)) \/ (\E asks \in BOOLEAN : Trigger(asks))
        PROVE  Relays
    BY <2>1, RestRelays DEF Enqueue, Drain, Trigger
  <2> QED BY <1>1, <2>1, ScheduleRelays, ScheduleAbortsRelays DEF Worker
<1>2. CASE User \/ Rest
  BY <1>2, RestRelays
  DEF User, NewDay, ManualCompile, RemoveMarkers, Unreadable, Readable, Rest, vars
<1>3. CASE Expiry
  BY <1>3, ExpiryRelays
<1>4. ASSUME NEW t \in Tokens, Process(t) PROVE Relays
  BY <1>4, OwnerStartsRelays, ContenderStartsRelays, BootstrapRelays, PollKeepsRelays,
     PollWaitsRelays, PollClaimsRelays, FindRelays, PromoteRelays, OwnedRelays, LaunchRelays,
     WaitRelays, FailRelays, FinishRelays, DeferRelays
  DEF Process
<1>5. ASSUME NEW t \in Tokens, Child(t) \/ Mishap(t) PROVE Relays
  BY <1>5, ChildRelays, ClaimAbortsRelays, WaitRelays, LaunchRelays, CrashRelays DEF Mishap
<1> QED BY <1>1, <1>2, <1>3, <1>4, <1>5 DEF Next

\* The request that a watchdog watches is watched after every step in which nobody is
\* killed, sleeps or fails to commit, however often the watch is handed over.
THEOREM WatchCorrect == Spec => WatchKept
<1>1. Init => Apart
  BY DEF Init, Apart, Nobody
<1>2. ASSUME AutoInv, Apart, [Next]_vars PROVE Relays
  BY <1>2, NextRelays, RestRelays DEF vars
<1>3. Relays =>
        /\ Apart'
        /\ Watched /\ faults' = faults /\ row' # None /\ row'.status # "failed" => Watched'
  BY DEF Relays
<1> QED BY <1>1, <1>2, <1>3, AutoAlways, PTL DEF Spec, WatchKept

-----------------------------------------------------------------------------
(* The required history.  A request, a pending generation, a reading and a   *)
(* coordinator each hold a fingerprint f and a history h that was read with  *)
(* it.  As long as the log has the marker f starts after, h is as long as    *)
(* the markers of the log: whoever finds f in the log finds h there too.     *)

Tells(L, f, h) ==
  /\ f[3] < f[4] /\ Written(L, f)
  /\ L[f[2]].c = f[3] => Extends(h, <<<<f[2], L[f[2]].e>>, L[f[2]].m>>)

Counts(L, f) == f[3] < f[4] /\ Written(L, f)

\* A registration that is lost with its row is put back by the watchdog it spawned, for
\* an owner that may have gone on since.
Expected == {u \in Tokens : \E b \in Tokens : proc[b].pc = "boot" /\ proc[b].own = u}

\* A takeover reads the pending log again and leaves the history it required: only the
\* histories of an expected owner, and of a pending generation of the same log, tell.
Recounts(L, r, S) ==
  /\ Counts(L, r.fp) /\ (r.token \in S => Tells(L, r.fp, r.pre))
  /\ r.pend # None => /\ Counts(L, r.pend)
                      /\ r.token \in S \/ r.pend[1] = r.fp[1] => Tells(L, r.pend, r.ppre)

\* A coordinator that may still write its history back to the row has one that goes
\* on from the row's.
Owes(p) == p.pc = "launch" \/ (p.pc \in {"wait", "fail"} /\ p.pre # None)
Bears(r, t, p) == r # None /\ r.token = t /\ Alike(r.fp, p.fp) => Extends(p.pre, r.pre)
Recalls(L, r, t, p, S) ==
  /\ p.pc = "boot" => Tells(L, p.fp, p.pre)
  /\ Owes(p) => p.pre \in Histories /\ Bears(r, t, p) /\ (t \in S => Tells(L, p.fp, p.pre))

HistoryInv ==
  /\ \A s \in sched : Tells(log, s[1], s[2])
  /\ row # None => Recounts(log, row, Expected)
  /\ \A t \in Tokens : Recalls(log, row, t, proc[t], Expected)

Goes ==
  /\ row # None /\ row.status # "failed" /\ row' # None /\ row'.fp[1] = row.fp[1]
  /\ OfItsLog(row.fp) /\ OfItsLog(row'.fp)
  => Extends(row'.pre, row.pre)

Remembers == HistoryInv' /\ Goes

LEMMA ExtendsSame ==
  ASSUME NEW h \in Histories
  PROVE  Extends(h, h)
BY DEF Extends, Histories

LEMMA ExtendsOn ==
  ASSUME NEW g \in Histories, NEW h \in Histories, NEW k \in Histories,
         Extends(g, h), Extends(h, k)
  PROVE  Extends(g, k)
BY DEF Extends, Histories

LEMMA RequiredExtends ==
  ASSUME NEW l, NEW h \in Histories
  PROVE  Extends(Required(l, h), h)
BY ExtendsSame DEF Required, Advances

LEMMA TellsGrows ==
  ASSUME NEW L \in [Logs -> Entry], NEW M \in [Logs -> Entry], Grows(L, M),
         NEW f \in Generations, NEW h, Tells(L, f, h)
  PROVE  Tells(M, f, h)
<1> DEFINE l == f[2]
           x == L[l]
           y == M[l]
<1>1. l \in Logs /\ f[3] \in Nat /\ f[4] \in Nat
  BY DEF Generations
<1>2. Written(M, f)
  BY GrowthKeeps DEF Tells
<1>3. x \in Entry /\ y \in Entry /\ f[3] < f[4] /\ f[4] <= x.n
  BY <1>1 DEF Tells, Written
<1>4. \/ y.c = x.c /\ y.m = x.m /\ y.e = x.e
      \/ y.c = x.n
      \/ y.c = 0 /\ y.m = 0
  BY <1>1 DEF Grows
<1>5. x.c = f[3] => Extends(h, <<<<l, x.e>>, x.m>>)
  BY DEF Tells
<1> HIDE DEF x, y
<1>6. x.n \in Nat
  BY <1>3 DEF Entry
<1>7. y.c = f[3] => Extends(h, <<<<l, y.e>>, y.m>>)
  <2>1. CASE y.c = x.c /\ y.m = x.m /\ y.e = x.e
    BY <1>5, <2>1
  <2>2. CASE y.c = x.n
    BY <1>1, <1>3, <1>6, <2>2
  <2>3. CASE y.m = 0
    BY <2>3 DEF Extends
  <2> QED BY <1>4, <2>1, <2>2, <2>3
<1> QED BY <1>2, <1>3, <1>7 DEF Tells, y

\* What a log that is not compiled to its end says of itself.
LEMMA ReadTells ==
  ASSUME WorldInv, NEW a, NEW l \in Logs, Status(l) = "uncompiled"
  PROVE  /\ Tells(log, Filed(a, l), Marks(l))
         /\ \A h \in Histories : Extends(Marks(l), h) => Tells(log, Filed(a, l), Required(l, h))
<1> DEFINE f == Filed(a, l)
           M == <<<<l, log[l].e>>, log[l].m>>
<1>1. log[l].n \in Nat /\ log[l].c \in Nat /\ log[l].c <= log[l].n /\ log[l].m \in Nat
  BY LogType
<1>2. log[l].ok /\ log[l].c # log[l].n
  BY DEF Status
<1>3. f[2] = l /\ f[3] = log[l].c /\ f[4] = log[l].n
  BY DEF Filed
<1>4. f[3] < f[4] /\ Written(log, f)
  BY <1>1, <1>2, <1>3 DEF Written
<1>5. \/ log[l].m = 0 /\ Marks(l)[2] = 0
      \/ Marks(l) = M
  BY <1>1, <1>2 DEF Marks
<1>6. Extends(Marks(l), M)
  BY <1>1, <1>5 DEF Extends
<1>7. Tells(log, f, Marks(l))
  BY <1>3, <1>4, <1>6 DEF Tells
<1>8. ASSUME NEW h \in Histories, Extends(Marks(l), h), ~Advances(Marks(l), h)
      PROVE  Extends(h, M)
  <2>1. h[2] \in Nat /\ Marks(l)[2] \in Nat
    BY <1>1, <1>5 DEF Histories
  <2>2. Marks(l)[2] <= h[2]
    BY <1>8, <2>1 DEF Advances
  <2>3. h[2] = 0 \/ (Marks(l)[1] = h[1] /\ Marks(l)[2] = h[2])
    BY <1>8, <2>1, <2>2 DEF Extends
  <2>4. CASE h[2] = 0
    BY <1>1, <1>5, <2>1, <2>2, <2>4 DEF Extends
  <2>5. CASE Marks(l)[1] = h[1] /\ Marks(l)[2] = h[2]
    BY <1>1, <1>5, <2>5 DEF Extends
  <2> QED BY <2>3, <2>4, <2>5
<1>9. ASSUME NEW h \in Histories, Extends(Marks(l), h) PROVE Tells(log, f, Required(l, h))
  <2>1. CASE Advances(Marks(l), h)
    BY <1>7, <2>1 DEF Required
  <2>2. CASE ~Advances(Marks(l), h)
    BY <1>3, <1>4, <1>8, <1>9, <2>2 DEF Required, Tells
  <2> QED BY <2>1, <2>2
<1> QED BY <1>7, <1>9

\* A log that shows the generation f has no more markers than the history read with f.
LEMMA ShownTells ==
  ASSUME WorldInv, NEW f, NEW h, Tells(log, f, h), NEW l \in Logs, Shows(l, f)
  PROVE  Extends(h, Marks(l))
<1>1. l = f[2] /\ log[l].c = f[3]
  BY DEF Shows, Alike, Stamp, Filed
<1>2. Extends(h, <<<<l, log[l].e>>, log[l].m>>)
  BY <1>1 DEF Tells
<1>3. log[l].m \in Nat
  BY LogType
<1> QED BY <1>2, <1>3 DEF Marks, Extends

LEMMA TellsAlike ==
  ASSUME NEW L, NEW f, NEW g, NEW h, Tells(L, f, h), Alike(f, g) \/ Alike(g, f)
  PROVE  Tells(L, g, h)
BY DEF Tells, Alike, Written

\* A history that goes beyond one that tells, tells.
LEMMA TellsOn ==
  ASSUME NEW L, NEW f, NEW g \in Histories, NEW h \in Histories, Tells(L, f, h), Extends(g, h),
         L[f[2]].m \in Nat
  PROVE  Tells(L, f, g)
BY DEF Tells, Extends, Histories

LEMMA TellsCounts ==
  ASSUME NEW L, NEW f, NEW h, Tells(L, f, h)
  PROVE  Counts(L, f)
BY DEF Tells, Counts

\* The request is the same one.
Repeats(r, s) ==
  /\ s # None /\ s.token = r.token
  /\ s.fp = r.fp /\ s.pre = r.pre /\ s.pend = r.pend /\ s.ppre = r.ppre

LEMMA RecountsOn ==
  ASSUME NEW L, NEW r, NEW s, r = s \/ Repeats(r, s), NEW S, NEW T, T \subseteq S,
         Recounts(L, r, S)
  PROVE  Recounts(L, s, T)
BY DEF Recounts, Repeats

LEMMA RecallsOn ==
  ASSUME NEW L, NEW r, NEW s, s = None \/ r = s \/ (r # None /\ Repeats(r, s)),
         NEW S, NEW T, T \subseteq S, NEW t, NEW p, Recalls(L, r, t, p, S)
  PROVE  Recalls(L, s, t, p, T)
<1>1. Bears(r, t, p) => Bears(s, t, p)
  BY DEF Bears, Repeats
<1> QED BY <1>1 DEF Recalls

LEMMA WorldRemembers ==
  ASSUME AutoInv, WorldInv', HistoryInv, Grows(log, log'), UNCHANGED <<row, proc>>,
         \A s \in sched' : s[1] \in Generations /\ Tells(log, s[1], s[2])
  PROVE  Remembers
<1>1. log \in [Logs -> Entry] /\ log' \in [Logs -> Entry]
  BY DEF AutoInv, WorldInv, Entry
<1>2. \A f \in Generations : \A h : Tells(log, f, h) => Tells(log', f, h)
  BY <1>1, TellsGrows
<1>3. \A f \in Generations : Counts(log, f) => Counts(log', f)
  BY <1>1, GrowthKeeps DEF Counts
<1>4. Expected' = Expected
  BY DEF Expected
<1>5. \A s \in sched' : Tells(log', s[1], s[2])
  BY <1>2
<1>6. row # None => Recounts(log', row, Expected)
  <2> SUFFICES ASSUME row # None PROVE Recounts(log', row, Expected)
    OBVIOUS
  <2>1. row.fp \in Generations /\ row.pend \in Generations \cup {None}
    BY RowFacts DEF Row
  <2>2. Recounts(log, row, Expected)
    BY DEF HistoryInv
  <2> QED BY <1>2, <1>3, <2>1, <2>2 DEF Recounts
<1>7. ASSUME NEW t \in Tokens PROVE Recalls(log', row, t, proc[t], Expected)
  <2>1. Recalls(log, row, t, proc[t], Expected)
    BY DEF HistoryInv
  <2>2. proc[t].pc = "boot" \/ Owes(proc[t]) => proc[t].fp \in Generations
    BY ProcFacts DEF Owes, Coordinating
  <2> QED BY <1>2, <2>1, <2>2 DEF Recalls
<1>8. HistoryInv'
  BY <1>4, <1>5, <1>6, <1>7 DEF HistoryInv
<1>9. Goes
  BY RowFacts, ExtendsSame DEF Goes, Row
<1> QED BY <1>8, <1>9 DEF Remembers

\* Nobody is expected that was not, and the request stays the same or ends.
LEMMA SameRemembers ==
  ASSUME AutoInv, HistoryInv, UNCHANGED log, sched' \subseteq sched, Expected' \subseteq Expected,
         row' = row \/ row' = None \/ (row # None /\ Repeats(row, row')),
         \A u \in Tokens :
           proc'[u] = proc[u] \/ Recalls(log, row, u, proc'[u], Expected)
  PROVE  Remembers
<1>1. \A s \in sched' : Tells(log', s[1], s[2])
  BY DEF HistoryInv
<1>2. row' # None => Recounts(log', row', Expected')
  <2>1. row' # None => row # None
    OBVIOUS
  <2>2. row # None => Recounts(log, row, Expected)
    BY DEF HistoryInv
  <2>3. ASSUME row' # None PROVE row = row' \/ Repeats(row, row')
    BY <2>3
  <2>4. ASSUME row' # None PROVE Recounts(log, row', Expected')
    BY <2>1, <2>2, <2>3, <2>4, RecountsOn
  <2> QED BY <2>4
<1>3. ASSUME NEW u \in Tokens PROVE Recalls(log', row', u, proc'[u], Expected')
  <2>1. Recalls(log, row, u, proc'[u], Expected)
    BY DEF HistoryInv
  <2>2. row' = None \/ row = row' \/ (row # None /\ Repeats(row, row'))
    OBVIOUS
  <2>3. Recalls(log, row', u, proc'[u], Expected')
    BY <2>1, <2>2, RecallsOn
  <2> QED BY <2>3
<1>4. HistoryInv'
  BY <1>1, <1>2, <1>3 DEF HistoryInv
<1>5. Goes
  BY RowFacts, ExtendsSame DEF Goes, Row, Repeats
<1> QED BY <1>4, <1>5 DEF Remembers

\* The watchdogs that wait for their registration, after a step of t alone.
LEMMA OneExpects ==
  ASSUME AutoInv, NEW t \in Tokens, NEW p, p.pc # "boot", Becomes(t, p)
  PROVE  Expected' \subseteq Expected
<1>1. proc'[t] = p /\ \A u \in Tokens : u # t => proc'[u] = proc[u]
  BY ProcSet
<1> QED BY <1>1 DEF Expected

\* t goes on as p and owes nothing new, and the request stays the same or ends.
LEMMA OneRemembers ==
  ASSUME AutoInv, HistoryInv, UNCHANGED <<log, sched>>,
         NEW t \in Tokens, NEW p, p.pc # "boot", Becomes(t, p),
         row' = row \/ row' = None \/ (row # None /\ Repeats(row, row')),
         Owes(p) => /\ p.pre \in Histories /\ Bears(row, t, p)
                    /\ t \in Expected => Tells(log, p.fp, p.pre)
  PROVE  Remembers
<1>1. proc'[t] = p /\ \A u \in Tokens : u # t => proc'[u] = proc[u]
  BY ProcSet
<1>2. Recalls(log, row, t, p, Expected)
  BY DEF Recalls
<1>3. Expected' \subseteq Expected
  BY OneExpects
<1> QED BY <1>1, <1>2, <1>3, SameRemembers

\* The owner t writes to the row, and goes on as p, which owes nothing.
LEMMA OwnRemembers ==
  ASSUME AutoInv, HistoryInv, UNCHANGED <<log, sched>>,
         NEW t \in Tokens, NEW p, p.pc # "boot", ~Owes(p), Becomes(t, p),
         row # None, row.token = t,
         row' # None => row'.token = t /\ Recounts(log, row', Expected),
         Goes
  PROVE  Remembers
<1>1. proc'[t] = p /\ \A u \in Tokens : u # t => proc'[u] = proc[u]
  BY ProcSet
<1>2. Expected' \subseteq Expected
  BY OneExpects
<1>3. row' # None => Recounts(log', row', Expected')
  <2>1. ASSUME row' # None PROVE Recounts(log, row', Expected')
    BY <1>2, <2>1, RecountsOn
  <2> QED BY <2>1
<1>4. ASSUME NEW u \in Tokens PROVE Recalls(log', row', u, proc'[u], Expected')
  <2>1. CASE u = t
    BY <1>1, <2>1 DEF Recalls
  <2>2. CASE u # t
    <3>1. Recalls(log, row, u, proc[u], Expected)
      BY DEF HistoryInv
    <3>2. Bears(row', u, proc[u])
      BY <2>2 DEF Bears
    <3> QED BY <1>1, <1>2, <2>2, <3>1, <3>2 DEF Recalls
  <2> QED BY <2>1, <2>2
<1>5. HistoryInv'
  BY <1>3, <1>4 DEF HistoryInv
<1> QED BY <1>5 DEF Remembers

LEMMA SchedTells ==
  ASSUME AutoInv, HistoryInv, NEW s \in sched
  PROVE  s[1] \in Generations /\ s[2] \in Histories /\ Tells(log, s[1], s[2])
BY DEF AutoInv, WorldInv, HistoryInv

LEMMA UserRemembers ==
  ASSUME AutoInv, AutoInv', HistoryInv, User \/ Rest
  PROVE  Remembers
<1>1. Grows(log, log')
  BY UserGrows, SameGrows DEF AutoInv, Rest, vars
<1>2. UNCHANGED <<row, proc, sched>>
  BY DEF User, NewDay, ManualCompile, RemoveMarkers, Unreadable, Readable, Rest, vars
<1> QED BY <1>1, <1>2, SchedTells, WorldRemembers DEF AutoInv

LEMMA QueueRemembers ==
  ASSUME AutoInv, AutoInv', HistoryInv,
         Enqueue \/ (\E wrote \in BOOLEAN : Drain(wrote)) \/ (\E asks \in BOOLEAN : Trigger(asks))
  PROVE  Remembers
<1>1. UNCHANGED <<row, proc>>
  BY DEF Enqueue, Drain, Trigger
<1>2. Grows(log, log')
  BY DrainGrows, SameGrows DEF AutoInv, Enqueue, Trigger
<1>3. CASE Enqueue \/ (\E wrote \in BOOLEAN : Drain(wrote))
  <2>1. UNCHANGED sched
    BY <1>3 DEF Enqueue, Drain
  <2> QED BY <1>1, <1>2, <2>1, SchedTells, WorldRemembers DEF AutoInv
<1>4. ASSUME NEW asks \in BOOLEAN, Trigger(asks) PROVE Remembers
  <2> SUFFICES \A s \in sched' : s[1] \in Generations /\ Tells(log, s[1], s[2])
    BY <1>1, <1>2, WorldRemembers DEF AutoInv
  <2>1. today \in Logs /\ Stamp(today) \in Generations
    BY LogFacts DEF AutoInv, WorldInv
  <2>2. ASSUME Status(today) = "uncompiled" PROVE Tells(log, Stamp(today), Marks(today))
    BY <2>1, <2>2, ReadTells DEF AutoInv, Stamp
  <2>3. ASSUME NEW s \in sched'
        PROVE  s \in sched \/ (Status(today) = "uncompiled" /\ s = <<Stamp(today), Marks(today)>>)
    BY <1>4 DEF Trigger
  <2> QED BY <2>1, <2>2, <2>3, SchedTells
<1> QED BY <1>3, <1>4

LEMMA ChildRemembers ==
  ASSUME AutoInv, AutoInv', HistoryInv, NEW t \in Tokens,
         Child(t) \/ ChildMeetsProbe(t) \/ ChildRaises(t)
  PROVE  Remembers
<1>1. UNCHANGED <<proc, sched>>
  BY DEF Child, ChildStarts, ChildReads, ChildApplies, ChildEnds, ChildMeetsProbe, ChildRaises,
         world
<1>2. CASE \E ok \in BOOLEAN : ChildApplies(t, ok)
  <2>1. Grows(log, log') /\ UNCHANGED row
    BY <1>2, ChildAppliesGrows DEF AutoInv, ChildApplies
  <2> QED BY <1>1, <2>1, SchedTells, WorldRemembers DEF AutoInv
<1>3. CASE ~\E ok \in BOOLEAN : ChildApplies(t, ok)
  <2>1. /\ UNCHANGED log
        /\ \/ UNCHANGED row
           \/ Commit(Moved(DB, child[t].run, "running"))
    BY <1>3 DEF Child, ChildStarts, ChildReads, ChildEnds, ChildMeetsProbe, ChildRaises,
                ReadsRow, world
  <2>2. UNCHANGED row
    <3>1. child[t].run \in RunIds \cup {None} /\ IsDb(DB)
      BY DEF AutoInv, ChildInv, Compilation, Good
    <3>2. Moved(DB, child[t].run, "running").row = row
      BY <3>1, RunMoves
    <3> QED BY <2>1, <3>2 DEF Commit
  <2> QED BY <1>1, <2>1, <2>2, SameGrows, SchedTells, WorldRemembers DEF AutoInv
<1> QED BY <1>2, <1>3

-----------------------------------------------------------------------------
(* ... the steps of watchdogs                                                *)

LEMMA NobodyOwes ==
  /\ ~Owes(Nobody) /\ Nobody.pc # "boot"
  /\ \A pc \in {"watch", "contend"} : \A pred : ~Owes(Watcher(pc, pred)) /\ Watcher(pc, pred).pc = pc
  /\ \A pc \in Coordinating \ {"launch"} : \A f, l :
       ~Owes(Coordinator(pc, f, l)) /\ Coordinator(pc, f, l).pc = pc /\ pc # "boot"
BY DEF Owes, Nobody, Watcher, Coordinator, Coordinating

LEMMA ExpiryRemembers ==
  ASSUME AutoInv, HistoryInv, Expiry
  PROVE  Remembers
<1>1. row # None /\ UNCHANGED <<log, sched, proc>>
  BY DEF Expiry, OwnerExpires, WatcherExpires, ContenderExpires, world
<1>2. row \in Row
  BY <1>1, RowFacts
<1>3. \/ row' = [row EXCEPT !.live = FALSE]
      \/ row' = [row EXCEPT !.wlive = FALSE]
      \/ row' = [row EXCEPT !.clive = FALSE]
  BY DEF Expiry, OwnerExpires, WatcherExpires, ContenderExpires
<1>4. row' \in Row
  BY <1>2, <1>3 DEF Row
<1>5. Repeats(row, row')
  BY <1>2, <1>3, <1>4, AutoAssumption DEF Repeats, Row
<1>6. Expected' = Expected
  BY <1>1 DEF Expected
<1> QED BY <1>1, <1>5, <1>6, SameRemembers

LEMMA StartsRemember ==
  ASSUME AutoInv, HistoryInv, NEW t \in Tokens, OwnerStarts(t) \/ ContenderStarts(t)
  PROVE  Remembers
<1> DEFINE c == Coordinator("find", proc[t].fp, None)
           w == [Watcher("watch", proc[t].pred) EXCEPT !.reg = TRUE]
<1>1. UNCHANGED <<log, sched, row>>
  BY DEF OwnerStarts, ContenderStarts, ReadsRow, world
<1>2. Becomes(t, c) \/ Becomes(t, w) \/ Becomes(t, Nobody)
  BY DEF OwnerStarts, ContenderStarts, Exits
<1>3. /\ ~Owes(c) /\ c.pc # "boot"
      /\ ~Owes(w) /\ w.pc # "boot"
      /\ ~Owes(Nobody) /\ Nobody.pc # "boot"
  BY DEF Owes, Coordinator, Watcher, Nobody
<1> HIDE DEF c, w
<1> QED BY <1>1, <1>2, <1>3, OneRemembers

LEMMA PollKeepsRemembers ==
  ASSUME AutoInv, HistoryInv, NEW t \in Tokens, PollKeeps(t)
  PROVE  Remembers
<1>1. UNCHANGED <<log, sched>>
  BY DEF PollKeeps, world
<1>2. CASE Exits(t) /\ ReadsRow
  BY <1>1, <1>2, NobodyOwes, OneRemembers DEF Exits, ReadsRow
<1>3. CASE /\ Standing(t) = "queued"
           /\ row' = [Takes(t) EXCEPT !.clive = TRUE]
           /\ UNCHANGED <<runs, keys, proc>>
  <2>1. row # None
    BY <1>3 DEF Standing
  <2>2. row \in Row
    BY <2>1, RowFacts
  <2>3. row' \in Row
    <3>1. \/ row' = [row EXCEPT !.clive = TRUE]
          \/ row' = [[row EXCEPT !.cont = t, !.clive = TRUE] EXCEPT !.clive = TRUE]
      BY <1>3 DEF Takes
    <3> QED BY <2>2, <3>1 DEF Row
  <2>4. Repeats(row, row')
    BY <1>3, <2>2, <2>3, AutoAssumption DEF Takes, Row, Repeats
  <2>5. Expected' = Expected
    BY <1>3 DEF Expected
  <2> QED BY <1>1, <1>3, <2>1, <2>4, <2>5, SameRemembers
<1> QED BY <1>2, <1>3 DEF PollKeeps

LEMMA PollWaitsRemembers ==
  ASSUME AutoInv, HistoryInv, NEW t \in Tokens, PollWaits(t)
  PROVE  Remembers
<1> DEFINE r == Polled(t)
<1>1. row # None /\ UNCHANGED <<log, sched>>
  BY DEF PollWaits, world
<1>2. Same(row, r) /\ r \in Row
  BY <1>1, PolledFacts DEF Sound
<1>3. \/ row' = [r EXCEPT !.watcher = None, !.wlive = FALSE] /\ Exits(t)
      \/ /\ row' = [r EXCEPT !.wlive = TRUE,
                             !.status = IF busy \/ r.live \/ LockHeld THEN @ ELSE "read_wait"]
         /\ UNCHANGED proc
  BY DEF PollWaits
<1> HIDE DEF r
<1>4. /\ row' \in Row /\ row'.token = r.token /\ row'.fp = r.fp /\ row'.pre = r.pre
      /\ row'.pend = r.pend /\ row'.ppre = r.ppre
  BY <1>2, <1>3 DEF Row, Waits
<1>5. Repeats(row, row')
  BY <1>2, <1>4, AutoAssumption DEF Repeats, Same, Wants
<1>6. CASE UNCHANGED proc
  <2>1. Expected' = Expected
    BY <1>6 DEF Expected
  <2> QED BY <1>1, <1>5, <1>6, <2>1, SameRemembers
<1>7. CASE Exits(t)
  BY <1>1, <1>5, <1>7, NobodyOwes, OneRemembers DEF Exits
<1> QED BY <1>3, <1>6, <1>7

\* A watchdog that claims is not one that somebody waits for, nor is its successor.
LEMMA RelievedRemembers ==
  ASSUME AutoInv, HistoryInv, NEW t \in Tokens, CanClaim(t), NEW p,
         (~Owes(p) /\ p.pc # "boot") \/ p = proc[t],
         proc' = [proc EXCEPT ![t] = p, ![Fresh1] = Watcher("watch", t)]
  PROVE  /\ Expected' \subseteq Expected
         /\ \A u \in Tokens : \/ proc'[u] = proc[u] /\ u # t
                              \/ ~Owes(proc'[u]) /\ proc'[u].pc # "boot"
<1> DEFINE w == Watcher("watch", t)
<1>1. Fresh1 \in Tokens /\ Fresh1 # t
  BY SuccessorIs
<1>2. ~Owes(w) /\ w.pc # "boot" /\ ~Owes(p) /\ p.pc # "boot"
  BY NobodyOwes DEF CanClaim, Owes
<1> HIDE DEF w
<1>3. /\ proc'[t] = p /\ proc'[Fresh1] = w
      /\ \A u \in Tokens : u # t /\ u # Fresh1 => proc'[u] = proc[u]
  BY <1>1 DEF AutoInv, ProcInv, w
<1>4. Expected' \subseteq Expected
  BY <1>1, <1>2, <1>3 DEF Expected
<1> QED BY <1>1, <1>2, <1>3, <1>4

LEMMA ClaimAbortsRemembers ==
  ASSUME AutoInv, HistoryInv, NEW t \in Tokens, ClaimAborts(t)
  PROVE  Remembers
<1>1. CanClaim(t) /\ UNCHANGED <<row, log, sched>>
  BY DEF ClaimAborts, ReadsRow, world
<1>2. PICK p \in {proc[t], Nobody} :
        proc' = [proc EXCEPT ![t] = p, ![Fresh1] = Watcher("watch", t)]
  BY DEF ClaimAborts
<1>3. /\ Expected' \subseteq Expected
      /\ \A u \in Tokens : \/ proc'[u] = proc[u]
                           \/ ~Owes(proc'[u]) /\ proc'[u].pc # "boot"
  BY <1>1, <1>2, NobodyOwes, RelievedRemembers
<1> QED BY <1>1, <1>3, SameRemembers DEF Recalls

LEMMA StampCounts ==
  ASSUME WorldInv, NEW a, NEW l \in Logs, Status(l) = "uncompiled"
  PROVE  Counts(log, Filed(a, l))
BY ReadTells, TellsCounts

\* What a watchdog observes of a request r goes on from what r requires.
LEMMA ObservedRecounts ==
  ASSUME AutoInv, NEW r, Sound(r), NEW S, Recounts(log, r, S), ~Covered(r), ~CannotRead(r)
  PROVE  LET o == Observed(r)
         IN  /\ Counts(log, o.fp)
             /\ o.pend # None =>
                  /\ Counts(log, o.pend)
                  /\ o.pend[1] = o.fp[1] => Tells(log, o.pend, o.ppre)
             /\ o.fp[1] = r.fp[1] => Extends(o.pre, r.pre)
<1> DEFINE a == r.fp[1]
           ended == Status(a) = "covered"
           rest == r.pend # None /\ Status(r.pend[1]) = "uncompiled"
           other == rest /\ r.pend[1] # a
           first == ~Extends(Marks(a), r.pre) \/ (ended /\ ~Progressed(a, r.pre))
           s == [fp |-> Stamp(r.pend[1]), pre |-> r.ppre, pend |-> None, ppre |-> None]
           p == IF other THEN Stamp(r.pend[1]) ELSE None
           q == IF other THEN r.ppre ELSE None
           u == [fp |-> Stamp(a), pre |-> Required(a, r.pre), pend |-> p, ppre |-> q]
<1>1. /\ a \in Logs /\ (r.pend # None => r.pend[1] \in Logs)
      /\ r.pre \in Histories
  BY GenerationLog DEF Sound, Row
<1>2. Observed(r) = IF first THEN Retained(r) ELSE IF ended THEN s ELSE u
  BY DEF Observed
<1>3. \A l \in Logs : Stamp(l)[1] = l /\ (Status(l) = "uncompiled" => Counts(log, Stamp(l)))
  BY StampCounts DEF Stamp, Filed, AutoInv
<1>4. CASE first
  BY <1>1, <1>2, <1>4, ExtendsSame DEF Retained, Recounts
<1>5. CASE ~first /\ ended
  <2>1. r.pend # None /\ Status(r.pend[1]) # "covered"
    <3>1. Status(a) = "covered" /\ Progressed(a, r.pre)
      BY <1>5
    <3> QED BY <3>1 DEF Covered
  <2>2. Status(r.pend[1]) = "uncompiled"
    BY <2>1 DEF CannotRead, Status
  <2>3. Observed(r) = s
    BY <1>2, <1>5
  <2>4. Counts(log, s.fp) /\ s.fp[1] = r.pend[1] /\ s.pend = None
    BY <1>1, <1>3, <2>1, <2>2
  <2>5. r.pend[1] # r.fp[1]
    BY <1>5, <2>2
  <2> HIDE DEF s
  <2> QED BY <2>3, <2>4, <2>5
<1>6. CASE ~first /\ ~ended
  <2>1. Observed(r) = u
    BY <1>2, <1>6
  <2>2. Status(a) = "uncompiled"
    BY <1>6 DEF CannotRead, Status
  <2>3. Counts(log, u.fp) /\ u.fp[1] = a
    BY <1>1, <1>3, <2>2
  <2>4. p # None => Counts(log, p) /\ p[1] # a
    BY <1>1, <1>3
  <2>5. Extends(u.pre, r.pre)
    BY <1>1, RequiredExtends
  <2>6. u.pend = p
    OBVIOUS
  <2> HIDE DEF u, p
  <2> QED BY <2>1, <2>3, <2>4, <2>5, <2>6
<1> QED BY <1>4, <1>5, <1>6

\* The owner that a watchdog waits for is none itself.
LEMMA WatchdogUnexpected ==
  ASSUME ContentInv, NEW t \in Expected
  PROVE  proc[t].pc \notin {"watch", "contend", "boot"}
BY DEF ContentInv, Awaits, Straight, Expected, Coordinating

LEMMA PollClaimsRemembers ==
  ASSUME AutoInv, ContentInv, HistoryInv, NEW t \in Tokens, PollClaims(t)
  PROVE  Remembers
<1> DEFINE r == Polled(t)
           d == [DB EXCEPT !.row = r]
<1>1. CanClaim(t) /\ row # None /\ proc[t].pc = "watch" /\ UNCHANGED <<log, sched>>
  BY DEF PollClaims, CanClaim, world
<1>2. r.status # "failed" /\ ~CannotRead(r)
  BY <1>1 DEF CanClaim
<1>3. Sound(r) /\ Same(row, r) /\ Says(row, runs)
  BY <1>1, PolledFacts, RowFacts
<1>4. \/ Covered(d.row) /\ Commit(Deleted(d, TRUE)) /\ Exits(t)
      \/ ~Covered(d.row) /\ LET seen == Observed(d.row)
                            IN  /\ Commit(Claimed(t, d, Fresh1, seen))
                                /\ proc' = [proc EXCEPT ![t] = Coordinator("find", seen.fp, None),
                                                        ![Fresh1] = Watcher("watch", t)]
  BY DEF PollClaims
<1>5. Good(d) /\ d.row = r
  <2>1. Says(r, DB.runs) /\ IsDb(DB)
    BY <1>3, DBFields DEF AutoInv, Good, Says, Same, Wants
  <2> HIDE DEF r
  <2> QED BY <1>3, <2>1, PutRow
<1>6. r # None /\ r.fp = row.fp /\ r.pre = row.pre /\ Recounts(log, r, Expected)
  <2>1. Repeats(row, r)
    BY <1>3 DEF Same, Wants, Repeats
  <2>2. Recounts(log, row, Expected)
    BY <1>1 DEF HistoryInv
  <2>3. Recounts(log, r, Expected)
    BY <2>1, <2>2, RecountsOn
  <2> QED BY <2>1, <2>3 DEF Repeats
<1> HIDE DEF d, r
<1>7. CASE Covered(d.row) /\ Commit(Deleted(d, TRUE)) /\ Exits(t)
  <2>1. row' = None
    BY <1>5, <1>6, <1>7, DeletedGood DEF Commit
  <2> QED BY <1>1, <1>7, <2>1, NobodyOwes, OneRemembers DEF Exits
<1>8. CASE ~Covered(d.row) /\ LET seen == Observed(d.row)
                              IN  /\ Commit(Claimed(t, d, Fresh1, seen))
                                  /\ proc' = [proc EXCEPT ![t] = Coordinator("find", seen.fp, None),
                                                          ![Fresh1] = Watcher("watch", t)]
  <2> DEFINE seen == Observed(d.row)
             e == Claimed(t, d, Fresh1, seen)
             p == Coordinator("find", seen.fp, None)
  <2>1. /\ IsSeen(seen)
        /\ Counts(log, seen.fp)
        /\ seen.pend # None =>
             /\ Counts(log, seen.pend)
             /\ seen.pend[1] = seen.fp[1] => Tells(log, seen.pend, seen.ppre)
        /\ seen.fp[1] = row.fp[1] => Extends(seen.pre, row.pre)
    BY <1>2, <1>3, <1>5, <1>6, <1>8, ObservedIsSeen, ObservedRecounts
  <2>2. Commit(e) /\ proc' = [proc EXCEPT ![t] = p, ![Fresh1] = Watcher("watch", t)]
    BY <1>8
  <2>3. Fresh1 \in Tokens
    BY <1>1, SuccessorIs
  <2>4. ~Owes(p) /\ p.pc # "boot"
    BY NobodyOwes DEF Coordinating
  <2> HIDE DEF seen
  <2>5. /\ e.row # None /\ e.row.token = t /\ e.row.fp = seen.fp /\ e.row.pre = seen.pre
        /\ e.row.pend = seen.pend /\ e.row.ppre = seen.ppre
    BY <1>2, <1>5, <1>6, <2>1, <2>3, ClaimedGood
  <2> HIDE DEF e, p
  <2>6. row' = e.row
    BY <2>2 DEF Commit
  <2>7. /\ Expected' \subseteq Expected
        /\ \A u \in Tokens : \/ proc'[u] = proc[u] /\ u # t
                             \/ ~Owes(proc'[u]) /\ proc'[u].pc # "boot"
    BY <1>1, <2>2, <2>4, RelievedRemembers
  <2>8. t \notin Expected'
    BY <1>1, <2>7, WatchdogUnexpected
  <2>9. Recounts(log', row', Expected')
    BY <1>1, <2>1, <2>5, <2>6, <2>8 DEF Recounts
  <2>10. ASSUME NEW u \in Tokens PROVE Recalls(log', row', u, proc'[u], Expected')
    <3>1. Recalls(log, row, u, proc[u], Expected)
      BY DEF HistoryInv
    <3>2. u # t => Bears(row', u, proc[u])
      BY <2>5, <2>6 DEF Bears
    <3> QED BY <1>1, <2>7, <3>1, <3>2 DEF Recalls
  <2>11. Goes
    BY <2>1, <2>5, <2>6 DEF Goes
  <2>12. HistoryInv'
    BY <1>1, <2>9, <2>10 DEF HistoryInv
  <2> QED BY <2>11, <2>12 DEF Remembers
<1> QED BY <1>4, <1>7, <1>8

\* The row that is put back requires what its log shows, and so does its owner, however
\* far it has come since.
LEMMA BootstrapRemembers ==
  ASSUME AutoInv, HistoryInv, NEW t \in Tokens, Bootstrap(t)
  PROVE  Remembers
<1> DEFINE p == proc[t]
           f == p.fp
           c == Created(DB, f)
           r == Request(p.own, FALSE, t, f, p.pre, c.id)
           d == [c EXCEPT !.row = r]
           w == Watcher("watch", None)
<1>1. /\ p.pc = "boot" /\ p.own \in Tokens /\ f \in Generations /\ p.pre \in Histories
      /\ UNCHANGED <<log, sched>>
  BY ProcFacts DEF Bootstrap, world
<1>2. ~Owes(w) /\ w.pc # "boot"
  BY NobodyOwes
<1>3. \/ (Becomes(t, Nobody) \/ Becomes(t, w)) /\ ReadsRow
      \/ row = None /\ Shows(f[1], f) /\ Marks(f[1]) = p.pre /\ Commit(d) /\ Becomes(t, w)
  BY DEF Bootstrap, Exits
<1> HIDE DEF w
<1>4. CASE (Becomes(t, Nobody) \/ Becomes(t, w)) /\ ReadsRow
  BY <1>1, <1>2, <1>4, NobodyOwes, OneRemembers DEF ReadsRow
<1>5. CASE row = None /\ Shows(f[1], f) /\ Marks(f[1]) = p.pre /\ Commit(d) /\ Becomes(t, w)
  <2>1. IsDb(DB) /\ IsDb(c) /\ c \in Db
    BY <1>1, CreatedIsRun DEF AutoInv, Good, IsDb
  <2> HIDE DEF c
  <2>2. d.row = r
    BY <2>1 DEF Db
  <2>3. r.fp = f /\ r.pre = p.pre /\ r.pend = None /\ r.token = p.own
    BY DEF Request
  <2> HIDE DEF d, r
  <2>4. row' = r
    BY <1>5, <2>2 DEF Commit
  <2>5. Tells(log, f, p.pre)
    BY <1>1 DEF HistoryInv, Recalls
  <2>6. Recounts(log, r, Expected')
    BY <2>3, <2>5, TellsCounts DEF Recounts
  <2>7. Expected' \subseteq Expected
    BY <1>2, <1>5, OneExpects
  <2>8. proc'[t] = w /\ \A u \in Tokens : u # t => proc'[u] = proc[u]
    BY <1>5, ProcSet
  <2>9. ASSUME NEW u \in Tokens, Owes(proc[u]) PROVE Bears(r, u, proc[u])
    <3> SUFFICES ASSUME u = p.own, Alike(f, proc[u].fp) PROVE Extends(proc[u].pre, p.pre)
      BY <2>3 DEF Bears
    <3>1. u \in Expected
      BY <1>1 DEF Expected
    <3>2. Tells(log, proc[u].fp, proc[u].pre)
      BY <2>9, <3>1 DEF HistoryInv, Recalls
    <3>3. f[1] \in Logs /\ Shows(f[1], proc[u].fp)
      BY <1>1, <1>5, GenerationLog DEF Shows, Alike
    <3> QED BY <1>5, <3>2, <3>3, ShownTells DEF AutoInv
  <2>10. ASSUME NEW u \in Tokens PROVE Recalls(log', row', u, proc'[u], Expected')
    <3>1. Recalls(log, row, u, proc[u], Expected)
      BY DEF HistoryInv
    <3>2. CASE u = t
      BY <1>2, <2>8, <3>2 DEF Recalls
    <3>3. CASE u # t
      BY <1>1, <2>4, <2>7, <2>8, <2>9, <3>1, <3>3 DEF Recalls
    <3> QED BY <3>2, <3>3
  <2>11. HistoryInv'
    BY <1>1, <2>4, <2>6, <2>10 DEF HistoryInv
  <2>12. Goes
    BY <1>5 DEF Goes
  <2> QED BY <2>11, <2>12 DEF Remembers
<1> QED BY <1>3, <1>4, <1>5

LEMMA CrashRemembers ==
  ASSUME AutoInv, HistoryInv, NEW t \in Tokens, Crash(t) \/ SessionOpen(t) \/ RenewalLost(t)
  PROVE  Remembers
<1>1. Becomes(t, Nobody) /\ UNCHANGED <<row, log, sched>>
  BY DEF Crash, SessionOpen, RenewalLost, Exits, ReadsRow, world
<1> QED BY <1>1, NobodyOwes, OneRemembers

\* A registration waits for its own owner, who is new.
LEMMA SpawnedRemembers ==
  ASSUME AutoInv, NEW roles, NEW s \in sched,
         NEW owner \in Fresh, NEW dog \in Fresh, owner # dog,
         proc' = Spawned(roles, s[1], s[2], owner, dog)
  PROVE  /\ Expected' \subseteq Expected \cup {owner}
         /\ \A u \in Tokens : \/ proc'[u] = proc[u]
                              \/ /\ ~Owes(proc'[u])
                                 /\ proc'[u].pc = "boot" => proc'[u].fp = s[1] /\ proc'[u].pre = s[2]
         /\ ~Owes(proc'[owner])
<1> DEFINE b == [Nobody EXCEPT !.pc = "boot", !.own = owner, !.fp = s[1], !.pre = s[2]]
           c == Watcher("contend", row.watcher)
           o == Coordinator("owner", s[1], None)
<1>1. owner \in Tokens /\ dog \in Tokens
  BY FreshFacts
<1>2. b.pc = "boot" /\ b.fp = s[1] /\ b.pre = s[2] /\ b.own = owner
  BY DEF Nobody
<1>3. c.pc = "contend" /\ o.pc = "owner"
  BY DEF Watcher, Coordinator, Nobody
<1>4. proc' = [t \in Tokens |->
                 IF t = dog /\ "watchdog" \in roles THEN b
                 ELSE IF t = dog /\ "contender" \in roles THEN c
                 ELSE IF t = owner /\ "owner" \in roles THEN o
                 ELSE proc[t]]
  BY DEF Spawned
<1> HIDE DEF b, c, o
<1>5. ~Owes(b) /\ ~Owes(c) /\ ~Owes(o)
  BY <1>2, <1>3 DEF Owes
<1>6. ASSUME NEW u \in Tokens
      PROVE  proc'[u] = proc[u] \/ proc'[u] = b \/ proc'[u] = c \/ proc'[u] = o
  BY <1>4
<1>7. Expected' \subseteq Expected \cup {owner}
  BY <1>2, <1>3, <1>6 DEF Expected
<1>8. ~Owes(proc'[owner])
  <2>1. ~Owes(proc[owner])
    BY FreshFacts DEF Owes
  <2> QED BY <1>1, <1>5, <1>6, <2>1
<1>9. ASSUME NEW u \in Tokens
      PROVE  \/ proc'[u] = proc[u]
             \/ /\ ~Owes(proc'[u])
                /\ proc'[u].pc = "boot" => proc'[u].fp = s[1] /\ proc'[u].pre = s[2]
  BY <1>2, <1>3, <1>5, <1>6
<1> QED BY <1>7, <1>8, <1>9

\* What processes recall after a registration has spawned its roles; the request goes on
\* as r, if it is not a new one of the new owner.
LEMMA SpawnedRecall ==
  ASSUME AutoInv, HistoryInv, NEW roles, NEW s \in sched,
         NEW owner \in Fresh, NEW dog \in Fresh, owner # dog,
         proc' = Spawned(roles, s[1], s[2], owner, dog),
         NEW r,
         \/ r.token = owner
         \/ r = row
         \/ row # None /\ r.token = row.token /\ r.fp = row.fp /\ r.pre = row.pre
  PROVE  \A u \in Tokens : Recalls(log, r, u, proc'[u], Expected')
<1> SUFFICES ASSUME NEW u \in Tokens PROVE Recalls(log, r, u, proc'[u], Expected')
  OBVIOUS
<1>1. /\ Expected' \subseteq Expected \cup {owner}
      /\ \/ proc'[u] = proc[u]
         \/ /\ ~Owes(proc'[u])
            /\ proc'[u].pc = "boot" => proc'[u].fp = s[1] /\ proc'[u].pre = s[2]
      /\ ~Owes(proc'[owner])
  BY SpawnedRemembers
<1>2. Tells(log, s[1], s[2]) /\ Recalls(log, row, u, proc[u], Expected)
  BY DEF HistoryInv
<1>3. CASE u = owner
  BY <1>1, <1>2, <1>3 DEF Recalls
<1>4. CASE u # owner
  <2>1. Bears(row, u, proc[u]) => Bears(r, u, proc[u])
    BY <1>4 DEF Bears
  <2> QED BY <1>1, <1>2, <1>4, <2>1 DEF Recalls
<1> QED BY <1>3, <1>4

LEMMA ScheduleAbortsRemembers ==
  ASSUME AutoInv, HistoryInv, NEW s \in sched, ScheduleAborts(s)
  PROVE  Remembers
<1>1. Cardinality(Fresh) >= 2 /\ UNCHANGED <<row, log>> /\ sched' \subseteq sched
  BY DEF ScheduleAborts
<1> DEFINE b == Scheduling
<1>2. PICK unborn : proc' = Spawned(Roles(b.row) \ unborn, s[1], s[2], Fresh1, Fresh2)
  BY DEF ScheduleAborts
<1>3. Fresh1 \in Fresh /\ Fresh2 \in Fresh /\ Fresh1 # Fresh2
  BY <1>1, ScheduleFacts
<1> HIDE DEF b
<1>4. \A u \in Tokens : Recalls(log, row, u, proc'[u], Expected')
  BY <1>2, <1>3, SpawnedRecall
<1>5. row # None => Recounts(log, row, Expected')
  <2>1. Expected' \subseteq Expected \cup {Fresh1}
    BY <1>2, <1>3, SpawnedRemembers
  <2>2. row # None => row.token # Fresh1
    BY <1>3, FreshFacts
  <2> QED BY <2>1, <2>2 DEF HistoryInv, Recounts
<1>6. HistoryInv'
  BY <1>1, <1>4, <1>5 DEF HistoryInv
<1>7. Goes
  BY <1>1, RowFacts, ExtendsSame DEF Goes, Row
<1> QED BY <1>6, <1>7 DEF Remembers

LEMMA ScheduleRemembers ==
  ASSUME AutoInv, HistoryInv, NEW s \in sched, Schedule(s)
  PROVE  Remembers
<1>1. Cardinality(Fresh) >= 2 /\ UNCHANGED log /\ sched' \subseteq sched
  BY DEF Schedule
<1>2. CASE busy
  <2>1. UNCHANGED <<row, proc>>
    BY <1>2 DEF Schedule
  <2>2. Expected' = Expected
    BY <2>1 DEF Expected
  <2> QED BY <1>1, <2>1, <2>2, SameRemembers
<1>3. CASE ~busy
  <2> DEFINE b == Scheduling
             d == Registered(b, s[1], s[2], Fresh1, Fresh2)
  <2>1. Commit(d) /\ proc' = Spawned(Roles(b.row), s[1], s[2], Fresh1, Fresh2)
    BY <1>3 DEF Schedule
  <2>2. /\ s[1] \in Generations /\ s[2] \in Histories
        /\ Fresh1 \in Fresh /\ Fresh2 \in Fresh /\ Fresh1 # Fresh2
        /\ Fresh1 \in Tokens /\ Fresh2 \in Tokens
        /\ Good(b)
        /\ b.row # None => row # None /\ b.row.status # "failed"
    BY <1>1, ScheduleFacts
  <2>3. /\ b.row # None => Wants(row, b.row)
        /\ b.row = None => row = None \/ row.status = "failed"
    <3>1. CASE row # None /\ row.status = "failed"
      <4>1. \E no \in BOOLEAN : ~no /\ Scheduling = Deleted(DB, no)
        <5> WITNESS FALSE \in BOOLEAN
        <5> QED BY <3>1 DEF Scheduling
      <4>2. Scheduling.row = None
        BY <3>1, <4>1, DeletedGood, DBFields DEF AutoInv
      <4> QED BY <3>1, <4>2
    <3>2. CASE ~(row # None /\ row.status = "failed")
      <4>1. Scheduling = Ensured(DB)
        BY <3>2 DEF Scheduling
      <4>2. /\ (Scheduling.row = None) = (row = None)
            /\ row # None => Wants(row, Scheduling.row)
        BY <4>1, EnsuredGood, DBFields DEF AutoInv
      <4> QED BY <4>2
    <3> QED BY <3>1, <3>2
  <2> HIDE DEF b
  <2>4. /\ d.row # None
        /\ b.row = None =>
             d.row.token = Fresh1 /\ d.row.fp = s[1] /\ d.row.pre = s[2] /\ d.row.pend = None
        /\ b.row # None =>
             /\ d.row.token = b.row.token /\ d.row.fp = b.row.fp /\ d.row.pre = b.row.pre
             /\ d.row.pend = s[1] /\ d.row.ppre = s[2]
    BY <2>2, RegisteredGood
  <2> HIDE DEF d
  <2>5. row' = d.row
    BY <2>1 DEF Commit
  <2>6. Tells(log, s[1], s[2]) /\ Counts(log, s[1]) /\ (row # None => Recounts(log, row, Expected))
    BY TellsCounts DEF HistoryInv
  <2>7. Expected' \subseteq Expected \cup {Fresh1}
    BY <2>1, <2>2, SpawnedRemembers
  <2>8. /\ Recounts(log, row', Expected')
        /\ \/ row'.token = Fresh1
           \/ row # None /\ row'.token = row.token /\ row'.fp = row.fp /\ row'.pre = row.pre
    <3>1. CASE b.row = None
      BY <2>4, <2>5, <2>6, <3>1 DEF Recounts
    <3>2. CASE b.row # None
      <4>1. /\ row # None /\ row'.token = row.token /\ row'.fp = row.fp /\ row'.pre = row.pre
            /\ row'.pend = s[1] /\ row'.ppre = s[2]
        BY <2>2, <2>3, <2>4, <2>5, <3>2 DEF Wants
      <4>2. row.token # Fresh1
        BY <2>2, <4>1, FreshFacts
      <4> QED BY <2>6, <2>7, <4>1, <4>2 DEF Recounts
    <3> QED BY <3>1, <3>2
  <2>9. \A u \in Tokens : Recalls(log, row', u, proc'[u], Expected')
    BY <2>1, <2>2, <2>8, SpawnedRecall
  <2>10. HistoryInv'
    BY <1>1, <2>8, <2>9 DEF HistoryInv
  <2>11. Goes
    <3>1. ASSUME row # None, row.status # "failed" PROVE row'.pre = row.pre /\ row.pre \in Histories
      BY <2>2, <2>3, <2>4, <2>5, <3>1, RowFacts DEF Wants, Row
    <3> QED BY <3>1, ExtendsSame DEF Goes
  <2> QED BY <2>10, <2>11 DEF Remembers
<1> QED BY <1>2, <1>3

-----------------------------------------------------------------------------
(* ... and the steps of owners                                               *)

LEMMA YieldsRepeats ==
  ASSUME AutoInv, row # None, NEW reason \in Waits, Yields(reason)
  PROVE  Repeats(row, row')
<1>1. row \in Row
  BY RowFacts
<1>2. row' = [row EXCEPT !.live = FALSE, !.status = reason]
  BY DEF Yields
<1>3. row' \in Row
  BY <1>1, <1>2 DEF Row
<1> QED BY <1>1, <1>2, <1>3, AutoAssumption DEF Repeats, Row

\* What a coordinator t takes from its row goes on from the row.
LEMMA OwnedBears ==
  ASSUME AutoInv, HistoryInv, NEW t \in Tokens, NEW d, NEW p,
         row # None => Wants(row, d.row), (d.row = None) = (row = None),
         ~Lost(t, d), p.fp = proc[t].fp, p.pre = d.row.pre
  PROVE  /\ p.pre \in Histories /\ Bears(row, t, p)
         /\ t \in Expected => Tells(log, p.fp, p.pre)
<1>1. row # None /\ row.token = t /\ p.pre = row.pre /\ Alike(row.fp, p.fp)
  BY DEF Lost, Wants
<1>2. row.pre \in Histories
  BY <1>1, RowFacts DEF Row
<1>3. Recounts(log, row, Expected)
  BY <1>1 DEF HistoryInv
<1>4. Bears(row, t, p)
  BY <1>1, <1>2, ExtendsSame DEF Bears
<1>5. t \in Expected => Tells(log, row.fp, row.pre)
  BY <1>1, <1>3 DEF Recounts
<1> QED BY <1>1, <1>2, <1>4, <1>5, TellsAlike

LEMMA EnsuredRepeats ==
  ASSUME AutoInv, Commit(Ensured(DB))
  PROVE  LET d == Ensured(DB)
         IN  /\ (d.row = None) = (row = None) /\ (row # None => Wants(row, d.row))
             /\ row' = row \/ (row # None /\ Repeats(row, row'))
<1> DEFINE d == Ensured(DB)
<1>1. (d.row = None) = (row = None) /\ (row # None => Wants(row, d.row))
  BY EnsuredGood, DBFields DEF AutoInv
<1> HIDE DEF d
<1>2. row' = d.row
  BY DEF Commit, d
<1> QED BY <1>1, <1>2 DEF Repeats, Wants, d

LEMMA OwnedRemembers ==
  ASSUME AutoInv, HistoryInv, NEW t \in Tokens, Owned(t)
  PROVE  Remembers
<1> DEFINE d == Ensured(DB)
           q == [Coordinator("launch", proc[t].fp, proc[t].lp) EXCEPT
                   !.pre = d.row.pre, !.rid = d.row.run]
<1>1. /\ Commit(Ensured(DB)) /\ UNCHANGED <<log, sched>>
      /\ Becomes(t, IF Lost(t, d) THEN Nobody ELSE q)
  BY DEF Owned, world
<1>2. q.pc = "launch" /\ q.fp = proc[t].fp /\ q.pre = d.row.pre
  BY DEF Coordinator, Nobody
<1>3. /\ (d.row = None) = (row = None) /\ (row # None => Wants(row, d.row))
      /\ row' = row \/ (row # None /\ Repeats(row, row'))
  BY <1>1, EnsuredRepeats
<1> HIDE DEF d, q
<1>4. CASE Lost(t, d)
  BY <1>1, <1>3, <1>4, NobodyOwes, OneRemembers
<1>5. CASE ~Lost(t, d)
  BY <1>1, <1>2, <1>3, <1>5, OwnedBears, OneRemembers
<1> QED BY <1>4, <1>5

\* A coordinator that looks at its log owes what the row requires, or nothing.
LEMMA LooksOwes ==
  ASSUME NEW f, NEW a, NEW r
  PROVE  LET p == Looks(f, a, r)
         IN  p.pc # "boot" /\ (Owes(p) => p.fp = f /\ p.pre = r.pre)
<1> DEFINE b == r.pend[1]
           q1 == Failing(f, a, TRUE, None)
           q2 == [Coordinator("finish", f, a) EXCEPT !.reset = TRUE]
           q3 == Failing(f, a, FALSE, r.pre)
           q4 == Failing(f, b, TRUE, None)
           q5 == [Coordinator("promote", f, a) EXCEPT !.pend = r.pend]
<1>1. Looks(f, a, r) \in {q1, q2, q3, q4, q5, Nobody}
  BY DEF Looks, NoProgress
<1>2. /\ q1.pc = "fail" /\ q1.pre = None /\ q4.pc = "fail" /\ q4.pre = None
      /\ q3.pc = "fail" /\ q3.pre = r.pre /\ q3.fp = f
      /\ q2.pc = "finish" /\ q5.pc = "promote" /\ Nobody.pc = "none"
  BY DEF Failing, Coordinator, Nobody
<1> HIDE DEF q1, q2, q3, q4, q5
<1> QED BY <1>1, <1>2 DEF Owes

LEMMA FindRemembers ==
  ASSUME AutoInv, HistoryInv, NEW t \in Tokens, Find(t)
  PROVE  Remembers
<1> DEFINE f == proc[t].fp
           d == Ensured(DB)
           c == Coordinator("owned", f, f[2])
           q == Looks(f, d.row.fp[1], d.row)
<1>1. /\ UNCHANGED <<log, sched>>
      /\ \/ ReadsRow /\ Becomes(t, c)
         \/ Commit(Ensured(DB)) /\ Becomes(t, IF Lost(t, d) THEN Nobody ELSE q)
  BY DEF Find, world
<1>2. ~Owes(c) /\ c.pc # "boot"
  BY NobodyOwes DEF Coordinating
<1>3. q.pc # "boot" /\ (Owes(q) => q.fp = proc[t].fp /\ q.pre = d.row.pre)
  BY LooksOwes
<1>4. CASE ReadsRow /\ Becomes(t, c)
  <2> HIDE DEF c
  <2> QED BY <1>1, <1>2, <1>4, OneRemembers DEF ReadsRow
<1>5. CASE Commit(Ensured(DB)) /\ Becomes(t, IF Lost(t, d) THEN Nobody ELSE q)
  <2>1. /\ (d.row = None) = (row = None) /\ (row # None => Wants(row, d.row))
        /\ row' = row \/ (row # None /\ Repeats(row, row'))
    BY <1>5, EnsuredRepeats
  <2> HIDE DEF d, q
  <2>2. CASE Lost(t, d)
    BY <1>1, <1>5, <2>1, <2>2, NobodyOwes, OneRemembers
  <2>3. CASE ~Lost(t, d)
    BY <1>1, <1>3, <1>5, <2>1, <2>3, OwnedBears, OneRemembers
  <2> QED BY <2>2, <2>3
<1> QED BY <1>1, <1>4, <1>5

LEMMA FailingIsSo ==
  ASSUME NEW f, NEW l, NEW reset, NEW pre
  PROVE  LET p == Failing(f, l, reset, pre) IN p.pc = "fail" /\ p.fp = f /\ p.pre = pre
BY DEF Failing, Coordinator, Nobody

LEMMA OwesStill ==
  ASSUME HistoryInv, NEW t \in Tokens, Owes(proc[t]), NEW p, p.fp = proc[t].fp, p.pre = proc[t].pre
  PROVE  /\ p.pre \in Histories /\ Bears(row, t, p)
         /\ t \in Expected => Tells(log, p.fp, p.pre)
<1>1. Recalls(log, row, t, proc[t], Expected)
  BY DEF HistoryInv
<1> QED BY <1>1 DEF Recalls, Bears

\* A coordinator whose launch is refused goes on with what it had, or forgets it.
LEMMA LaunchRefusedRemembers ==
  ASSUME AutoInv, HistoryInv, NEW t \in Tokens, LaunchRefused(t) \/ LaunchAborts(t)
  PROVE  Remembers
<1> DEFINE p == proc[t]
           q1 == Failing(p.fp, p.lp, TRUE, None)
           q2 == Failing(p.fp, p.lp, FALSE, p.pre)
           q3 == Coordinator("find", p.fp, None)
<1>1. p.pc = "launch" /\ UNCHANGED <<log, sched>>
  BY DEF LaunchRefused, LaunchAborts, MayLaunch, world
<1>2. /\ Becomes(t, Nobody) \/ Becomes(t, q1) \/ Becomes(t, q2) \/ Becomes(t, q3)
      /\ UNCHANGED row \/ (row # None /\ Yields("queue_wait"))
  BY DEF LaunchRefused, LaunchAborts, Exits, ReadsRow, Holds, OwnedBy
<1>3. /\ q1.pc = "fail" /\ q1.pre = None
      /\ q2.pc = "fail" /\ q2.fp = p.fp /\ q2.pre = p.pre
      /\ q3.pc = "find"
  BY DEF Failing, Coordinator, Nobody
<1>4. ~Owes(q1) /\ ~Owes(q3) /\ ~Owes(Nobody)
  BY <1>3, NobodyOwes DEF Owes
<1>5. Owes(q2) => Owes(p)
  BY <1>1, <1>3 DEF Owes
<1>6. row' = row \/ row' = None \/ (row # None /\ Repeats(row, row'))
  <2>1. "queue_wait" \in Waits
    BY DEF Waits
  <2> QED BY <1>2, <2>1, YieldsRepeats
<1> HIDE DEF q1, q2, q3
<1>7. CASE Becomes(t, Nobody) \/ Becomes(t, q1) \/ Becomes(t, q3)
  BY <1>1, <1>3, <1>4, <1>6, <1>7, NobodyOwes, OneRemembers
<1>8. CASE Becomes(t, q2)
  BY <1>1, <1>3, <1>5, <1>6, <1>8, OwesStill, OneRemembers
<1> QED BY <1>2, <1>7, <1>8

\* A coordinator that launches takes the markers it sees: they go on from what it had.
LEMMA LaunchRemembers ==
  ASSUME AutoInv, HistoryInv, NEW t \in Tokens, Launch(t)
  PROVE  Remembers
<1> DEFINE p == proc[t]
           l == p.lp
           q == [Coordinator("wait", p.fp, l) EXCEPT !.pre = Marks(l), !.rid = p.rid]
<1>1. /\ p.pc = "launch" /\ Fits(t) /\ row # None /\ UNCHANGED <<log, sched>>
      /\ Becomes(t, q) /\ Commit(Moved(DB, row.run, "running"))
  BY DEF Launch, MayLaunch, Holds, OwnedBy, world
<1>2. q.pc = "wait" /\ q.fp = p.fp /\ q.pre = Marks(l)
  BY DEF Coordinator, Nobody
<1>3. l \in Logs /\ p.fp \in Generations /\ Marks(l) \in Histories
  BY <1>1, ProcFacts, LogFacts DEF Coordinating, AutoInv
<1>4. UNCHANGED row
  <2>1. row.run \in RunIds \cup {None} /\ IsDb(DB)
    BY <1>1, RowFacts DEF AutoInv, Good, Row
  <2>2. Moved(DB, row.run, "running").row = row
    BY <2>1, RunMoves
  <2> QED BY <1>1, <2>2 DEF Commit
<1>5. Extends(Marks(l), p.pre) /\ Shows(l, p.fp)
  BY <1>1 DEF Fits
<1>6. Tells(log, p.fp, Marks(l))
  <2>1. Tells(log, Stamp(l), Marks(l))
    BY <1>3, <1>5, ReadTells DEF AutoInv, Shows, Stamp
  <2> QED BY <1>5, <2>1, TellsAlike DEF Shows
<1> HIDE DEF q
<1>7. ASSUME row.token = t, Alike(row.fp, p.fp) PROVE Extends(Marks(l), row.pre)
  <2>1. p.pre \in Histories /\ Bears(row, t, p)
    BY <1>1 DEF HistoryInv, Recalls, Owes
  <2>2. Extends(p.pre, row.pre)
    BY <1>1, <1>7, <2>1 DEF Bears
  <2>3. row.pre \in Histories
    BY <1>1, RowFacts DEF Row
  <2> QED BY <1>3, <1>5, <2>1, <2>2, <2>3, ExtendsOn
<1>8. Bears(row, t, q)
  BY <1>2, <1>7 DEF Bears
<1> QED BY <1>1, <1>2, <1>3, <1>4, <1>6, <1>8, OneRemembers

LEMMA ReapRemembers ==
  ASSUME AutoInv, HistoryInv, NEW t \in Tokens, Reap(t)
  PROVE  Remembers
<1> DEFINE p == proc[t]
           l == p.lp
           q1 == Coordinator("defer", p.fp, l)
           q2 == Failing(p.fp, l, TRUE, None)
           q3 == Coordinator("finish", p.fp, l)
<1>1. p.pc = "wait" /\ UNCHANGED <<row, log, sched>>
  BY DEF Reap, ReadsRow, world
<1>2. \/ Becomes(t, q1) \/ Becomes(t, q2) \/ Becomes(t, q3)
      \/ \E reset : Becomes(t, Failing(p.fp, l, reset, p.pre)) \/ Becomes(t, Failing(p.fp, l, reset, None))
  BY DEF Reap
<1>3. q1.pc = "defer" /\ q2.pc = "fail" /\ q2.pre = None /\ q3.pc = "finish"
  BY DEF Failing, Coordinator, Nobody
<1>4. ~Owes(q1) /\ ~Owes(q2) /\ ~Owes(q3)
  BY <1>3 DEF Owes
<1> HIDE DEF q1, q2, q3
<1>5. CASE Becomes(t, q1) \/ Becomes(t, q2) \/ Becomes(t, q3)
  BY <1>1, <1>3, <1>4, <1>5, OneRemembers
<1>6. ASSUME NEW reset,
             Becomes(t, Failing(p.fp, l, reset, p.pre)) \/ Becomes(t, Failing(p.fp, l, reset, None))
      PROVE  Remembers
  <2> DEFINE u == Failing(p.fp, l, reset, p.pre)
             v == Failing(p.fp, l, reset, None)
  <2>1. u.pc = "fail" /\ u.fp = p.fp /\ u.pre = p.pre /\ v.pc = "fail" /\ v.pre = None
    BY FailingIsSo
  <2>2. Becomes(t, u) \/ Becomes(t, v)
    BY <1>6
  <2> HIDE DEF u, v
  <2>3. Owes(u) => Owes(p)
    BY <1>1, <2>1 DEF Owes
  <2>4. ~Owes(v)
    BY <2>1 DEF Owes
  <2>5. CASE Becomes(t, u)
    BY <1>1, <2>1, <2>3, <2>5, OwesStill, OneRemembers
  <2>6. CASE Becomes(t, v)
    BY <1>1, <2>1, <2>4, <2>6, OneRemembers
  <2> QED BY <2>2, <2>5, <2>6
<1> QED BY <1>2, <1>5, <1>6

\* A coordinator that yields, or leaves the row as it is, owes nothing any more.
LEMMA YieldRemembers ==
  ASSUME AutoInv, HistoryInv, UNCHANGED <<log, sched>>,
         NEW t \in Tokens, NEW p, p.pc # "boot", ~Owes(p), Becomes(t, p),
         UNCHANGED row \/ (row # None /\ \E reason \in {"queue_wait", "read_wait"} : Yields(reason))
  PROVE  Remembers
<1>1. row' = row \/ (row # None /\ Repeats(row, row'))
  <2>1. \A reason \in {"queue_wait", "read_wait"} : reason \in Waits
    BY DEF Waits
  <2> QED BY <2>1, YieldsRepeats
<1> QED BY <1>1, OneRemembers

\* The pending generation of the log of the active one goes on from it.
LEMMA PromoteRemembers ==
  ASSUME AutoInv, HistoryInv, NEW t \in Tokens, Promote(t)
  PROVE  Remembers
<1> DEFINE p == proc[t]
           again == Coordinator("find", p.fp, None)
           onward == Coordinator("owned", p.pend, p.pend[1])
           mine == Holds(t) /\ row.pend = p.pend
           a == p.lp
           same == row.pend[1] = row.fp[1]
           fits == /\ Extends(Marks(a), row.pre)
                   /\ IF same THEN Shows(a, p.pend)
                      ELSE Status(a) = "covered" /\ Progressed(a, row.pre)
<1>1. /\ p.pc \in Coordinating /\ p.pend # None /\ a \in Logs /\ UNCHANGED <<log, sched>>
  BY ProcFacts, GenerationLog DEF Promote, Coordinating, world
<1>2. /\ ~Owes(again) /\ again.pc # "boot"
      /\ ~Owes(onward) /\ onward.pc # "boot"
  BY NobodyOwes DEF Coordinating
<1>3. \/ ReadsRow /\ Becomes(t, again)
      \/ /\ mine /\ Becomes(t, again)
         /\ \E s \in {"queue_wait", "read_wait"} : Yields(s)
      \/ mine /\ fits /\ Commit(Promoted(DB)) /\ Becomes(t, onward)
  BY DEF Promote
<1> HIDE DEF again, onward, fits
<1>4. ASSUME mine PROVE row # None /\ row.token = t /\ row.pend # None
  BY <1>1, <1>4 DEF Holds, OwnedBy
<1>5. CASE \/ ReadsRow /\ Becomes(t, again)
           \/ /\ mine /\ Becomes(t, again)
              /\ \E s \in {"queue_wait", "read_wait"} : Yields(s)
  BY <1>1, <1>2, <1>4, <1>5, YieldRemembers DEF ReadsRow
<1>6. CASE mine /\ fits /\ Commit(Promoted(DB)) /\ Becomes(t, onward)
  <2> DEFINE d == Promoted(DB)
  <2>1. row # None /\ row.token = t /\ row.pend # None /\ row.pend = p.pend
    BY <1>4, <1>6
  <2>2. /\ d.row # None /\ d.row.fp = row.pend /\ d.row.pre = row.ppre
        /\ d.row.pend = None /\ d.row.token = row.token
    BY <2>1, PromotedGood, DBFields DEF AutoInv
  <2>3. Commit(d)
    BY <1>6
  <2> HIDE DEF d
  <2>4. row' = d.row
    BY <2>3 DEF Commit
  <2>5. Recounts(log, row, Expected)
    BY <2>1 DEF HistoryInv
  <2>6. Recounts(log, row', Expected)
    BY <2>1, <2>2, <2>4, <2>5 DEF Recounts
  <2>7. ASSUME row.pend[1] = row.fp[1] PROVE Extends(row.ppre, row.pre)
    <3>1. Tells(log, row.pend, row.ppre)
      BY <2>1, <2>5, <2>7 DEF Recounts
    <3>2. Extends(Marks(a), row.pre) /\ Shows(a, row.pend)
      BY <1>6, <2>1, <2>7 DEF fits
    <3>3. Extends(row.ppre, Marks(a))
      BY <1>1, <3>1, <3>2, ShownTells DEF AutoInv
    <3>4. row.ppre \in Histories /\ row.pre \in Histories /\ Marks(a) \in Histories
      <4>1. Sound(row) /\ row \in Row
        BY <2>1, RowFacts
      <4> QED BY <1>1, <2>1, <4>1, LogFacts DEF Sound, Row, AutoInv
    <3> QED BY <3>2, <3>3, <3>4, ExtendsOn
  <2>8. Goes
    BY <2>2, <2>4, <2>7 DEF Goes
  <2> QED BY <1>1, <1>2, <1>6, <2>1, <2>2, <2>4, <2>6, <2>8, OwnRemembers
<1> QED BY <1>3, <1>5, <1>6

\* What a failure stores of the generation it saw.
LEMMA FailureRecounts ==
  ASSUME AutoInv, row # None, NEW S, Recounts(log, row, S), NEW l \in Logs,
         NEW pre \in Histories \cup {None},
         pre # None => Extends(pre, row.pre) /\ (row.token \in S => Tells(log, row.fp, pre))
  PROVE  LET s == SeenAtFailure(l, row, pre)
         IN  /\ Counts(log, s.fp) /\ (row.token \in S => Tells(log, s.fp, s.pre))
             /\ \/ row.pend # None /\ s.fp = row.pend /\ row.pend[1] # row.fp[1]
                \/ s.fp[1] = row.fp[1] /\ Extends(s.pre, row.pre)
<1> DEFINE f == row.fp
           h == row.pre
           seen == SeenAtFailure(l, row, pre)
           other == Switches(l, row) /\ Extends(Marks(l), h)
           fresh == Status(l) = "uncompiled" /\ Extends(Marks(l), h)
           g == IF fresh THEN Filed(f[1], l) ELSE f
           k == Required(l, h)
<1>1. f \in Generations /\ h \in Histories /\ k \in Histories /\ log[f[2]].m \in Nat
  BY RowFacts, LogFacts, LogType, GenerationLog DEF Row, AutoInv
<1>2. \A x, y : Generation(x, y).fp = x /\ Generation(x, y).pre = y
  BY DEF Generation
<1>3. Counts(log, f) /\ (row.token \in S => Tells(log, f, h))
  BY DEF Recounts
<1>4. CASE pre # None
  <2>1. seen.fp = f /\ seen.pre = pre
    BY <1>2, <1>4 DEF SeenAtFailure
  <2> HIDE DEF seen
  <2> QED BY <1>3, <1>4, <2>1 DEF seen
<1>5. CASE pre = None /\ other
  <2>1. seen.fp = row.pend /\ seen.pre = row.ppre
    BY <1>2, <1>5 DEF SeenAtFailure
  <2>2. row.pend # None /\ row.pend[1] # f[1]
    BY <1>5 DEF Switches, OtherPending
  <2>3. Counts(log, row.pend) /\ (row.token \in S => Tells(log, row.pend, row.ppre))
    BY <2>2 DEF Recounts
  <2> HIDE DEF seen
  <2> QED BY <2>1, <2>2, <2>3 DEF seen
<1>6. CASE pre = None /\ ~other
  <2>1. seen.fp = g /\ seen.pre = k
    BY <1>2, <1>6 DEF SeenAtFailure
  <2>2. Extends(k, h)
    BY <1>1, RequiredExtends
  <2>3. ASSUME fresh PROVE Tells(log, Filed(f[1], l), k) /\ Filed(f[1], l)[1] = f[1]
    BY <1>1, <2>3, ReadTells DEF AutoInv, Filed
  <2>4. row.token \in S => Tells(log, f, k)
    BY <1>1, <1>3, <2>2, TellsOn
  <2>5. Counts(log, g) /\ (row.token \in S => Tells(log, g, k)) /\ g[1] = f[1]
    BY <1>3, <2>3, <2>4, TellsCounts
  <2> HIDE DEF seen, g, k
  <2> QED BY <2>1, <2>2, <2>5 DEF seen
<1> QED BY <1>4, <1>5, <1>6

LEMMA FailRemembers ==
  ASSUME AutoInv, ContentInv, HistoryInv, NEW t \in Tokens, Fail(t)
  PROVE  Remembers
<1> DEFINE p == proc[t]
           l == p.lp
           pre == p.pre
           reset == p.reset
           seen == SeenAtFailure(l, row, pre)
           d == Failed(DB, l, seen, reset)
<1>1. /\ p.pc = "fail" /\ p.pc \in Coordinating /\ l \in Logs /\ pre \in Histories \cup {None}
      /\ reset \in BOOLEAN /\ Becomes(t, Nobody) /\ UNCHANGED <<log, sched>>
  BY ProcFacts DEF Fail, Coordinating, Exits, world
<1>2. CASE ReadsRow
  BY <1>1, <1>2, NobodyOwes, OneRemembers DEF ReadsRow
<1>3. CASE OwnedBy(t) /\ Commit(d)
  <2>1. /\ row # None /\ row.token = t /\ row.status # "failed" /\ Alike(row.fp, p.fp)
        /\ Good(DB) /\ DB.row = row /\ ~DB.full /\ Sound(row)
    BY <1>1, <1>3, OwnedFacts DEF Coordinating, OwnedBy
  <2>2. Recounts(log, row, Expected) /\ Honest(log, row)
    BY <2>1 DEF HistoryInv, ContentInv
  <2>3. ASSUME pre # None
        PROVE  Extends(pre, row.pre) /\ (row.token \in Expected => Tells(log, row.fp, pre))
    <3>1. Bears(row, t, p) /\ (t \in Expected => Tells(log, p.fp, pre))
      BY <1>1, <2>3 DEF HistoryInv, Recalls, Owes
    <3>2. t \in Expected => Tells(log, row.fp, pre)
      BY <2>1, <3>1, TellsAlike
    <3> QED BY <2>1, <3>1, <3>2 DEF Bears
  <2>4. seen.fp \in Generations /\ seen.pre \in Histories
    BY <1>1, <2>1, ReadingsFit
  <2> HIDE DEF l, pre, reset
  <2>5. /\ Counts(log, seen.fp) /\ (row.token \in Expected => Tells(log, seen.fp, seen.pre))
        /\ \/ row.pend # None /\ seen.fp = row.pend /\ row.pend[1] # row.fp[1]
           \/ seen.fp[1] = row.fp[1] /\ Extends(seen.pre, row.pre)
    BY <1>1, <2>1, <2>2, <2>3, FailureRecounts
  <2> HIDE DEF seen
  <2>6. /\ d.row # None /\ d.row.token = t
        /\ d.row.fp = (IF Alike(seen.fp, row.fp) THEN row.fp ELSE seen.fp)
        /\ d.row.pend \in {row.pend, None} /\ d.row.pre = seen.pre
        /\ d.row.pend # None =>
             /\ d.row.ppre = row.ppre
             /\ d.row.fp = row.fp \/ d.row.pend[1] # d.row.fp[1]
    BY <1>1, <2>1, <2>4, FailedGood
  <2>7. Commit(d)
    BY <1>3
  <2> HIDE DEF d
  <2>8. row' = d.row
    BY <2>7 DEF Commit
  <2>9. /\ Counts(log, row'.fp)
        /\ t \in Expected => Tells(log, row'.fp, row'.pre)
    <3>1. CASE Alike(seen.fp, row.fp)
      BY <2>1, <2>2, <2>5, <2>6, <2>8, <3>1, TellsAlike DEF Recounts
    <3>2. CASE ~Alike(seen.fp, row.fp)
      BY <2>1, <2>5, <2>6, <2>8, <3>2
    <3> QED BY <3>1, <3>2
  <2>10. Recounts(log, row', Expected)
    BY <2>1, <2>2, <2>6, <2>8, <2>9 DEF Recounts
  <2>11. Goes
    <3> SUFFICES ASSUME row'.fp[1] = row.fp[1], OfItsLog(row.fp), OfItsLog(row'.fp)
                 PROVE  Extends(row'.pre, row.pre)
      BY DEF Goes
    <3>1. CASE row.pend # None /\ seen.fp = row.pend /\ row.pend[1] # row.fp[1]
      <4>1. OfItsLog(row.pend)
        BY <2>2, <3>1 DEF Honest
      <4>2. ~Alike(row.pend, row.fp)
        BY <3>1, <4>1 DEF Alike, OfItsLog
      <4> QED BY <2>6, <2>8, <3>1, <4>2
    <3>2. CASE seen.fp[1] = row.fp[1] /\ Extends(seen.pre, row.pre)
      BY <2>6, <2>8, <3>2
    <3> QED BY <2>5, <3>1, <3>2
  <2> QED BY <1>1, <2>1, <2>6, <2>8, <2>10, <2>11, NobodyOwes, OwnRemembers
<1> QED BY <1>2, <1>3 DEF Fail

\* A covered log has no entry that a generation could start with.
LEMMA CoveredTells ==
  ASSUME WorldInv, NEW f \in Generations, Counts(log, f), Status(f[2]) = "covered", NEW h
  PROVE  Tells(log, f, h)
<1>1. f[2] \in Logs /\ f[3] \in Nat /\ f[4] \in Nat
  BY DEF Generations
<1>2. log[f[2]].c = log[f[2]].n
  BY DEF Status
<1>3. log[f[2]].n \in Nat /\ f[3] < f[4] /\ f[4] <= log[f[2]].n
  BY <1>1, LogType DEF Written, Counts
<1>4. log[f[2]].c # f[3]
  BY <1>1, <1>2, <1>3
<1> QED BY <1>4 DEF Tells, Counts

\* What a coordinator stores of the generation it hands over to.
LEMMA HandedRecounts ==
  ASSUME AutoInv, row # None, NEW S, Recounts(log, row, S), NEW l \in Logs, NEW s,
         \/ s = Handed(l, row) /\ Progressed(l, row.pre)
         \/ s = SeenAtDefer(l, row) /\ Extends(Marks(l), row.pre),
         Switches(l, row) \/ Status(l) = "uncompiled"
  PROVE  /\ Counts(log, s.fp) /\ (row.token \in S => Tells(log, s.fp, s.pre))
         /\ \/ Switches(l, row) /\ s.fp = row.pend /\ row.pend[1] # row.fp[1]
            \/ s.fp[1] = row.fp[1] /\ Extends(s.pre, row.pre)
<1> DEFINE f == row.fp
           h == row.pre
           g == Filed(f[1], l)
<1>1. h \in Histories /\ Marks(l) \in Histories
  BY RowFacts, LogFacts DEF Row, AutoInv
<1>2. \A x, y : Generation(x, y).fp = x /\ Generation(x, y).pre = y
  BY DEF Generation
<1>3. CASE Switches(l, row)
  <2>1. s.fp = row.pend /\ s.pre = row.ppre
    BY <1>2, <1>3 DEF Handed, SeenAtDefer
  <2>2. row.pend # None /\ row.pend[1] # row.fp[1]
    BY <1>3 DEF Switches, OtherPending
  <2>3. Counts(log, row.pend) /\ (row.token \in S => Tells(log, row.pend, row.ppre))
    BY <2>2 DEF Recounts
  <2> QED BY <1>3, <2>1, <2>2, <2>3
<1>4. CASE ~Switches(l, row)
  <2>1. Status(l) = "uncompiled"
    BY <1>4
  <2>2. s.fp = g /\ s.pre \in {Marks(l), Required(l, h)}
    BY <1>2, <1>4 DEF Handed, SeenAtDefer
  <2>3. Extends(Marks(l), h)
    BY DEF Progressed, Advances
  <2>4. Tells(log, g, Marks(l)) /\ Tells(log, g, Required(l, h))
    BY <1>1, <2>1, <2>3, ReadTells DEF AutoInv
  <2>5. g[1] = f[1]
    BY DEF Filed
  <2>6. Extends(s.pre, h) /\ Tells(log, g, s.pre)
    BY <1>1, <2>2, <2>3, <2>4, RequiredExtends
  <2> HIDE DEF g
  <2> QED BY <2>2, <2>5, <2>6, TellsCounts
<1> QED BY <1>3, <1>4

\* The history of a request that goes on under the same name goes on.
LEMMA HandedGoes ==
  ASSUME row' # None =>
           \/ row'.fp = row.pend /\ row.pend[1] # row.fp[1]
           \/ Extends(row'.pre, row.pre)
  PROVE  Goes
BY DEF Goes

LEMMA FinishRemembers ==
  ASSUME AutoInv, HistoryInv, NEW t \in Tokens, Finish(t)
  PROVE  Remembers
<1> DEFINE p == proc[t]
           l == p.lp
           next == Handed(l, row)
           d == Finished(DB, l, next)
           onward(f) == IF p.reset THEN Coordinator("owned", f, l)
                        ELSE Coordinator("find", f, None)
           q == IF d.row = None THEN Nobody ELSE onward(d.row.fp)
<1>1. /\ p.pc = "finish" /\ p.pc \in Coordinating /\ l \in Logs /\ UNCHANGED <<log, sched>>
  BY ProcFacts DEF Finish, Coordinating, world
<1>2. /\ ~Owes(Nobody) /\ Nobody.pc # "boot"
      /\ \A f : ~Owes(onward(f)) /\ onward(f).pc # "boot"
  BY NobodyOwes DEF Coordinating
<1>3. \/ ReadsRow /\ Becomes(t, Nobody)
      \/ OwnedBy(t) /\ Yields("queue_wait") /\ Becomes(t, Nobody)
      \/ OwnedBy(t) /\ Yields("read_wait") /\ Becomes(t, onward(p.fp))
      \/ OwnedBy(t) /\ Progressed(l, row.pre) /\ Commit(d) /\ Becomes(t, q)
  BY DEF Finish, Exits
<1> HIDE DEF onward
<1>4. CASE ReadsRow /\ Becomes(t, Nobody)
  BY <1>1, <1>2, <1>4, YieldRemembers DEF ReadsRow
<1>5. CASE OwnedBy(t) /\ Yields("queue_wait") /\ Becomes(t, Nobody)
  BY <1>1, <1>2, <1>5, YieldRemembers DEF OwnedBy
<1>6. CASE OwnedBy(t) /\ Yields("read_wait") /\ Becomes(t, onward(p.fp))
  BY <1>1, <1>2, <1>6, YieldRemembers DEF OwnedBy
<1>7. CASE OwnedBy(t) /\ Progressed(l, row.pre) /\ Commit(d) /\ Becomes(t, q)
  <2>1. row # None /\ row.token = t /\ Good(DB) /\ DB.row = row /\ ~DB.full /\ Sound(row)
    BY <1>1, <1>7, OwnedFacts
  <2>2. next.fp \in Generations /\ next.pre \in Histories
    <3> DEFINE pre == None
    <3>1. pre \in Histories \cup {None}
      OBVIOUS
    <3> HIDE DEF pre
    <3> QED BY <1>1, <2>1, <3>1, ReadingsFit
  <2>3. Commit(d) /\ Becomes(t, q) /\ Progressed(l, row.pre)
    BY <1>7
  <2>4. Recounts(log, row, Expected)
    BY <2>1 DEF HistoryInv
  <2> HIDE DEF l
  <2>5. Switches(l, row) \/ Status(l) = "uncompiled" =>
          /\ Counts(log, next.fp) /\ (row.token \in Expected => Tells(log, next.fp, next.pre))
          /\ \/ Switches(l, row) /\ next.fp = row.pend /\ row.pend[1] # row.fp[1]
             \/ next.fp[1] = row.fp[1] /\ Extends(next.pre, row.pre)
    BY <1>1, <2>1, <2>3, <2>4, HandedRecounts
  <2> HIDE DEF next
  <2>6. d.row # None => /\ Switches(l, row) \/ Status(l) = "uncompiled"
                        /\ d.row.token = t /\ d.row.fp = next.fp /\ d.row.pre = next.pre
                        /\ d.row.pend \in {row.pend, None}
                        /\ d.row.pend # None =>
                             d.row.ppre = row.ppre /\ d.row.pend[1] # d.row.fp[1]
    BY <2>1, <2>2, FinishedGood
  <2>7. ~Owes(q) /\ q.pc # "boot"
    <3> HIDE DEF d
    <3> QED BY <1>2
  <2> HIDE DEF d, q
  <2>8. row' = d.row
    BY <2>3 DEF Commit
  <2>9. row' # None => Recounts(log, row', Expected)
    BY <2>1, <2>4, <2>5, <2>6, <2>8 DEF Recounts
  <2>10. Goes
    BY <2>5, <2>6, <2>8, HandedGoes
  <2> QED BY <1>1, <2>1, <2>3, <2>6, <2>7, <2>8, <2>9, <2>10, OwnRemembers
<1> QED BY <1>3, <1>4, <1>5, <1>6, <1>7

LEMMA RenewedRepeats ==
  ASSUME AutoInv, row # None,
         \E s \in {row.status, "read_wait"} : row' = [row EXCEPT !.live = TRUE, !.status = s]
  PROVE  Repeats(row, row')
<1>1. row \in Row
  BY RowFacts
<1>2. row' \in Row /\ row'.token = row.token /\ row'.fp = row.fp /\ row'.pend = row.pend
      /\ row'.pre = row.pre /\ row'.ppre = row.ppre
  BY <1>1 DEF Row, Waits
<1>3. row' # None
  BY <1>2, AutoAssumption
<1> QED BY <1>2, <1>3 DEF Repeats

LEMMA DeferRemembers ==
  ASSUME AutoInv, ContentInv, HistoryInv, NEW t \in Tokens, Defer(t)
  PROVE  Remembers
<1> DEFINE p == proc[t]
           l == p.lp
           next == SeenAtDefer(l, row)
           d == Deferred(DB, l, next)
           again == Coordinator("find", p.fp, None)
           q == IF d.row = None THEN Nobody ELSE Coordinator("find", d.row.fp, None)
<1>1. /\ p.pc = "defer" /\ p.pc \in Coordinating /\ l \in Logs /\ UNCHANGED <<log, sched>>
  BY ProcFacts DEF Defer, Coordinating, world
<1>2. /\ ~Owes(Nobody) /\ Nobody.pc # "boot" /\ ~Owes(again) /\ again.pc # "boot"
      /\ \A f : LET c == Coordinator("find", f, None) IN ~Owes(c) /\ c.pc # "boot"
  BY NobodyOwes DEF Coordinating
<1>3. \/ ReadsRow /\ Becomes(t, Nobody)
      \/ OwnedBy(t) /\ row' = [row EXCEPT !.live = TRUE] /\ UNCHANGED <<runs, keys, proc>>
      \/ /\ OwnedBy(t) /\ row' = [row EXCEPT !.live = TRUE, !.status = "read_wait"]
         /\ Becomes(t, again)
      \/ /\ OwnedBy(t) /\ Commit(d) /\ Becomes(t, q)
         /\ Extends(Marks(l), row.pre) /\ Status(l) # "unreadable"
  BY DEF Defer, Exits
<1> HIDE DEF again
<1>4. CASE ReadsRow /\ Becomes(t, Nobody)
  BY <1>1, <1>2, <1>4, YieldRemembers DEF ReadsRow
<1>5. CASE OwnedBy(t) /\ row' = [row EXCEPT !.live = TRUE] /\ UNCHANGED <<runs, keys, proc>>
  <2>1. row # None /\ row \in Row
    BY <1>5, RowFacts DEF OwnedBy
  <2>2. \E s \in {row.status, "read_wait"} : row' = [row EXCEPT !.live = TRUE, !.status = s]
    <3> WITNESS row.status \in {row.status, "read_wait"}
    <3> QED BY <1>5, <2>1 DEF Row
  <2>3. Repeats(row, row')
    BY <2>1, <2>2, RenewedRepeats
  <2>4. Expected' = Expected
    BY <1>5 DEF Expected
  <2> QED BY <1>1, <1>5, <2>1, <2>3, <2>4, SameRemembers
<1>6. CASE /\ OwnedBy(t) /\ row' = [row EXCEPT !.live = TRUE, !.status = "read_wait"]
           /\ Becomes(t, again)
  <2>1. row # None /\ Repeats(row, row')
    BY <1>6, RenewedRepeats DEF OwnedBy
  <2> QED BY <1>1, <1>2, <1>6, <2>1, OneRemembers
<1>7. CASE /\ OwnedBy(t) /\ Commit(d) /\ Becomes(t, q)
           /\ Extends(Marks(l), row.pre) /\ Status(l) # "unreadable"
  <2>1. /\ row # None /\ row.token = t /\ Good(DB) /\ DB.row = row /\ ~DB.full /\ Sound(row)
        /\ row.fp \in Generations /\ row.pend \in Generations \cup {None}
    BY <1>1, <1>7, OwnedFacts DEF Sound, Row
  <2>2. l = row.fp[2]
    BY <1>1, <1>7 DEF ContentInv, Knows, OwnedBy, Alike
  <2>3. next.fp \in Generations /\ next.pre \in Histories
    <3> DEFINE pre == None
    <3>1. pre \in Histories \cup {None}
      OBVIOUS
    <3> HIDE DEF pre
    <3> QED BY <1>1, <2>1, <3>1, ReadingsFit
  <2>4. Commit(d) /\ Becomes(t, q) /\ Extends(Marks(l), row.pre) /\ Status(l) # "unreadable"
    BY <1>7
  <2>5. Recounts(log, row, Expected)
    BY <2>1 DEF HistoryInv
  <2> HIDE DEF l
  <2>6. Status(l) # "covered" \/ OtherPending(row) => Switches(l, row) \/ Status(l) = "uncompiled"
    BY <2>4 DEF Status, Switches
  <2>7. Switches(l, row) \/ Status(l) = "uncompiled" =>
          /\ Counts(log, next.fp) /\ (row.token \in Expected => Tells(log, next.fp, next.pre))
          /\ \/ Switches(l, row) /\ next.fp = row.pend /\ row.pend[1] # row.fp[1]
             \/ next.fp[1] = row.fp[1] /\ Extends(next.pre, row.pre)
    BY <1>1, <2>1, <2>4, <2>5, HandedRecounts
  <2> HIDE DEF next
  <2>8. d.row # None => /\ Status(l) # "covered" \/ OtherPending(row)
                        /\ d.row.token = t /\ d.row.fp = next.fp /\ d.row.pre = next.pre
                        /\ d.row.pend \in {row.pend, None}
                        /\ d.row.pend # None =>
                             /\ d.row.ppre = row.ppre
                             /\ d.row.pend[1] # d.row.fp[1] \/ Alike(next.fp, row.fp)
    BY <2>1, <2>3, DeferredGood
  <2>9. ~Owes(q) /\ q.pc # "boot"
    <3> HIDE DEF d
    <3> QED BY <1>2
  <2> HIDE DEF d, q
  <2>10. row' = d.row
    BY <2>4 DEF Commit
  <2>11. ASSUME row' # None, row'.pend # None, row'.pend[1] = row'.fp[1]
         PROVE  Tells(log, row.pend, row.ppre)
    <3>1. row.pend # None /\ row.pend = row'.pend /\ Alike(next.fp, row.fp) /\ row'.fp = next.fp
      BY <2>8, <2>10, <2>11
    <3>2. Counts(log, row.pend) /\ row.pend \in Generations
      BY <2>1, <2>5, <3>1 DEF Recounts
    <3>3. CASE Switches(l, row) /\ next.fp = row.pend
      <4>1. row.pend[2] = l
        BY <2>2, <3>1, <3>3 DEF Alike
      <4>2. Status(row.pend[2]) = "covered"
        BY <3>3, <4>1 DEF Switches
      <4> QED BY <3>2, <4>2, CoveredTells DEF AutoInv
    <3>4. CASE next.fp[1] = row.fp[1]
      BY <2>5, <2>11, <3>1, <3>4 DEF Recounts
    <3> QED BY <2>6, <2>7, <2>8, <2>10, <2>11, <3>3, <3>4
  <2>12. row' # None => Recounts(log, row', Expected)
    BY <2>1, <2>5, <2>6, <2>7, <2>8, <2>10, <2>11 DEF Recounts
  <2>13. Goes
    BY <2>6, <2>7, <2>8, <2>10, HandedGoes
  <2> QED BY <1>1, <2>1, <2>4, <2>8, <2>9, <2>10, <2>12, <2>13, OwnRemembers
<1> QED BY <1>3, <1>4, <1>5, <1>6, <1>7

-----------------------------------------------------------------------------
(* ... and the theorem.                                                      *)

LEMMA NextRemembers ==
  ASSUME AutoInv, AutoInv', ContentInv, HistoryInv, Next
  PROVE  Remembers
<1>1. CASE Worker
  BY <1>1, QueueRemembers, ScheduleRemembers, ScheduleAbortsRemembers DEF Worker
<1>2. CASE User \/ Rest
  BY <1>2, UserRemembers
<1>3. CASE Expiry
  BY <1>3, ExpiryRemembers
<1>4. ASSUME NEW t \in Tokens, Process(t) PROVE Remembers
  BY <1>4, StartsRemember, BootstrapRemembers, PollKeepsRemembers, PollWaitsRemembers,
     PollClaimsRemembers, FindRemembers, PromoteRemembers, OwnedRemembers, LaunchRemembers,
     LaunchRefusedRemembers, ReapRemembers, CrashRemembers, FailRemembers, FinishRemembers,
     DeferRemembers
  DEF Process
<1>5. ASSUME NEW t \in Tokens, Child(t) \/ Mishap(t) PROVE Remembers
  BY <1>5, ChildRemembers, ClaimAbortsRemembers, CrashRemembers, LaunchRefusedRemembers
  DEF Mishap
<1> QED BY <1>1, <1>2, <1>3, <1>4, <1>5 DEF Next

LEMMA InitHistory == Init => HistoryInv
<1> SUFFICES ASSUME Init PROVE HistoryInv
  OBVIOUS
<1>1. sched = {} /\ row = None /\ \A t \in Tokens : proc[t] = Nobody
  BY DEF Init
<1>2. \A t \in Tokens : Recalls(log, row, t, proc[t], Expected)
  BY <1>1, NobodyOwes DEF Recalls
<1> QED BY <1>1, <1>2 DEF HistoryInv

LEMMA StepRemembers ==
  AutoInv /\ AutoInv' /\ ContentInv /\ HistoryInv /\ [Next]_vars => Remembers
<1> SUFFICES ASSUME AutoInv, AutoInv', ContentInv, HistoryInv, [Next]_vars PROVE Remembers
  OBVIOUS
<1>1. CASE UNCHANGED vars
  <2>1. Expected' = Expected
    BY <1>1 DEF Expected, vars
  <2> QED BY <1>1, <2>1, SameRemembers DEF vars
<1> QED BY <1>1, NextRemembers

LEMMA HistoryAlways == Spec => []HistoryInv
<1>1. AutoInv /\ AutoInv' /\ ContentInv /\ HistoryInv /\ [Next]_vars => HistoryInv'
  BY StepRemembers DEF Remembers
<1> QED BY <1>1, InitHistory, AutoAlways, ContentAlways, PTL DEF Spec

\* As long as a request stays with a log, no step - of a takeover, of a failure, of a
\* promotion or of a handover - requires less history from the log than was required.
THEOREM HistoryCorrect == Spec => HistoryKept
<1>1. AutoInv /\ AutoInv' /\ ContentInv /\ HistoryInv /\ [Next]_vars =>
        [/\ row # None /\ row.status # "failed" /\ row' # None /\ row'.fp[1] = row.fp[1]
         /\ OfItsLog(row.fp) /\ OfItsLog(row'.fp)
         => \/ row.pre[2] = 0
            \/ row'.pre[1] = row.pre[1] /\ row'.pre[2] >= row.pre[2]]_vars
  BY StepRemembers DEF Remembers, Goes, Extends
<1> QED BY <1>1, AutoAlways, ContentAlways, HistoryAlways, PTL DEF Spec, HistoryKept
=============================================================================
