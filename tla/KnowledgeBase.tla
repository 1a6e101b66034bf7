--------------------------- MODULE KnowledgeBase ---------------------------
(***************************************************************************)
(* What the writers of the knowledge base promise together: an entry is    *)
(* added to the daily log, or the log is compiled, in one step.  Nothing   *)
(* in between is ever seen again, and a compilation covers exactly the     *)
(* entries that it marks.                                                  *)
(***************************************************************************)
EXTENDS Naturals

CONSTANT Captures

VARIABLES
  daily,    \* entries up to the last compiled-through marker, entries since, markers
  article,  \* the entries the articles were compiled from
  state     \* the daily log whose hash scripts/state.json has

kbVars == <<daily, article, state>>

NoLog == [done |-> {}, new |-> {}, marks |-> 0]

Entries == daily.done \cup daily.new

Marked == [done |-> Entries, new |-> {}, marks |-> daily.marks + 1]

Init ==
  /\ daily \in {[NoLog EXCEPT !.new = old] : old \in SUBSET Captures}
  /\ \/ state = daily /\ article = daily.new
     \/ state = NoLog /\ article = {}

Append(c) ==
  /\ c \notin Entries
  /\ daily' = [daily EXCEPT !.new = @ \cup {c}]
  /\ UNCHANGED <<article, state>>

Compile ==
  /\ article' = article \cup daily.new
  /\ daily' = Marked
  /\ state' = Marked

Next == Compile \/ \E c \in Captures : Append(c)

Spec == Init /\ [][Next]_kbVars
=============================================================================
