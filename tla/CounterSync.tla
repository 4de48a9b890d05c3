----------------------------- MODULE CounterSync -----------------------------
(***************************************************************************)
(* What a denormalised counter promises, whatever pipeline keeps it: it is *)
(* always the count of some committed state of its rows, it only moves     *)
(* forward through those states, and the counters for which that cannot be *)
(* promised any more are known (abandoned) until they are brought up to    *)
(* date.  MetricsPipeline implements this specification.                   *)
(***************************************************************************)
EXTENDS Integers

CONSTANTS Items, Columns

VARIABLES
    truth,      \* version of the committed rows behind each counter
    stored,     \* version each stored counter was computed from
    abandoned   \* counters that may stay stale, or move back

vars == <<truth, stored, abandoned>>

Init ==
    /\ truth = [i \in Items |-> [c \in Columns |-> 0]]
    /\ stored = truth
    /\ abandoned = {}

\* Rows behind some counters change; some of those may be given up at once.
Commit ==
    /\ \A i \in Items, c \in Columns : truth'[i][c] \in {truth[i][c], truth[i][c] + 1}
    /\ abandoned \subseteq abandoned'
    /\ UNCHANGED stored

\* Some counters of i are recomputed from a state their rows were once in.
Refresh(i) ==
    /\ \A j \in Items \ {i} : stored'[j] = stored[j]
    /\ \A c \in Columns :
          /\ stored'[i][c] \in 0 .. truth[i][c]
          /\ stored'[i][c] < stored[i][c] => <<i, c>> \in abandoned'
          /\ <<i, c>> \in abandoned \ abandoned' => stored'[i][c] = truth[i][c]
    /\ abandoned \ abandoned' \subseteq {i} \X Columns
    /\ UNCHANGED truth

\* A failure gives up some refreshes.
GiveUp ==
    /\ abandoned \subseteq abandoned'
    /\ UNCHANGED <<truth, stored>>

Next == Commit \/ GiveUp \/ \E i \in Items : Refresh(i)

Spec == Init /\ [][Next]_vars

=============================================================================
