--------------------------- MODULE RegenContract ---------------------------
(***************************************************************************)
(* What one run of a code generator promises about the tree it generates   *)
(* into, whatever it does inside: a check changes nothing; a generation    *)
(* changes nothing before every text it will write is final, then puts     *)
(* these texts in place one file at a time, touches no other file, and     *)
(* calls itself done only when all are in place.  Others may change any    *)
(* file of the tree at any time.                                           *)
(***************************************************************************)
CONSTANTS
    Files,        \* the files of the tree
    Contents,     \* what a file can hold, its absence included
    Blank,        \* the content of a file that was opened and not yet written
    Final         \* Final[f]: the contents that are final texts of f

VARIABLES
    tree,         \* [Files -> Contents]
    job           \* what the run under way is doing

Idle == [phase |-> "idle"]
Preparing == [phase |-> "preparing"]
Replacing(goal, left) == [phase |-> "replacing", goal |-> goal, left |-> left]

Init == /\ tree \in [Files -> Contents]
        /\ job = Idle

\* A run starts, or ends without having changed the tree.
Begin  == job = Idle /\ job' = Preparing /\ UNCHANGED tree
GiveUp == job = Preparing /\ job' = Idle /\ UNCHANGED tree

\* The texts are final: from here on the tree may change.
Settle == /\ job = Preparing
          /\ job'.phase = "replacing"
          /\ job' = Replacing(job'.goal, DOMAIN job'.goal)
          /\ DOMAIN job'.goal \subseteq Files
          /\ \A f \in DOMAIN job'.goal : job'.goal[f] \in Final[f]
          /\ UNCHANGED tree

Clear(f) == /\ job.phase = "replacing" /\ f \in job.left
            /\ tree' = [tree EXCEPT ![f] = Blank]
            /\ UNCHANGED job

Fill(f) == /\ job.phase = "replacing" /\ f \in job.left
           /\ tree' = [tree EXCEPT ![f] = job.goal[f]]
           /\ job' = [job EXCEPT !.left = @ \ {f}]

Finish == /\ job.phase = "replacing" /\ job.left = {}
          /\ job' = Idle
          /\ UNCHANGED tree

\* The process is killed.
Die == job # Idle /\ job' = Idle /\ UNCHANGED tree

\* Somebody else changes a file.
Tamper(f) == /\ \E c \in Contents : tree' = [tree EXCEPT ![f] = c]
             /\ UNCHANGED job

Next == \/ Begin \/ GiveUp \/ Settle \/ Finish \/ Die
        \/ \E f \in Files : Clear(f) \/ Fill(f) \/ Tamper(f)

Spec == Init /\ [][Next]_<<tree, job>>
============================================================================
