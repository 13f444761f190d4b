------------------------------ MODULE Promises ------------------------------
(***************************************************************************)
(* What a node's promise to keep a copy is worth, of what is on disk and   *)
(* who has had it alone. Duty says how nodes come to promise and to give up;    *)
(* its proof says that they keep to this.                                   *)
(***************************************************************************)
CONSTANT
    Nodes

VARIABLES
    held,      \* the objects whose bytes are on each node's disk
    duty,      \* .duty marks
    risk,      \* .at-risk marks: "none", "marked", or "week" when a week old
    dropped,   \* the file of objects given up as the last known copy
    gaveUp     \* who ever gave an object's bytes up (history)

(* An object is accounted for on a node that has it, or that shows what      *)
(* became of it wherever it is killed: in the record of what was dropped, or  *)
(* in a mark that has said for a week that this was the last known copy; and  *)
(* when another node has it, or had it and gave it up as well or is gone.    *)
Accounted(n, o) ==
    \/ o \in held[n]
    \/ o \in dropped[n] \/ risk[n][o] = "week"
    \/ \E m \in Nodes \ {n} : o \in held[m] \/ m \in gaveUp[o]

(* What a node promised to keep stays accounted for, and so does what it has  *)
(* no longer: one node over its ceiling does not lose the last copy by itself *)
(* without a trace (replica.rs shed_duty, the two holders and the order of    *)
(* forget_object, record_dropped and clear_at_risk).                        *)
NoSilentLoss ==
    [][\A n \in Nodes : \A o \in DOMAIN risk[n] :
          (o \in duty[n] \/ o \notin held[n]) /\ Accounted(n, o) => Accounted(n, o)'
      ]_<<held, duty, risk, dropped, gaveUp>>
=============================================================================
